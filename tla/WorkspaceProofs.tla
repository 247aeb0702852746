--------------------------- MODULE WorkspaceProofs ---------------------------
(* Proofs about Workspace, for any number of processes, workstreams, keys,   *)
(* commands and faults.                                                      *)
EXTENDS Workspace, TLAPS

Fields == {"pc", "id", "on", "name", "to", "shelf", "left", "moved", "was", "seen",
           "after", "buf"}
JsonFields == {"kind", "depth", "multi", "repos", "workflow", "nyquist", "val"}
JsonShape(c) == DOMAIN c = JsonFields /\ c.kind = "json" /\ DOMAIN c.val = Keys

Creating == {"guard", "mkdir", "move", "undo", "clean", "dirs", "state", "activate"}
Migrating == {"guard", "mkdir", "move", "undo", "clean"}
Completing == {"shelve", "out", "back", "rmdir", "rmroot"}
Writing == {"trunc", "fill", "sync"}
Todoing == {"todoTrunc", "todoFill", "unlink"}
MoveItems == {ToMove[i] : i \in DOMAIN ToMove}
Repairing(r) == \/ r.pc \in {"repair", "regenerate"}
                \/ r.pc \in {"trunc", "fill"} /\ r.after = "repair"

\* What the record of a process holds at each step, whatever the others do.
Sound(r) ==
    /\ DOMAIN r = Fields
    /\ r.pc \in Migrating => r.to \in Names /\ r.to \in r.on /\ None \in r.on
    /\ r.pc \in Creating \cup Completing => r.name \in Names /\ r.name \in r.on
    /\ r.pc \in {"guard", "mkdir", "shelve"} => r.moved = {}
    /\ r.pc = "move" => r.left \subseteq MoveItems /\ r.left # {}
    /\ r.pc \in {"move", "undo"} => r.moved \subseteq MoveItems
    /\ r.pc \in {"move", "out"} => r.left \cap r.moved = {}
    /\ r.pc \in Creating /\ r.seen # {} => r.to \in Names /\ r.to \in r.on
    /\ Repairing(r) => r.name \in Places /\ r.name \in r.on
    /\ r.pc \in Writing => "config" \in r.on /\ JsonShape(r.buf)
    /\ r.pc \in Writing /\ r.after = "repair" => r.pc # "sync" /\ "writeConfig" \notin r.left
    /\ r.pc \in Writing => r.after \in {"idle", "sync", "read", "repair"}
    /\ r.pc \in {"repair", "regenerate"} /\ "writeConfig" \in r.left => "config" \in r.on
    /\ r.pc \in Todoing => "todo" \in r.on

Shape == /\ DOMAIN proc = Procs
         /\ \A p \in Procs : Sound(proc[p])
         /\ DOMAIN acked = Keys
         /\ config \in {Missing, Torn} \/ JsonShape(config)

LEMMA GoShape ==
    ASSUME Shape, NEW p \in Procs, NEW r, Sound(r), Go(p, r)
    PROVE  /\ DOMAIN proc' = Procs /\ \A q \in Procs : Sound(proc'[q])
           /\ proc'[p] = r /\ \A q \in Others(p) : proc'[q] = proc[q]
BY DEF Shape, Go, Others

LEMMA IdleSound == Sound(Idle)
BY DEF Sound, Idle, Fields, Migrating, Creating, Completing, Writing, Todoing, Repairing

LEMMA InitShape == Init => Shape
<1> SUFFICES ASSUME Init PROVE Shape
    OBVIOUS
<1>1. \A p \in Procs : proc[p] = Idle
    BY DEF Init, WorkstreamInit
<1>2. DOMAIN proc = Procs
    BY DEF Init, WorkstreamInit
<1>3. DOMAIN acked = Keys
    BY DEF Init, SettingsInit
<1>4. config \in {Missing, Torn} \/ JsonShape(config)
    BY DEF Init, SettingsInit, JsonShape, Json, JsonFields
<1>5. QED
    BY <1>1, <1>2, <1>3, <1>4, IdleSound DEF Shape

LEMMA BeginSound ==
    ASSUME NEW p, NEW job, Begin(p, job), Sound(job)
    PROVE  \E r : Go(p, r) /\ Sound(r)
<1>1. Go(p, [job EXCEPT !.id = ops'])
    BY DEF Begin, Go
<1>2. Sound([job EXCEPT !.id = ops'])
    BY DEF Sound, Repairing, Fields
<1>3. QED
    BY <1>1, <1>2

LEMMA FirstIn ==
    ASSUME NEW is, is \subseteq MoveItems, is # {}
    PROVE  First(is) \in is
<1>1. DOMAIN ToMove = 1 .. 4 /\ MoveItems = {ToMove[1], ToMove[2], ToMove[3], ToMove[4]}
    BY DEF ToMove, MoveItems
<1>2. \E i \in 1 .. 4 : ToMove[i] \in is /\ \A j \in 1 .. 4 : j < i => ToMove[j] \notin is
  <2>1. CASE ToMove[1] \in is
    BY <2>1
  <2>2. CASE ToMove[1] \notin is /\ ToMove[2] \in is
    BY <2>2
  <2>3. CASE ToMove[1] \notin is /\ ToMove[2] \notin is /\ ToMove[3] \in is
    BY <2>3
  <2>4. CASE ToMove[1] \notin is /\ ToMove[2] \notin is /\ ToMove[3] \notin is /\ ToMove[4] \in is
    BY <2>4
  <2>5. QED
    BY <1>1, <2>1, <2>2, <2>3, <2>4
<1>3. \E i \in DOMAIN ToMove : ToMove[i] \in is /\ \A j \in 1 .. i - 1 : ToMove[j] \notin is
  <2>1. PICK i \in 1 .. 4 : ToMove[i] \in is /\ \A j \in 1 .. 4 : j < i => ToMove[j] \notin is
    BY <1>2
  <2>2. \A j \in 1 .. i - 1 : j \in 1 .. 4 /\ j < i
    OBVIOUS
  <2>3. QED
    BY <1>1, <2>1, <2>2
<1>4. QED
    BY <1>3 DEF First

\* A removal that fails leaves the disk as it was, and the process goes on to the next step.
LEMMA RemovalIs ==
    ASSUME NEW p, RemovalFails(p)
    PROVE  /\ UNCHANGED <<root, ws, live, wsRoot, archive, shelves, made, ops>>
           /\ faults' = faults + 1 /\ faults < MaxFaults
           /\ excused' = excused \cup {"removal"}
           /\ \/ proc[p].pc = "undo" /\ Go(p, [proc[p] EXCEPT !.pc = "clean"])
              \/ proc[p].pc = "rmdir" /\ Go(p, [proc[p] EXCEPT !.pc = "rmroot"])
              \/ proc[p].pc \in {"clean", "rmroot", "back"} /\ Go(p, Idle)
           /\ \/ active' = active
              \/ proc[p].pc = "back" /\ active' = proc[p].name
<1>1. proc[p].pc \in {"undo", "rmdir", "clean", "rmroot", "back"}
    BY DEF RemovalFails
<1>2. /\ proc[p].pc = "undo" => Go(p, [proc[p] EXCEPT !.pc = "clean"])
      /\ proc[p].pc = "rmdir" => Go(p, [proc[p] EXCEPT !.pc = "rmroot"])
      /\ proc[p].pc \in {"clean", "rmroot", "back"} => Go(p, Idle)
    BY DEF RemovalFails
<1>3. QED
    BY <1>1, <1>2 DEF RemovalFails, Fault

\* The steps of workstream create.
LEMMA CreateShape ==
    ASSUME Shape, NEW p \in Procs,
           \/ \E n \in Names, to \in Names \cup {None} : BeginCreate(p, n, to)
           \/ Guard(p) \/ MkdirTarget(p) \/ Move(p) \/ MoveFails(p) \/ Undo(p)
           \/ PassOver(p) \/ Clean(p) \/ RemovalFails(p)
           \/ MakeDirs(p) \/ WriteState(p) \/ Activate(p)
    PROVE  \E r : Go(p, r) /\ Sound(r)
<1> USE DEF Sound, Migrating, Creating, Completing, Writing, Todoing, Repairing, Fields
<1>0. Sound(proc[p])
    BY DEF Shape
<1>1. ASSUME NEW n \in Names, NEW to \in Names \cup {None}, BeginCreate(p, n, to)
      PROVE  \E r : Go(p, r) /\ Sound(r)
  <2> DEFINE flat == ~wsRoot /\ to # None
             job == [Idle EXCEPT !.pc = IF flat /\ HasWork THEN "guard" ELSE "dirs",
                                 !.on = IF flat /\ HasWork THEN {n, to, None} ELSE {n},
                                 !.name = n, !.to = IF flat /\ HasWork THEN to ELSE None]
  <2>1. Begin(p, job)
    BY <1>1 DEF BeginCreate
  <2>2. Sound(job)
    <3>1. CASE flat /\ HasWork
      BY <3>1 DEF Idle
    <3>2. CASE ~(flat /\ HasWork)
      BY <3>2 DEF Idle
    <3>3. QED
      BY <3>1, <3>2
  <2> HIDE DEF job, Sound
  <2>3. QED
    BY <2>1, <2>2, BeginSound
<1>2. CASE Guard(p)
    BY <1>0, <1>2, IdleSound DEF Guard
<1>3. CASE MkdirTarget(p)
  <2> DEFINE s == [proc[p] EXCEPT !.pc = "move", !.seen = root, !.left = MoveItems]
  <2>1. Go(p, s) /\ proc[p].pc = "mkdir"
    BY <1>3 DEF MkdirTarget, MoveItems
  <2>2. MoveItems # {}
    BY DEF MoveItems, ToMove
  <2>3. Sound(s)
    BY <1>0, <2>1, <2>2
  <2>4. QED
    BY <2>1, <2>3
<1>4. CASE Move(p)
  <2> DEFINE r == proc[p]
             i == First(r.left)
             s == [r EXCEPT !.left = @ \ {i}, !.moved = IF Has(root, i) THEN @ \cup {i} ELSE @,
                            !.pc = IF r.left = {i} THEN "dirs" ELSE "move"]
  <2>1. r.pc = "move" /\ Go(p, s)
    BY <1>4 DEF Move
  <2>2. i \in r.left /\ r.left \subseteq MoveItems
    BY <1>0, <2>1, FirstIn
  <2> HIDE DEF i
  <2>3. Sound(s)
    BY <1>0, <2>1, <2>2
  <2> HIDE DEF s, Sound
  <2>4. QED
    BY <2>1, <2>3
<1>5. CASE MoveFails(p)
    BY <1>0, <1>5 DEF MoveFails
<1>6. CASE Undo(p)
    BY <1>0, <1>6 DEF Undo
<1>7. CASE PassOver(p)
    BY <1>0, <1>7 DEF PassOver
<1>8. CASE Clean(p)
    BY <1>0, <1>8 DEF Clean
<1>r. CASE RemovalFails(p)
  <2>1. CASE proc[p].pc = "undo" /\ Go(p, [proc[p] EXCEPT !.pc = "clean"])
    <3>1. Sound([proc[p] EXCEPT !.pc = "clean"])
      BY <1>0, <2>1
    <3>2. QED
      BY <2>1, <3>1
  <2>2. CASE proc[p].pc = "rmdir" /\ Go(p, [proc[p] EXCEPT !.pc = "rmroot"])
    <3>1. Sound([proc[p] EXCEPT !.pc = "rmroot"])
      BY <1>0, <2>2
    <3>2. QED
      BY <2>2, <3>1
  <2>3. CASE Go(p, Idle)
    BY <2>3, IdleSound
  <2> HIDE DEF Sound
  <2>4. QED
    BY <1>r, <2>1, <2>2, <2>3, RemovalIs
<1>9. CASE MakeDirs(p)
    BY <1>0, <1>9 DEF MakeDirs
<1>10. CASE WriteState(p)
    BY <1>0, <1>10, IdleSound DEF WriteState
<1>11. CASE Activate(p)
    BY <1>0, <1>11, IdleSound DEF Activate
<1>12. QED
    BY <1>1, <1>2, <1>3, <1>4, <1>5, <1>6, <1>7, <1>8, <1>r, <1>9, <1>10, <1>11

\* The steps of workstream complete and workstream set.
LEMMA CompleteShape ==
    ASSUME Shape, NEW p \in Procs,
           \/ \E n \in Names : BeginComplete(p, n)
           \/ MakeShelf(p) \/ Out(p) \/ OutFails(p) \/ Back(p) \/ DropShelf(p)
           \/ Rmdir(p) \/ RmRoot(p)
    PROVE  \E r : Go(p, r) /\ Sound(r)
<1> USE DEF Sound, Migrating, Creating, Completing, Writing, Todoing, Repairing, Fields
<1>0. Sound(proc[p])
    BY DEF Shape
<1>1. ASSUME NEW n \in Names, BeginComplete(p, n)
      PROVE  \E r : Go(p, r) /\ Sound(r)
  <2> DEFINE job == [Idle EXCEPT !.pc = "shelve", !.on = {n}, !.name = n,
                                 !.was = (ActiveWorkstream = n)]
  <2>1. Begin(p, job)
    BY <1>1 DEF BeginComplete
  <2>2. Sound(job)
    BY DEF Idle
  <2> HIDE DEF job, Sound
  <2>3. QED
    BY <2>1, <2>2, BeginSound
<1>2. CASE MakeShelf(p)
  <2> DEFINE is == ItemsOf(ws[proc[p].name])
             s(k) == [proc[p] EXCEPT !.shelf = k, !.seen = ws[proc[p].name], !.left = is,
                                     !.pc = IF ws[proc[p].name] = {} THEN "rmdir" ELSE "out"]
  <2>1. proc[p].pc = "shelve" /\ \E k : Go(p, s(k))
    BY <1>2 DEF MakeShelf
  <2>2. \A k : Sound(s(k))
    BY <1>0, <2>1
  <2> HIDE DEF s, Sound
  <2>3. QED
    BY <2>1, <2>2
<1>3. CASE Out(p)
  <2> DEFINE s(i) == [proc[p] EXCEPT !.left = @ \ {i}, !.moved = @ \cup {i},
                                     !.pc = IF proc[p].left = {i} THEN "rmdir" ELSE "out"]
  <2>1. proc[p].pc = "out" /\ \E i \in proc[p].left : Go(p, s(i))
    BY <1>3 DEF Out
  <2>2. \A i \in proc[p].left : Sound(s(i))
    BY <1>0, <2>1
  <2> HIDE DEF s, Sound
  <2>3. QED
    BY <2>1, <2>2
<1>4. CASE OutFails(p)
    BY <1>0, <1>4 DEF OutFails
<1>5. CASE Back(p)
  <2> DEFINE s(i) == [proc[p] EXCEPT !.moved = @ \ {i}]
  <2>1. proc[p].pc = "back" /\ \E i : Go(p, s(i))
    BY <1>5 DEF Back
  <2>2. \A i : Sound(s(i))
    BY <1>0, <2>1
  <2> HIDE DEF s, Sound
  <2>3. QED
    BY <2>1, <2>2
<1>6. CASE DropShelf(p)
    BY <1>0, <1>6, IdleSound DEF DropShelf
<1>7. CASE Rmdir(p)
    BY <1>0, <1>7 DEF Rmdir
<1>8. CASE RmRoot(p)
    BY <1>0, <1>8, IdleSound DEF RmRoot
<1>9. QED
    BY <1>1, <1>2, <1>3, <1>4, <1>5, <1>6, <1>7, <1>8

\* What is written to config.json.
LEMMA DefaultsShape == JsonShape(Defaults) /\ JsonShape(Empty)
BY DEF JsonShape, JsonFields, Defaults, Empty, Json

LEMMA WithKeyShape ==
    ASSUME NEW c, JsonShape(c), NEW k, NEW v
    PROVE  JsonShape(WithKey(c, k, v))
BY DEF JsonShape, JsonFields, WithKey

LEMMA UpToDateShape ==
    ASSUME NEW c, JsonShape(c)
    PROVE  JsonShape(UpToDate(c))
BY DEF JsonShape, JsonFields, UpToDate

LEMMA ToWriteSound ==
    ASSUME NEW r, DOMAIN r = Fields, NEW c, JsonShape(c),
           NEW after \in {"idle", "sync", "read", "repair"},
           after = "repair" => r.name \in Places /\ r.name \in r.on /\ "writeConfig" \notin r.left
    PROVE  Sound(ToWrite(r, c, after))
BY DEF Sound, Migrating, Creating, Completing, Writing, Todoing, Repairing, Fields, ToWrite

LEMMA WrittenSound ==
    ASSUME NEW r, Sound(r), r.pc = "fill", r.after # "idle"
    PROVE  Sound(Written(r))
<1> USE DEF Sound, Migrating, Creating, Completing, Writing, Todoing, Repairing, Fields
<1>1. CASE r.after = "sync"
    BY <1>1 DEF Written
<1>2. CASE r.after = "read"
    BY <1>2 DEF Written
<1>3. CASE r.after = "repair"
    BY <1>3, SettingsAssumption DEF Written, Places
<1>4. QED
    BY <1>1, <1>2, <1>3

LEMMA SettingsShape ==
    ASSUME Shape, NEW p \in Procs, SettingsStep(p)
    PROVE  \E r : Go(p, r) /\ Sound(r)
<1> USE DEF Sound, Migrating, Creating, Completing, Writing, Todoing, Repairing, Fields
<1> DEFINE Goal == \E r : Go(p, r) /\ Sound(r)
<1>0. Sound(proc[p]) /\ DOMAIN Idle = Fields
    BY DEF Shape, Idle
<1>1. CASE Truncate(p)
    BY <1>0, <1>1 DEF Truncate
<1>2. CASE Fill(p)
  <2>1. proc[p].pc = "fill" /\ Go(p, IF proc[p].after = "idle" THEN Idle ELSE Written(proc[p]))
    BY <1>2 DEF Fill
  <2> HIDE DEF Sound
  <2>2. QED
    BY <1>0, <2>1, IdleSound, WrittenSound
<1>3. CASE NewProject(p)
  <2>1. \E c : JsonShape(c) /\ Begin(p, ToWrite(Idle, c, "idle"))
    BY <1>3, DefaultsShape, WithKeyShape DEF NewProject, EnsureConfig
  <2> HIDE DEF Sound
  <2>2. QED
    BY <1>0, <2>1, ToWriteSound, BeginSound
<1>4. CASE SetValue(p)
  <2> DEFINE c == IF config = Missing THEN Empty ELSE config
             s == ToWrite(proc[p], WithKey(c, proc[p].name, proc[p].id), "idle")
  <2>1. \/ Go(p, Idle)
        \/ config # Torn /\ Go(p, s)
    BY <1>4 DEF SetValue, Continue
  <2>2. config # Torn => JsonShape(WithKey(c, proc[p].name, proc[p].id))
    BY DefaultsShape, WithKeyShape DEF Shape
  <2> HIDE DEF c
  <2>3. config # Torn => Sound(s)
    BY <1>0, <2>2, ToWriteSound
  <2> HIDE DEF Sound, s
  <2>4. QED
    BY <2>1, <2>3, IdleSound
<1>5. CASE LoadConfig(p)
  <2>1. JsonShape(config)
    BY <1>5 DEF LoadConfig, IsJson, Shape, Missing, NoBuffer, Torn
  <2> DEFINE c == [config EXCEPT !.depth = FALSE]
             d == UpToDate(config)
  <2>2. JsonShape(c) /\ JsonShape(d)
    BY <2>1, UpToDateShape DEF JsonShape, JsonFields
  <2>3. Begin(p, ToWrite(Idle, c, "sync")) \/ Begin(p, ToWrite(Idle, d, "idle"))
    BY <1>5 DEF LoadConfig
  <2> HIDE DEF Sound, c, d
  <2>4. QED
    BY <1>0, <2>2, <2>3, ToWriteSound, BeginSound
<1>6. CASE SyncRepos(p)
  <2> DEFINE c == UpToDate(proc[p].buf)
  <2>1. proc[p].pc = "sync" /\ (Go(p, ToWrite(proc[p], c, "idle")) \/ Go(p, Idle))
    BY <1>6 DEF SyncRepos
  <2>2. JsonShape(c)
    BY <1>0, <2>1, UpToDateShape
  <2> HIDE DEF c
  <2>3. Sound(ToWrite(proc[p], c, "idle"))
    BY <1>0, <2>2, ToWriteSound
  <2> HIDE DEF Sound
  <2>4. QED
    BY <2>1, <2>3, IdleSound
<1>7. ASSUME NEW k \in Keys, NEW ensure \in BOOLEAN, BeginSet(p, k, ensure)
      PROVE  Goal
  <2> DEFINE job == [Idle EXCEPT !.name = k, !.pc = "read"]
  <2>1. Begin(p, ToWrite(job, Defaults, "read")) \/ Begin(p, job)
    BY <1>7 DEF BeginSet
  <2>2. Sound(job)
    BY DEF Idle
  <2>3. DOMAIN job = Fields
    BY <1>0
  <2> HIDE DEF Sound, job
  <2>4. Sound(ToWrite(job, Defaults, "read"))
    BY <2>3, ToWriteSound, DefaultsShape
  <2>5. QED
    BY <2>1, <2>2, <2>4, BeginSound
<1>8. ASSUME NEW n \in Names \cup {None}, BeginHealth(p, n)
      PROVE  Goal
  <2> DEFINE left == Repairable(n)
             on == {n} \cup IF left \subseteq {"regenerateState"} THEN {} ELSE {"config"}
             job == [Idle EXCEPT !.pc = "repair", !.name = n, !.left = left, !.seen = left,
                                 !.on = on]
  <2>1. Begin(p, job)
    BY <1>8 DEF BeginHealth
  <2>2. "writeConfig" \in left => "config" \in on
    OBVIOUS
  <2>3. n \in on /\ n \in Places
    BY DEF Places
  <2> HIDE DEF left, on
  <2>4. Sound(job)
    BY <2>2, <2>3 DEF Idle
  <2> HIDE DEF Sound, job
  <2>5. QED
    BY <2>1, <2>4, BeginSound
<1>9. CASE BackupState(p)
  <2> DEFINE s == [Repaired(proc[p], "regenerateState") EXCEPT !.pc = "regenerate"]
  <2>1. proc[p].pc = "repair" /\ Go(p, s)
    BY <1>9 DEF BackupState
  <2>2. Sound(s)
    BY <1>0, <2>1 DEF Repaired
  <2> HIDE DEF s, Sound
  <2>3. QED
    BY <2>1, <2>2
<1>10. CASE RegenerateState(p)
  <2> DEFINE s == [proc[p] EXCEPT !.pc = "repair"]
  <2>1. proc[p].pc = "regenerate" /\ Go(p, s)
    BY <1>10 DEF RegenerateState
  <2>2. Sound(s)
    BY <1>0, <2>1
  <2> HIDE DEF s, Sound
  <2>3. QED
    BY <2>1, <2>2
<1>11. CASE ResetConfig(p)
  <2> DEFINE r == Repaired(proc[p], "writeConfig")
  <2>1. proc[p].pc = "repair" /\ Go(p, ToWrite(r, Defaults, "repair"))
    BY <1>11 DEF ResetConfig, Continue
  <2>2. DOMAIN r = Fields /\ r.name \in Places /\ r.name \in r.on /\ "writeConfig" \notin r.left
    BY <1>0, <2>1 DEF Repaired
  <2> HIDE DEF r, Sound
  <2>3. QED
    BY <2>1, <2>2, ToWriteSound, DefaultsShape
<1>12. CASE AddNyquistKey(p)
  <2> DEFINE r == Repaired(proc[p], "addNyquistKey")
             c == [config EXCEPT !.workflow = TRUE, !.nyquist = TRUE]
  <2>1. /\ proc[p].pc = "repair" /\ proc[p].left = {"addNyquistKey"}
        /\ Go(p, r) \/ (IsJson /\ Go(p, ToWrite(r, c, "repair")))
    BY <1>12 DEF AddNyquistKey, Continue
  <2>2. /\ DOMAIN r = Fields /\ r.name \in Places /\ r.name \in r.on /\ "writeConfig" \notin r.left
        /\ Sound(r)
    BY <1>0, <2>1 DEF Repaired
  <2>3. IsJson => JsonShape(c)
    BY DEF IsJson, Shape, Missing, NoBuffer, Torn, JsonShape, JsonFields
  <2> HIDE DEF r, Sound, c
  <2>4. QED
    BY <2>1, <2>2, <2>3, ToWriteSound
<1>13. CASE EndHealth(p)
    BY <1>13, IdleSound DEF EndHealth
<1>14. CASE BeginTodo(p)
  <2> DEFINE job == [Idle EXCEPT !.pc = "todoTrunc", !.on = {"todo"}]
  <2>1. Begin(p, job)
    BY <1>14 DEF BeginTodo
  <2>2. Sound(job)
    BY DEF Idle
  <2> HIDE DEF job, Sound
  <2>3. QED
    BY <2>1, <2>2, BeginSound
<1>15. CASE TodoStep(p)
    BY <1>0, <1>15, IdleSound DEF TodoStep
<1>16. QED
    BY <1>1, <1>2, <1>3, <1>4, <1>5, <1>6, <1>7, <1>8, <1>9, <1>10, <1>11, <1>12, <1>13, <1>14, <1>15
       DEF SettingsStep

\* config.json is a configuration whenever it is not being written.
LEMMA ConfigShape ==
    ASSUME Shape, [Next]_vars
    PROVE  DOMAIN acked' = Keys /\ (config' \in {Missing, Torn} \/ JsonShape(config'))
<1>1. CASE \E p \in Procs : Truncate(p)
    BY <1>1 DEF Truncate, Shape
<1>2. ASSUME NEW p \in Procs, Fill(p)
      PROVE  DOMAIN acked' = Keys /\ (config' \in {Missing, Torn} \/ JsonShape(config'))
    BY <1>2 DEF Fill, Shape, Sound, Writing
<1>3. CASE UNCHANGED config /\ DOMAIN acked' = DOMAIN acked
    BY <1>3 DEF Shape
<1>4. QED
  <2>1. ASSUME NEW p \in Procs, SettingsStep(p)
        PROVE  Truncate(p) \/ Fill(p) \/ (UNCHANGED config /\ DOMAIN acked' = DOMAIN acked)
    <3>1. CASE LoadConfig(p) \/ SyncRepos(p)
      BY <3>1 DEF LoadConfig, SyncRepos, Forget
    <3>2. CASE ~LoadConfig(p) /\ ~SyncRepos(p)
      BY <2>1, <3>2 DEF SettingsStep, NewProject, EnsureConfig, SetValue, BeginSet,
                BeginHealth, BackupState, RegenerateState, ResetConfig, AddNyquistKey, EndHealth,
                BeginTodo, TodoStep, store
    <3>3. QED
      BY <3>1, <3>2
  <2>2. QED
    BY <1>1, <1>2, <1>3, <2>1 DEF Next, Crash, RepoAppears, store, vars

LEMMA SetActiveStep ==
    ASSUME NEW p, NEW n, SetActive(p, n)
    PROVE  UNCHANGED <<proc, excused>>
BY DEF SetActive

\* What a step is: one process moves, and the others stay where they are.
LEMMA ProcStep ==
    ASSUME Shape, NEW p \in Procs, WorkstreamStep(p) \/ SettingsStep(p) \/ Crash(p)
    PROVE  UNCHANGED proc \/ \E r : Go(p, r) /\ Sound(r)
<1>1. CASE WorkstreamStep(p)
    BY <1>1, CreateShape, CompleteShape, SetActiveStep DEF WorkstreamStep
<1>2. CASE SettingsStep(p)
    BY <1>2, SettingsShape
<1>3. CASE Crash(p)
    BY <1>3, IdleSound DEF Crash
<1>4. QED
    BY <1>1, <1>2, <1>3

LEMMA ShapeStep == Shape /\ [Next]_vars => Shape'
<1> SUFFICES ASSUME Shape, [Next]_vars PROVE Shape'
    OBVIOUS
<1>1. ASSUME NEW p \in Procs, WorkstreamStep(p) \/ SettingsStep(p) \/ Crash(p)
      PROVE  DOMAIN proc' = Procs /\ \A q \in Procs : Sound(proc'[q])
    BY <1>1, ProcStep, GoShape DEF Shape
<1>2. CASE UNCHANGED proc
    BY <1>2, ConfigShape DEF Shape
<1>3. QED
    BY <1>1, <1>2, ConfigShape DEF Next, RepoAppears, Shape, vars

-----------------------------------------------------------------------------
(* What two commands work on at once is in excused.                          *)

Exclusive == \A p, q \in Procs : p # q => proc[p].on \cap proc[q].on \subseteq excused

\* A step of p begins work on nothing, or marks what others work on already.
Honest(p) == /\ excused \subseteq excused'
             /\ \/ proc'[p].on \subseteq proc[p].on
                \/ \A q \in Others(p) : proc[q].on \cap proc'[p].on \subseteq excused'

LEMMA BeginHonest ==
    ASSUME Shape, NEW p \in Procs, NEW job, DOMAIN job = Fields, Begin(p, job)
    PROVE  Honest(p)
BY DEF Begin, Contest, Honest, Shape, Fields

LEMMA GoHonest ==
    ASSUME Shape, NEW p \in Procs, NEW r, Go(p, r), excused \subseteq excused',
           r.on \subseteq proc[p].on
    PROVE  Honest(p)
BY DEF Go, Honest, Shape

LEMMA ContinueHonest ==
    ASSUME Shape, NEW p \in Procs, NEW r, Continue(p, r)
    PROVE  Honest(p)
BY DEF Continue, Go, Contest, Honest, Shape

LEMMA WorkstreamHonest ==
    ASSUME Shape, NEW p \in Procs, WorkstreamStep(p)
    PROVE  Honest(p)
<1> DEFINE r == proc[p]
<1>0. DOMAIN r = Fields /\ DOMAIN Idle = Fields /\ Idle.on = {}
    BY DEF Shape, Sound, Idle, Fields
<1> USE DEF Fields
<1>1. ASSUME NEW n \in Names, NEW to \in Names \cup {None}, BeginCreate(p, n, to)
      PROVE  Honest(p)
  <2>1. \E job : DOMAIN job = Fields /\ Begin(p, job)
    BY <1>0, <1>1 DEF BeginCreate
  <2>2. QED
    BY <2>1, BeginHonest
<1>2. ASSUME NEW n \in Names, BeginComplete(p, n)
      PROVE  Honest(p)
  <2>1. \E job : DOMAIN job = Fields /\ Begin(p, job)
    BY <1>0, <1>2 DEF BeginComplete
  <2>2. QED
    BY <2>1, BeginHonest
<1>3. CASE Guard(p)
    BY <1>0, <1>3, GoHonest DEF Guard
<1>4. CASE MkdirTarget(p)
    BY <1>0, <1>4, GoHonest DEF MkdirTarget
<1>5. CASE Move(p)
    BY <1>0, <1>5, GoHonest DEF Move
<1>6. CASE MoveFails(p)
    BY <1>0, <1>6, GoHonest DEF MoveFails
<1>7. CASE Undo(p)
    BY <1>0, <1>7, GoHonest DEF Undo
<1>8. CASE PassOver(p)
    BY <1>0, <1>8, GoHonest DEF PassOver
<1>9. CASE Clean(p)
    BY <1>0, <1>9, GoHonest DEF Clean
<1>r. CASE RemovalFails(p)
    BY <1>0, <1>r, GoHonest, RemovalIs
<1>10. CASE MakeDirs(p)
    BY <1>0, <1>10, GoHonest DEF MakeDirs
<1>11. CASE WriteState(p)
    BY <1>0, <1>11, GoHonest DEF WriteState
<1>12. CASE Activate(p)
    BY <1>0, <1>12, GoHonest DEF Activate
<1>13. CASE MakeShelf(p)
    BY <1>0, <1>13, GoHonest DEF MakeShelf
<1>14. CASE Out(p)
    BY <1>0, <1>14, GoHonest DEF Out
<1>15. CASE OutFails(p)
    BY <1>0, <1>15, GoHonest DEF OutFails
<1>16. CASE Back(p)
    BY <1>0, <1>16, GoHonest DEF Back
<1>17. CASE DropShelf(p)
    BY <1>0, <1>17, GoHonest DEF DropShelf
<1>18. CASE Rmdir(p)
    BY <1>0, <1>18, GoHonest DEF Rmdir
<1>19. CASE RmRoot(p)
    BY <1>0, <1>19, GoHonest DEF RmRoot
<1>20. ASSUME NEW n, SetActive(p, n)
       PROVE  Honest(p)
    BY <1>20 DEF SetActive, Honest
<1>21. QED
    BY <1>1, <1>2, <1>3, <1>4, <1>5, <1>6, <1>7, <1>8, <1>9, <1>10, <1>11, <1>12, <1>13,
       <1>14, <1>15, <1>16, <1>17, <1>18, <1>19, <1>20, <1>r DEF WorkstreamStep

LEMMA SettingsHonest ==
    ASSUME Shape, NEW p \in Procs, SettingsStep(p)
    PROVE  Honest(p)
<1> DEFINE r == proc[p]
<1>0. DOMAIN r = Fields /\ DOMAIN Idle = Fields /\ Idle.on = {}
    BY DEF Shape, Sound, Idle, Fields
<1> USE DEF Fields
<1>1. ASSUME NEW job, NEW c, NEW after, DOMAIN job = Fields
      PROVE  DOMAIN ToWrite(job, c, after) = Fields
    BY <1>1 DEF ToWrite
<1>2. CASE Truncate(p)
    BY <1>0, <1>2, GoHonest DEF Truncate
<1>3. CASE Fill(p)
  <2>1. Written(r).on \subseteq r.on
    BY <1>0 DEF Written
  <2>2. QED
    BY <1>0, <1>3, <2>1, GoHonest DEF Fill
<1>4. CASE NewProject(p)
    BY <1>0, <1>1, <1>4, BeginHonest DEF NewProject, EnsureConfig
<1>5. CASE SetValue(p)
    BY <1>5, ContinueHonest DEF SetValue
<1>6. CASE LoadConfig(p)
    BY <1>0, <1>1, <1>6, BeginHonest DEF LoadConfig
<1>7. CASE SyncRepos(p)
  <2>1. r.pc = "sync" /\ "config" \in r.on
    BY <1>7 DEF SyncRepos, Shape, Sound, Writing
  <2>2. \A c : ToWrite(r, c, "idle").on \subseteq r.on
    BY <1>0, <2>1 DEF ToWrite
  <2>3. QED
    BY <1>0, <1>7, <2>2, GoHonest DEF SyncRepos
<1>8. ASSUME NEW k \in Keys, NEW ensure \in BOOLEAN, BeginSet(p, k, ensure)
      PROVE  Honest(p)
  <2>1. \E job : DOMAIN job = Fields /\ Begin(p, job)
    BY <1>0, <1>1, <1>8 DEF BeginSet
  <2>2. QED
    BY <2>1, BeginHonest
<1>9. ASSUME NEW n \in Names \cup {None}, BeginHealth(p, n)
      PROVE  Honest(p)
  <2>1. \E job : DOMAIN job = Fields /\ Begin(p, job)
    BY <1>0, <1>9 DEF BeginHealth
  <2>2. QED
    BY <2>1, BeginHonest
<1>10. CASE BackupState(p)
    BY <1>0, <1>10, GoHonest DEF BackupState, Repaired
<1>11. CASE RegenerateState(p)
    BY <1>0, <1>11, GoHonest DEF RegenerateState
<1>12. CASE ResetConfig(p)
    BY <1>12, ContinueHonest DEF ResetConfig
<1>13. CASE AddNyquistKey(p)
    BY <1>13, ContinueHonest DEF AddNyquistKey
<1>14. CASE EndHealth(p)
    BY <1>0, <1>14, GoHonest DEF EndHealth
<1>15. CASE BeginTodo(p)
    BY <1>0, <1>15, BeginHonest DEF BeginTodo
<1>16. CASE TodoStep(p)
    BY <1>0, <1>16, GoHonest DEF TodoStep
<1>17. QED
    BY <1>2, <1>3, <1>4, <1>5, <1>6, <1>7, <1>8, <1>9, <1>10, <1>11, <1>12, <1>13, <1>14,
       <1>15, <1>16 DEF SettingsStep

LEMMA StepHonest ==
    ASSUME Shape, NEW p \in Procs, WorkstreamStep(p) \/ SettingsStep(p) \/ Crash(p)
    PROVE  Honest(p) /\ \A q \in Others(p) : proc'[q] = proc[q]
<1>1. Honest(p)
  <2>1. CASE Crash(p)
    BY <2>1, GoHonest DEF Crash, Idle
  <2>2. QED
    BY <2>1, WorkstreamHonest, SettingsHonest
<1>2. QED
    BY <1>1, ProcStep, GoShape DEF Others

LEMMA ExclusiveStep == Shape /\ Exclusive /\ [Next]_vars => Exclusive'
<1> SUFFICES ASSUME Shape, Exclusive, [Next]_vars PROVE Exclusive'
    OBVIOUS
<1>1. ASSUME NEW p \in Procs, WorkstreamStep(p) \/ SettingsStep(p) \/ Crash(p)
      PROVE  Exclusive'
    BY <1>1, StepHonest DEF Exclusive, Honest, Others
<1>2. CASE UNCHANGED <<proc, excused>>
    BY <1>2 DEF Exclusive
<1>3. QED
    BY <1>1, <1>2 DEF Next, RepoAppears, vars

-----------------------------------------------------------------------------
(* The todos.                                                                *)

Managing == Creating \cup Completing \cup {"idle"}

\* The workstream commands keep to their own steps.
LEMMA WorkstreamPc ==
    ASSUME Shape, NEW p \in Procs, WorkstreamStep(p)
    PROVE  proc[p].pc \in Managing /\ proc'[p].pc \in Managing
<1> DEFINE Goal == proc[p].pc \in Managing /\ proc'[p].pc \in Managing
<1> USE DEF Managing, Creating, Completing
<1>0. /\ DOMAIN proc = Procs /\ DOMAIN proc[p] = Fields
      /\ DOMAIN Idle = Fields /\ Idle.pc = "idle"
    BY DEF Shape, Sound, Idle, Fields
<1> USE DEF Fields
<1>1. ASSUME NEW n \in Names, NEW to \in Names \cup {None}, BeginCreate(p, n, to)
      PROVE  Goal
  <2>1. \E job : /\ DOMAIN job = Fields /\ job.pc \in {"guard", "dirs"}
                  /\ Begin(p, job)
    BY <1>0, <1>1 DEF BeginCreate
  <2>2. QED
    BY <1>0, <2>1 DEF Begin
<1>2. ASSUME NEW n \in Names, BeginComplete(p, n)
      PROVE  Goal
    BY <1>0, <1>2 DEF BeginComplete, Begin
<1>3. CASE Guard(p)
    BY <1>0, <1>3 DEF Guard, Go
<1>4. CASE MkdirTarget(p)
    BY <1>0, <1>4 DEF MkdirTarget, Go
<1>5. CASE Move(p)
    BY <1>0, <1>5 DEF Move, Go
<1>6. CASE MoveFails(p)
    BY <1>0, <1>6 DEF MoveFails, Go
<1>7. CASE Undo(p)
    BY <1>0, <1>7 DEF Undo, Go
<1>8. CASE PassOver(p)
    BY <1>0, <1>8 DEF PassOver, Go
<1>9. CASE Clean(p)
    BY <1>0, <1>9 DEF Clean, Go
<1>r. CASE RemovalFails(p)
    BY <1>0, <1>r, RemovalIs DEF Go
<1>10. CASE MakeDirs(p)
    BY <1>0, <1>10 DEF MakeDirs, Go
<1>11. CASE WriteState(p)
    BY <1>0, <1>11 DEF WriteState, Go
<1>12. CASE Activate(p)
    BY <1>0, <1>12 DEF Activate, Go
<1>13. CASE MakeShelf(p)
    BY <1>0, <1>13 DEF MakeShelf, Go
<1>14. CASE Out(p)
    BY <1>0, <1>14 DEF Out, Go
<1>15. CASE OutFails(p)
    BY <1>0, <1>15 DEF OutFails, Go
<1>16. CASE Back(p)
    BY <1>0, <1>16 DEF Back, Go
<1>17. CASE DropShelf(p)
    BY <1>0, <1>17 DEF DropShelf, Go
<1>18. CASE Rmdir(p)
    BY <1>0, <1>18 DEF Rmdir, Go
<1>19. CASE RmRoot(p)
    BY <1>0, <1>19 DEF RmRoot, Go
<1>20. ASSUME NEW n, SetActive(p, n)
      PROVE  Goal
    BY <1>20 DEF SetActive
<1>21. QED
    BY <1>1, <1>2, <1>3, <1>4, <1>5, <1>6, <1>7, <1>8, <1>9, <1>10,
       <1>11, <1>12, <1>13, <1>14, <1>15, <1>16, <1>17, <1>18, <1>19, <1>20, <1>r DEF WorkstreamStep

LEMMA SettingsPc ==
    ASSUME Shape, NEW p \in Procs, SettingsStep(p), ~BeginTodo(p), ~TodoStep(p)
    PROVE  /\ proc'[p].pc \in Writing \cup {"read", "repair", "regenerate", "idle"}
           /\ UNCHANGED <<pending, done>>
           /\ BackupState(p) \/ (proc'[p].pc # "regenerate" /\ (UNCHANGED tree \/ RegenerateState(p)))
           /\ UNCHANGED made \/ RegenerateState(p)
<1> USE DEF Writing, Fields
<1> DEFINE r == proc[p]
           Goal == /\ proc'[p].pc \in Writing \cup {"read", "repair", "regenerate", "idle"}
                   /\ UNCHANGED <<pending, done>>
                   /\ \/ BackupState(p)
                      \/ proc'[p].pc # "regenerate" /\ (UNCHANGED tree \/ RegenerateState(p))
                   /\ UNCHANGED made \/ RegenerateState(p)
<1>0. /\ DOMAIN proc = Procs /\ DOMAIN r = Fields
      /\ DOMAIN Idle = Fields /\ Idle.pc = "idle"
      /\ r.pc \in Writing => r.after \in {"idle", "sync", "read", "repair"}
    BY DEF Shape, Sound, Idle
<1>1. ASSUME NEW job, NEW c, NEW after, DOMAIN job = Fields
      PROVE  LET w == ToWrite(job, c, after) IN DOMAIN w = Fields /\ w.pc = "trunc"
    BY <1>1 DEF ToWrite
<1>2. ASSUME NEW job, DOMAIN job = Fields, Begin(p, job)
      PROVE  proc'[p].pc = job.pc
    BY <1>0, <1>2 DEF Begin
<1>3. ASSUME NEW s, Continue(p, s)
      PROVE  proc'[p] = s
    BY <1>0, <1>3 DEF Continue, Go
<1>4. CASE Truncate(p)
    BY <1>0, <1>4 DEF Truncate, Go
<1>5. CASE Fill(p)
  <2>1. r.after # "idle" => Written(r).pc \in {"sync", "read", "repair"}
    BY <1>0, <1>5 DEF Written, Fill, Writing
  <2>2. QED
    BY <1>0, <1>5, <2>1 DEF Fill, Go
<1>6. CASE NewProject(p)
    BY <1>0, <1>1, <1>2, <1>6 DEF NewProject, EnsureConfig, store
<1>7. CASE SetValue(p)
    BY <1>0, <1>1, <1>3, <1>7 DEF SetValue, store
<1>8. CASE LoadConfig(p)
    BY <1>0, <1>1, <1>2, <1>8 DEF LoadConfig, store
<1>9. CASE SyncRepos(p)
    BY <1>0, <1>1, <1>9 DEF SyncRepos, Go, store
<1>10. ASSUME NEW k \in Keys, NEW ensure \in BOOLEAN, BeginSet(p, k, ensure)
       PROVE  Goal
  <2>1. \E job : DOMAIN job = Fields /\ job.pc \in {"trunc", "read"} /\ Begin(p, job)
    BY <1>0, <1>1, <1>10, ZenonT(60) DEF BeginSet
  <2>2. QED
    BY <1>2, <1>10, <2>1 DEF BeginSet, store
<1>11. ASSUME NEW n \in Names \cup {None}, BeginHealth(p, n)
       PROVE  Goal
  <2>1. \E job : DOMAIN job = Fields /\ job.pc = "repair" /\ Begin(p, job)
    BY <1>0, <1>11 DEF BeginHealth
  <2>2. QED
    BY <1>2, <1>11, <2>1 DEF BeginHealth, store
<1>12. CASE BackupState(p)
    BY <1>0, <1>12 DEF BackupState, Repaired, Go, store
<1>13. CASE RegenerateState(p)
    BY <1>0, <1>13 DEF RegenerateState, Go, store
<1>14. CASE ResetConfig(p)
    BY <1>0, <1>1, <1>3, <1>14 DEF ResetConfig, Repaired, store
<1>15. CASE AddNyquistKey(p)
    BY <1>0, <1>1, <1>3, <1>15 DEF AddNyquistKey, Repaired, store
<1>16. CASE EndHealth(p)
    BY <1>0, <1>16 DEF EndHealth, Go, store
<1>17. QED
    BY <1>4, <1>5, <1>6, <1>7, <1>8, <1>9, <1>10, <1>11, <1>12, <1>13, <1>14, <1>15, <1>16
       DEF SettingsStep

TodoInv == "todo" \notin excused =>
    /\ \A p \in Procs : proc[p].pc \in {"todoTrunc", "todoFill"} => pending
    /\ \A p \in Procs : proc[p].pc = "unlink" => done = "whole"
    /\ pending \/ done = "whole"

LEMMA TodoInit == Init => TodoInv
BY DEF Init, WorkstreamInit, SettingsInit, TodoInv, Idle

LEMMA TodoInvStep == Shape /\ Exclusive /\ TodoInv /\ [Next]_vars => TodoInv'
<1> SUFFICES ASSUME Shape, Exclusive, TodoInv, [Next]_vars, "todo" \notin excused'
             PROVE  TodoInv'
    BY DEF TodoInv
<1>1. ASSUME NEW p \in Procs, WorkstreamStep(p) \/ SettingsStep(p) \/ Crash(p)
      PROVE  "todo" \notin excused /\ \A q \in Others(p) : proc'[q] = proc[q]
    BY <1>1, StepHonest DEF Honest
<1>2. ASSUME NEW p \in Procs, "todo" \notin excused, proc[p].pc \in Todoing
      PROVE  \A q \in Others(p) : proc[q].pc \notin Todoing
    BY <1>2 DEF Shape, Sound, Exclusive, Others
<1>3. ASSUME NEW p \in Procs, WorkstreamStep(p), UNCHANGED store
      PROVE  TodoInv'
    BY <1>1, <1>3, WorkstreamPc
       DEF TodoInv, Others, Managing, Creating, Completing, store
<1>4. ASSUME NEW p \in Procs, BeginTodo(p)
      PROVE  TodoInv'
  <2>1. pending /\ UNCHANGED store
    BY <1>4 DEF BeginTodo
  <2>2. proc'[p].pc = "todoTrunc"
    BY <1>4 DEF BeginTodo, Begin, Idle, Shape
  <2>3. SettingsStep(p)
    BY <1>4 DEF SettingsStep
  <2>4. QED
    BY <1>1, <2>1, <2>2, <2>3 DEF TodoInv, Others, store
<1>5. ASSUME NEW p \in Procs, TodoStep(p)
      PROVE  TodoInv'
  <2>1. SettingsStep(p)
    BY <1>5 DEF SettingsStep
  <2>2. proc[p].pc \in Todoing /\ "todo" \notin excused
    BY <1>1, <1>5, <2>1 DEF TodoStep, Todoing
  <2>3. \A q \in Others(p) : proc'[q].pc \notin Todoing
    BY <1>1, <1>2, <2>1, <2>2
  <2>4. CASE proc[p].pc = "todoTrunc"
    <3>1. done' = "torn" /\ pending' = pending /\ pending /\ proc'[p].pc = "todoFill"
      BY <1>5, <2>2, <2>4 DEF TodoStep, TodoInv, Go, Shape, Sound, Fields
    <3>2. QED
      BY <2>3, <3>1 DEF TodoInv, Others, Todoing
  <2>5. CASE proc[p].pc = "todoFill"
    <3>1. done' = "whole" /\ proc'[p].pc = "unlink"
      BY <1>5, <2>5 DEF TodoStep, Go, Shape, Sound, Fields
    <3>2. QED
      BY <2>3, <3>1 DEF TodoInv, Others, Todoing
  <2>6. CASE proc[p].pc = "unlink"
    <3>1. done' = "whole" /\ proc'[p].pc = "idle"
      BY <1>5, <2>2, <2>6 DEF TodoStep, TodoInv, Go, Shape, Idle
    <3>2. QED
      BY <2>3, <3>1 DEF TodoInv, Others, Todoing
  <2>7. QED
    BY <2>2, <2>4, <2>5, <2>6 DEF Todoing
<1>6. ASSUME NEW p \in Procs, SettingsStep(p), ~BeginTodo(p), ~TodoStep(p)
      PROVE  TodoInv'
    BY <1>1, <1>6, SettingsPc DEF TodoInv, Others, Writing
<1>7. ASSUME NEW p \in Procs, Crash(p)
      PROVE  TodoInv'
  <2>1. proc'[p].pc = "idle" /\ UNCHANGED store
    BY <1>7 DEF Crash, Go, Shape, Idle
  <2>2. QED
    BY <1>1, <1>7, <2>1 DEF TodoInv, Others, store
<1>8. CASE UNCHANGED <<proc, excused, pending, done>>
    BY <1>8 DEF TodoInv
<1>9. QED
    BY <1>3, <1>4, <1>5, <1>6, <1>7, <1>8 DEF Next, RepoAppears, vars, store

-----------------------------------------------------------------------------
(* The settings.                                                             *)

Quiet == "config" \notin excused /\ "torn" \notin excused
\* c holds what was reported, but for what the command id has just set.
Faithful(c, id) == \A k \in Keys : acked[k] # Absent => c.val[k] \in {acked[k], id}
NoneAcked == \A k \in Keys : acked[k] = Absent
Resetting(r) == r.pc \in {"repair", "regenerate"} /\ "writeConfig" \in r.left

ConfigInv == Quiet =>
    /\ \A p \in Procs : proc[p].pc \in Writing => Faithful(proc[p].buf, proc[p].id)
    /\ \A p \in Procs : proc[p].pc = "fill" => config = Torn
    /\ \A p \in Procs : Resetting(proc[p]) => NoneAcked
    /\ \/ \E p \in Procs : proc[p].pc = "fill"
       \/ \A k \in Keys : acked[k] # Absent => IsJson /\ config.val[k] = acked[k]

LEMMA ConfigInit == Init => ConfigInv
BY DEF Init, WorkstreamInit, SettingsInit, ConfigInv, Idle, Writing, Resetting, Faithful, NoneAcked

\* Who works on config.json without a contest is alone in that.
LEMMA Alone ==
    ASSUME Shape, Exclusive, "config" \notin excused, NEW p \in Procs, "config" \in proc[p].on
    PROVE  \A q \in Others(p) : proc[q].pc \notin Writing /\ ~Resetting(proc[q])
BY DEF Shape, Sound, Exclusive, Others, Writing, Resetting

\* Nothing more is to stay than before.
Fewer == \A k \in Keys : acked'[k] \in {acked[k], Absent}

LEMMA ForgetFewer ==
    ASSUME Shape, NEW c, Forget(c)
    PROVE  Fewer
BY DEF Shape, Forget, Fewer

\* Steps beside the settings.
Aside(p) == /\ UNCHANGED config /\ Fewer
            /\ proc'[p].pc \notin Writing
            /\ proc[p].pc # "fill"
            /\ Resetting(proc'[p]) => Resetting(proc[p])

LEMMA AsideStep ==
    ASSUME Shape, ConfigInv, NEW p \in Procs, Honest(p), Aside(p),
           \A q \in Others(p) : proc'[q] = proc[q]
    PROVE  ConfigInv'
<1>1. \A k \in Keys : acked'[k] # Absent => acked[k] # Absent /\ acked'[k] = acked[k]
    BY DEF Aside, Fewer
<1>2. QED
    BY <1>1 DEF ConfigInv, Aside, Honest, Quiet, Others, Faithful, NoneAcked, Writing, IsJson

\* Who works on config.json without a contest, and has not begun to write it, finds in it
\* what was reported.
LEMMA Current ==
    ASSUME Shape, Shape', Exclusive', ConfigInv, Quiet', NEW p \in Procs, Honest(p),
           \A q \in Others(p) : proc'[q] = proc[q],
           proc[p].pc # "fill", "config" \in proc'[p].on
    PROVE  /\ Quiet
           /\ \A q \in Others(p) : proc'[q].pc \notin Writing /\ ~Resetting(proc'[q])
           /\ \A k \in Keys : acked[k] # Absent => IsJson /\ config.val[k] = acked[k]
<1>1. Quiet
    BY DEF Quiet, Honest
<1>2. \A q \in Others(p) : proc'[q].pc \notin Writing /\ ~Resetting(proc'[q])
    BY DEF Shape, Sound, Exclusive, Others, Writing, Resetting, Quiet
<1>3. \A q \in Procs : proc[q].pc # "fill"
    BY <1>2 DEF Others, Writing
<1>4. QED
    BY <1>1, <1>2, <1>3 DEF ConfigInv

\* A process that is about to write config.json.
LEMMA RewriteStep ==
    ASSUME Shape, Shape', Exclusive', ConfigInv, NEW p \in Procs, Honest(p),
           UNCHANGED config, Fewer, \A q \in Others(p) : proc'[q] = proc[q],
           proc'[p].pc = "trunc", proc[p].pc # "fill",
           Quiet' => Faithful(proc[p].buf, proc[p].id)'
    PROVE  ConfigInv'
<1> SUFFICES ASSUME Quiet' PROVE ConfigInv'
    BY DEF ConfigInv
<1>1. "config" \in proc'[p].on
    BY DEF Shape, Sound, Writing
<1>2. \A q \in Others(p) : proc'[q].pc \notin Writing /\ ~Resetting(proc'[q])
    BY <1>1, Current
<1>3. (\A k \in Keys : acked[k] # Absent => IsJson /\ config.val[k] = acked[k])'
    BY <1>1, Current DEF IsJson, Fewer
<1>4. \A q \in Procs : q = p \/ q \in Others(p)
    BY DEF Others
<1>5. ~Resetting(proc'[p])
    BY DEF Resetting
<1>6. \A q \in Procs : proc'[q].pc \in Writing => Faithful(proc[p].buf, proc[p].id)' /\ q = p
    BY <1>2, <1>4
<1>7. QED
    BY <1>2, <1>3, <1>4, <1>5, <1>6 DEF ConfigInv, Faithful, NoneAcked, Writing

LEMMA ToWriteStep ==
    ASSUME Shape, Shape', Exclusive', ConfigInv, NEW p \in Procs, Honest(p),
           UNCHANGED <<config, acked>>, \A q \in Others(p) : proc'[q] = proc[q],
           proc'[p].pc = "trunc", proc[p].pc # "fill",
           Quiet' => Faithful(proc'[p].buf, proc'[p].id)
    PROVE  ConfigInv'
<1>1. Fewer
    BY DEF Fewer
<1>2. Quiet' => Faithful(proc[p].buf, proc[p].id)'
    BY DEF Faithful
<1>3. QED
    BY <1>1, <1>2, RewriteStep

\* What a load writes holds what is to stay once planning.commit_docs has been given up.
LEMMA UpToDateKeeps ==
    ASSUME NEW c, JsonShape(c), Shape, Forget(c), NEW id, Faithful(c, id)
    PROVE  \A k \in Keys : acked'[k] # Absent => UpToDate(c).val[k] \in {acked'[k], id}
<1>1. CASE Migrates(c)
  <2>1. \A k \in Keys : k # CommitDocs => UpToDate(c).val[k] = c.val[k] /\ acked'[k] = acked[k]
    BY <1>1 DEF UpToDate, Forget, JsonShape, JsonFields, Shape
  <2>2. acked'[CommitDocs] = Absent
    BY <1>1, SettingsAssumption DEF Forget, Shape
  <2>3. QED
    BY <2>1, <2>2 DEF Faithful
<1>2. CASE ~Migrates(c)
  <2>1. UpToDate(c).val = c.val /\ acked' = acked
    BY <1>2 DEF UpToDate, Forget, JsonShape, JsonFields
  <2>2. QED
    BY <2>1 DEF Faithful
<1>3. QED
    BY <1>1, <1>2

LEMMA SettingsConfig ==
    ASSUME Shape, Shape', Exclusive, Exclusive', ConfigInv, NEW p \in Procs, SettingsStep(p)
    PROVE  ConfigInv'
<1> USE DEF Fields
<1> DEFINE r == proc[p]
<1>0. /\ DOMAIN proc = Procs /\ DOMAIN r = Fields /\ Sound(r)
      /\ DOMAIN Idle = Fields /\ Idle.pc = "idle"
    BY DEF Shape, Sound, Idle
<1>h. Honest(p) /\ \A q \in Others(p) : proc'[q] = proc[q]
    BY StepHonest
<1>t. ASSUME NEW job, NEW c, NEW after, DOMAIN job = Fields
      PROVE  LET w == ToWrite(job, c, after)
             IN  /\ DOMAIN w = Fields /\ w.pc = "trunc" /\ w.buf = c /\ w.id = job.id
                 /\ "config" \in w.on
    BY <1>t DEF ToWrite
<1>b. ASSUME NEW job, DOMAIN job = Fields, Begin(p, job)
      PROVE  /\ proc'[p] = [job EXCEPT !.id = ops']
             /\ proc'[p].pc = job.pc /\ proc'[p].buf = job.buf /\ proc'[p].on = job.on
             /\ proc'[p].left = job.left /\ r.pc = "idle"
    BY <1>0, <1>b DEF Begin
<1>c. ASSUME NEW s, Continue(p, s)
      PROVE  proc'[p] = s
    BY <1>0, <1>c DEF Continue, Go
<1>w. ASSUME NEW job, NEW c, NEW after, DOMAIN job = Fields, Begin(p, ToWrite(job, c, after))
      PROVE  /\ proc'[p].pc = "trunc" /\ proc'[p].buf = c /\ "config" \in proc'[p].on
             /\ r.pc # "fill"
  <2> DEFINE w == ToWrite(job, c, after)
  <2>1. DOMAIN w = Fields /\ w.pc = "trunc" /\ w.buf = c /\ "config" \in w.on
    BY <1>t, <1>w
  <2> HIDE DEF w
  <2>2. Begin(p, w)
    BY <1>w DEF w
  <2>3. QED
    BY <1>b, <2>1, <2>2
<1>1. CASE Truncate(p)
  <2>1. /\ r.pc = "trunc" /\ config' = Torn /\ acked' = acked /\ excused' = excused
        /\ proc'[p] = [r EXCEPT !.pc = "fill"]
    BY <1>0, <1>1 DEF Truncate, Go
  <2>2. /\ proc'[p].pc = "fill" /\ proc'[p].buf = r.buf /\ proc'[p].id = r.id
        /\ "config" \in proc'[p].on
    BY <1>0, <2>1 DEF Sound, Writing
  <2> SUFFICES ASSUME Quiet' PROVE ConfigInv'
    BY DEF ConfigInv
  <2>3. /\ Quiet
        /\ \A q \in Others(p) : proc'[q].pc \notin Writing /\ ~Resetting(proc'[q])
    BY <1>h, <2>1, <2>2, Current
  <2>4. Faithful(r.buf, r.id)
    BY <2>1, <2>3 DEF ConfigInv, Writing
  <2>5. \A q \in Procs : q = p \/ q \in Others(p)
    BY DEF Others
  <2>6. \A q \in Procs : ~Resetting(proc'[q])
    BY <2>2, <2>3, <2>5 DEF Resetting
  <2>7. \A q \in Procs : proc'[q].pc \in Writing =>
            Faithful(r.buf, r.id) /\ proc'[q].buf = r.buf /\ proc'[q].id = r.id
    BY <2>2, <2>3, <2>4, <2>5
  <2>8. QED
    BY <2>1, <2>2, <2>6, <2>7 DEF ConfigInv, Faithful
<1>2. CASE Fill(p)
  <2>1. /\ r.pc = "fill" /\ excused' = excused
        /\ config' \in (IF IsJson THEN {r.buf, Torn} ELSE {r.buf})
        /\ acked' = [k \in Keys |-> IF r.buf.val[k] = r.id THEN r.id ELSE acked[k]]
        /\ proc'[p] = IF r.after = "idle" THEN Idle ELSE Written(r)
    BY <1>0, <1>2 DEF Fill, Go
  <2>2. "config" \in r.on /\ JsonShape(r.buf)
    BY <1>0, <2>1 DEF Sound, Writing
  <2> SUFFICES ASSUME Quiet' PROVE ConfigInv'
    BY DEF ConfigInv
  <2>3. /\ Quiet
        /\ \A q \in Others(p) : proc'[q].pc \notin Writing /\ ~Resetting(proc'[q])
    <3>1. Quiet
      BY <2>1 DEF Quiet
    <3>2. QED
      BY <1>h, <2>2, <3>1, Alone DEF Quiet
  <2>4. Faithful(r.buf, r.id) /\ config = Torn
    BY <2>1, <2>3 DEF ConfigInv, Writing
  <2>5. config' = r.buf /\ IsJson'
    BY <2>1, <2>2, <2>4 DEF IsJson, Torn, JsonShape
  <2>6. \A k \in Keys : acked'[k] # Absent => config'.val[k] = acked'[k]
    BY <2>1, <2>4, <2>5 DEF Faithful
  <2>7. \A q \in Procs : q = p \/ q \in Others(p)
    BY DEF Others
  <2>8. /\ proc'[p].pc # "fill" /\ ~Resetting(proc'[p])
        /\ proc'[p].pc \in Writing => proc'[p].buf = r.buf
    BY <1>0, <2>1 DEF Written, Resetting, Sound, Writing
  <2>9. QED
    BY <2>3, <2>5, <2>6, <2>7, <2>8 DEF ConfigInv, Faithful, Writing
<1>3. CASE NewProject(p)
  <2>1. PICK c : /\ config = Missing /\ Begin(p, ToWrite(Idle, c, "idle"))
                 /\ UNCHANGED store
    BY <1>3 DEF NewProject, EnsureConfig
  <2>2. /\ proc'[p].pc = "trunc" /\ "config" \in proc'[p].on /\ r.pc # "fill"
    BY <1>0, <1>w, <2>1
  <2>3. Quiet' => NoneAcked
    BY <1>h, <2>1, <2>2, Current DEF NoneAcked, IsJson, Missing, NoBuffer
  <2>4. QED
    BY <1>h, <2>1, <2>2, <2>3, ToWriteStep DEF Faithful, NoneAcked, store
<1>4. ASSUME NEW k \in Keys, NEW ensure \in BOOLEAN, BeginSet(p, k, ensure)
      PROVE  ConfigInv'
  <2> DEFINE job == [Idle EXCEPT !.name = k, !.pc = "read"]
  <2>1. UNCHANGED store /\ DOMAIN job = Fields /\ job.pc = "read"
    BY <1>0, <1>4 DEF BeginSet
  <2>2. CASE config = Missing /\ Begin(p, ToWrite(job, Defaults, "read"))
    <3> HIDE DEF job
    <3>1. /\ proc'[p].pc = "trunc" /\ "config" \in proc'[p].on /\ r.pc # "fill"
      BY <1>w, <2>1, <2>2
    <3>2. Quiet' => NoneAcked
      BY <1>h, <2>1, <2>2, <3>1, Current DEF NoneAcked, IsJson, Missing, NoBuffer, store
    <3>3. QED
      BY <1>h, <2>1, <3>1, <3>2, ToWriteStep DEF Faithful, NoneAcked, store
  <2>3. CASE Begin(p, job)
    <3> HIDE DEF job
    <3>1. proc'[p].pc = "read" /\ r.pc # "fill"
      BY <1>b, <2>1, <2>3
    <3>2. QED
      BY <1>h, <2>1, <3>1, AsideStep DEF Aside, Fewer, Writing, Resetting, store
  <2>4. QED
    BY <1>4, <2>2, <2>3 DEF BeginSet
<1>5. CASE SetValue(p)
  <2> DEFINE c == IF config = Missing THEN Empty ELSE config
             w == WithKey(c, r.name, r.id)
  <2>1. r.pc = "read" /\ UNCHANGED store
    BY <1>5 DEF SetValue
  <2>2. CASE Continue(p, Idle)
    BY <1>0, <1>h, <1>c, <2>1, <2>2, AsideStep DEF Aside, Fewer, Writing, Resetting, store
  <2>3. CASE config # Torn /\ Continue(p, ToWrite(r, w, "idle"))
    <3>1. JsonShape(c)
      BY <2>3, DefaultsShape DEF Shape
    <3>2. \A k \in Keys : w.val[k] \in {c.val[k], r.id}
      BY <3>1 DEF WithKey, JsonShape, JsonFields
    <3> HIDE DEF w
    <3>3. /\ proc'[p].pc = "trunc" /\ "config" \in proc'[p].on
          /\ proc'[p].buf = w /\ proc'[p].id = r.id
      BY <1>0, <1>t, <1>c, <2>3
    <3>4. Quiet' => \A k \in Keys : acked[k] # Absent => IsJson /\ config.val[k] = acked[k]
      BY <1>h, <2>1, <3>3, Current
    <3>5. Quiet' => Faithful(w, r.id)
      BY <3>2, <3>4 DEF Faithful, IsJson, Missing, NoBuffer
    <3>6. QED
      BY <1>h, <2>1, <3>3, <3>5, ToWriteStep DEF Faithful, store
  <2>4. QED
    BY <1>5, <2>2, <2>3 DEF SetValue
<1>6. CASE LoadConfig(p)
  <2>1. JsonShape(config) /\ IsJson /\ UNCHANGED config
    BY <1>6 DEF LoadConfig, IsJson, Shape, Missing, NoBuffer, Torn
  <2>2. CASE config.depth
    <3> DEFINE c == [config EXCEPT !.depth = FALSE]
    <3>1. Begin(p, ToWrite(Idle, c, "sync")) /\ UNCHANGED acked
      BY <1>6, <2>2 DEF LoadConfig
    <3>2. c.val = config.val
      BY <2>1 DEF JsonShape, JsonFields
    <3> HIDE DEF c
    <3>3. /\ proc'[p].pc = "trunc" /\ "config" \in proc'[p].on /\ proc'[p].buf = c
          /\ r.pc # "fill"
      BY <1>0, <1>w, <3>1
    <3>4. Quiet' => Faithful(c, proc'[p].id)
      BY <1>h, <3>2, <3>3, Current DEF Faithful
    <3>5. QED
      BY <1>h, <2>1, <3>1, <3>3, <3>4, ToWriteStep DEF Faithful
  <2>3. CASE ~config.depth
    <3> DEFINE c == UpToDate(config)
    <3>1. Begin(p, ToWrite(Idle, c, "idle")) /\ Forget(config)
      BY <1>6, <2>3 DEF LoadConfig
    <3> HIDE DEF c
    <3>2. /\ proc'[p].pc = "trunc" /\ "config" \in proc'[p].on /\ proc'[p].buf = c
          /\ r.pc # "fill"
      BY <1>0, <1>w, <3>1
    <3>3. Quiet' => Faithful(config, proc'[p].id)
      BY <1>h, <3>2, Current DEF Faithful
    <3>4. Quiet' => \A k \in Keys : acked'[k] # Absent => c.val[k] \in {acked'[k], proc'[p].id}
      BY <2>1, <3>1, <3>3, UpToDateKeeps DEF c
    <3>5. Quiet' => Faithful(proc[p].buf, proc[p].id)'
      BY <3>2, <3>4 DEF Faithful
    <3>6. QED
      BY <1>h, <2>1, <3>1, <3>2, <3>5, ForgetFewer, RewriteStep
  <2>4. QED
    BY <2>2, <2>3
<1>7. CASE SyncRepos(p)
  <2> DEFINE c == UpToDate(r.buf)
  <2>1. r.pc = "sync" /\ UNCHANGED <<config, excused>> /\ Forget(r.buf) /\ Fewer
    BY <1>7, ForgetFewer DEF SyncRepos
  <2>2. CASE Go(p, Idle)
    BY <1>0, <1>h, <2>1, <2>2, AsideStep DEF Go, Aside, Writing, Resetting
  <2>3. CASE Go(p, ToWrite(r, c, "idle"))
    <3>1. JsonShape(r.buf)
      BY <1>0, <2>1 DEF Sound, Writing
    <3> HIDE DEF c
    <3>2. /\ proc'[p].pc = "trunc" /\ proc'[p].buf = c /\ proc'[p].id = r.id
      BY <1>0, <1>t, <2>3 DEF Go
    <3>3. Quiet' => Faithful(r.buf, r.id)
      BY <2>1 DEF ConfigInv, Quiet, Writing
    <3>4. Quiet' => \A k \in Keys : acked'[k] # Absent => c.val[k] \in {acked'[k], r.id}
      BY <2>1, <3>1, <3>3, UpToDateKeeps DEF c
    <3>5. Quiet' => Faithful(proc[p].buf, proc[p].id)'
      BY <3>2, <3>4 DEF Faithful
    <3>6. QED
      BY <1>h, <2>1, <3>2, <3>5, RewriteStep
  <2>4. QED
    BY <1>7, <2>2, <2>3 DEF SyncRepos
<1>8. ASSUME NEW n \in Names \cup {None}, BeginHealth(p, n)
      PROVE  ConfigInv'
  <2> DEFINE left == Repairable(n)
             on == {n} \cup IF left \subseteq {"regenerateState"} THEN {} ELSE {"config"}
             job == [Idle EXCEPT !.pc = "repair", !.name = n, !.left = left, !.seen = left,
                                 !.on = on]
  <2>1. Begin(p, job) /\ UNCHANGED store
    BY <1>8 DEF BeginHealth
  <2>2. /\ DOMAIN job = Fields /\ job.pc = "repair" /\ job.left = left /\ job.on = on
    BY <1>0
  <2>3. "writeConfig" \in left => ~IsJson /\ "config" \in on
    BY DEF Repairable
  <2> HIDE DEF job, left, on
  <2>4. /\ proc'[p].pc = "repair" /\ proc'[p].left = left /\ proc'[p].on = on /\ r.pc # "fill"
    BY <1>b, <2>1, <2>2
  <2>5. CASE "writeConfig" \notin left
    BY <1>h, <2>1, <2>4, <2>5, AsideStep DEF Aside, Fewer, Writing, Resetting, store
  <2>6. CASE "writeConfig" \in left
    <3> SUFFICES ASSUME Quiet' PROVE ConfigInv'
      BY DEF ConfigInv
    <3>1. /\ \A q \in Others(p) : proc'[q].pc \notin Writing /\ ~Resetting(proc'[q])
          /\ NoneAcked
      BY <1>h, <2>3, <2>4, <2>6, Current DEF NoneAcked
    <3>2. \A q \in Procs : q = p \/ q \in Others(p)
      BY DEF Others
    <3>3. \A q \in Procs : proc'[q].pc \notin Writing
      BY <2>4, <3>1, <3>2 DEF Writing
    <3>4. QED
      BY <2>1, <3>1, <3>3 DEF ConfigInv, NoneAcked, Writing, store
  <2>7. QED
    BY <2>5, <2>6
<1>9. CASE BackupState(p)
  <2>1. /\ r.pc = "repair" /\ proc'[p].pc = "regenerate" /\ proc'[p].left \subseteq r.left
        /\ UNCHANGED store
    BY <1>0, <1>9 DEF BackupState, Repaired, Go
  <2>2. QED
    BY <1>h, <2>1, AsideStep DEF Aside, Fewer, Writing, Resetting, store
<1>10. CASE RegenerateState(p)
  <2>1. /\ r.pc = "regenerate" /\ proc'[p].pc = "repair" /\ proc'[p].left = r.left
        /\ UNCHANGED store
    BY <1>0, <1>10 DEF RegenerateState, Go
  <2>2. QED
    BY <1>h, <2>1, AsideStep DEF Aside, Fewer, Writing, Resetting, store
<1>11. CASE ResetConfig(p)
  <2> DEFINE j == Repaired(r, "writeConfig")
  <2>1. /\ r.pc = "repair" /\ "writeConfig" \in r.left /\ UNCHANGED store
        /\ Continue(p, ToWrite(j, Defaults, "repair"))
    BY <1>11 DEF ResetConfig
  <2>2. DOMAIN j = Fields
    BY <1>0 DEF Repaired
  <2> HIDE DEF j
  <2>3. proc'[p].pc = "trunc" /\ r.pc # "fill"
    BY <1>t, <1>c, <2>1, <2>2
  <2>4. Quiet' => NoneAcked
    BY <1>h, <2>1 DEF Quiet, Honest, ConfigInv, Resetting
  <2>5. QED
    BY <1>h, <2>1, <2>3, <2>4, ToWriteStep DEF Faithful, NoneAcked, store
<1>12. CASE AddNyquistKey(p)
  <2> DEFINE j == Repaired(r, "addNyquistKey")
             c == [config EXCEPT !.workflow = TRUE, !.nyquist = TRUE]
  <2>1. r.pc = "repair" /\ r.left = {"addNyquistKey"} /\ UNCHANGED store
    BY <1>12 DEF AddNyquistKey
  <2>2. DOMAIN j = Fields /\ j.pc = "repair" /\ j.left = {}
    BY <1>0, <2>1 DEF Repaired
  <2> HIDE DEF j
  <2>3. CASE Continue(p, j)
    BY <1>h, <1>c, <2>1, <2>2, <2>3, AsideStep DEF Aside, Fewer, Writing, Resetting, store
  <2>4. CASE IsJson /\ Continue(p, ToWrite(j, c, "repair"))
    <3>1. c.val = config.val
      BY <2>4 DEF IsJson, Shape, Missing, NoBuffer, Torn, JsonShape, JsonFields
    <3> HIDE DEF c
    <3>2. /\ proc'[p].pc = "trunc" /\ proc'[p].buf = c /\ "config" \in proc'[p].on /\ r.pc # "fill"
      BY <1>t, <1>c, <2>1, <2>2, <2>4
    <3>3. Quiet' => Faithful(c, proc'[p].id)
      BY <1>h, <3>1, <3>2, Current DEF Faithful
    <3>4. QED
      BY <1>h, <2>1, <3>2, <3>3, ToWriteStep DEF Faithful, store
  <2>5. QED
    BY <1>12, <2>3, <2>4 DEF AddNyquistKey, j
<1>13. CASE EndHealth(p)
  <2>1. r.pc = "repair" /\ proc'[p].pc = "idle" /\ UNCHANGED store
    BY <1>0, <1>13 DEF EndHealth, Go
  <2>2. QED
    BY <1>h, <2>1, AsideStep DEF Aside, Fewer, Writing, Resetting, store
<1>14. CASE BeginTodo(p)
  <2>1. UNCHANGED store /\ \E job : DOMAIN job = Fields /\ job.pc = "todoTrunc" /\ Begin(p, job)
    BY <1>0, <1>14 DEF BeginTodo
  <2>2. proc'[p].pc = "todoTrunc" /\ r.pc # "fill"
    BY <1>b, <2>1
  <2>3. QED
    BY <1>h, <2>1, <2>2, AsideStep DEF Aside, Fewer, Writing, Resetting, store
<1>15. CASE TodoStep(p)
  <2>1. /\ r.pc \in Todoing /\ proc'[p].pc \in Todoing \cup {"idle"}
        /\ UNCHANGED <<config, acked>>
    BY <1>0, <1>15 DEF TodoStep, Go, Todoing
  <2>2. QED
    BY <1>h, <2>1, AsideStep DEF Aside, Fewer, Writing, Resetting, Todoing
<1>16. QED
    BY <1>1, <1>2, <1>3, <1>4, <1>5, <1>6, <1>7, <1>8, <1>9, <1>10, <1>11, <1>12, <1>13,
       <1>14, <1>15 DEF SettingsStep

LEMMA ConfigInvStep ==
    Shape /\ Shape' /\ Exclusive /\ Exclusive' /\ ConfigInv /\ [Next]_vars => ConfigInv'
<1> SUFFICES ASSUME Shape, Shape', Exclusive, Exclusive', ConfigInv, [Next]_vars
             PROVE  ConfigInv'
    OBVIOUS
<1>1. ASSUME NEW p \in Procs, WorkstreamStep(p), UNCHANGED store
      PROVE  ConfigInv'
  <2>1. Aside(p)
    BY <1>1, WorkstreamPc
       DEF Aside, Fewer, Managing, Creating, Completing, Writing, Resetting, store
  <2>2. QED
    BY <1>1, <2>1, StepHonest, AsideStep
<1>2. ASSUME NEW p \in Procs, SettingsStep(p)
      PROVE  ConfigInv'
    BY <1>2, SettingsConfig
<1>3. ASSUME NEW p \in Procs, Crash(p)
      PROVE  ConfigInv'
  <2>1. UNCHANGED store /\ proc'[p].pc = "idle"
    BY <1>3 DEF Crash, Go, Shape, Idle
  <2>2. CASE proc[p].pc = "fill"
    BY <1>3, <2>2 DEF Crash, ConfigInv, Quiet
  <2>3. CASE proc[p].pc # "fill"
    BY <1>3, <2>1, <2>3, StepHonest, AsideStep DEF Aside, Fewer, Writing, Resetting, store
  <2>4. QED
    BY <2>2, <2>3
<1>4. CASE UNCHANGED <<proc, excused, config, acked>>
    BY <1>4 DEF ConfigInv, Quiet, Faithful, NoneAcked, IsJson
<1>5. QED
    BY <1>1, <1>2, <1>3, <1>4 DEF Next, RepoAppears, vars, store

-----------------------------------------------------------------------------
(* The directories.                                                          *)

Shelving(r) == r.pc \in {"out", "back"}
ShelfOf(r) == <<r.name, r.shelf>>

\* What does not exist is empty, and each archive that is being filled exists and is the
\* archive of one process.
TreeShape ==
    /\ DOMAIN ws = Names /\ DOMAIN archive = Shelves
    /\ live # {} => wsRoot
    /\ \A n \in Names : n \notin live => ws[n] = {}
    /\ \A s \in Shelves : s \notin shelves => archive[s] = {}
    /\ \A p \in Procs : Shelving(proc[p]) =>
           ShelfOf(proc[p]) \in shelves /\ ShelfOf(proc[p]) \in Shelves
    /\ \A p, q \in Procs : p # q /\ Shelving(proc[p]) /\ Shelving(proc[q]) =>
           ShelfOf(proc[p]) # ShelfOf(proc[q])

LEMMA TreeInit == Init => TreeShape
BY DEF Init, WorkstreamInit, TreeShape, Shelving, Idle

\* The archives that are being filled are those of before, without those of p at most.
SameShelves(p) == /\ \A s \in Shelves : archive'[s] = archive[s]
                  /\ shelves' = shelves
                  /\ Shelving(proc'[p]) => Shelving(proc[p]) /\ ShelfOf(proc'[p]) = ShelfOf(proc[p])

LEMMA SameShelvesShape ==
    ASSUME TreeShape, NEW p \in Procs, SameShelves(p), \A q \in Others(p) : proc'[q] = proc[q],
           DOMAIN ws' = Names, DOMAIN archive' = Shelves, live' # {} => wsRoot',
           \A n \in Names : n \notin live' => ws'[n] = {}
    PROVE  TreeShape'
BY DEF TreeShape, SameShelves, Others

LEMMA SameTreeShape ==
    ASSUME TreeShape, NEW p \in Procs, \A q \in Others(p) : proc'[q] = proc[q],
           UNCHANGED <<ws, live, archive, shelves>>, live # {} => wsRoot',
           Shelving(proc'[p]) => Shelving(proc[p]) /\ ShelfOf(proc'[p]) = ShelfOf(proc[p])
    PROVE  TreeShape'
BY DEF TreeShape, Others

LEMMA WorkstreamTree ==
    ASSUME Shape, TreeShape, NEW p \in Procs, WorkstreamStep(p)
    PROVE  TreeShape'
<1> DEFINE r == proc[p]
<1> USE DEF Fields
<1>0. /\ DOMAIN proc = Procs /\ DOMAIN r = Fields /\ Sound(r)
      /\ DOMAIN Idle = Fields /\ Idle.pc = "idle"
      /\ DOMAIN ws = Names /\ DOMAIN archive = Shelves
    BY DEF Shape, Sound, Idle, TreeShape
<1>h. \A q \in Others(p) : proc'[q] = proc[q]
    BY StepHonest
<1>b. ASSUME NEW job, DOMAIN job = Fields, Begin(p, job)
      PROVE  proc'[p].pc = job.pc
    BY <1>0, <1>b DEF Begin
<1>1. ASSUME NEW n \in Names, NEW to \in Names \cup {None}, BeginCreate(p, n, to)
      PROVE  TreeShape'
  <2>1. \E job : DOMAIN job = Fields /\ job.pc \in {"guard", "dirs"} /\ Begin(p, job)
    BY <1>0, <1>1 DEF BeginCreate
  <2>2. QED
    BY <1>b, <1>h, <1>1, <2>1, SameTreeShape DEF BeginCreate, Shelving, TreeShape
<1>2. CASE Guard(p)
    BY <1>0, <1>h, <1>2, SameTreeShape DEF Guard, Go, Shelving, TreeShape, tree
<1>3. CASE MkdirTarget(p)
  <2>1. proc'[p].pc = "move" /\ wsRoot' /\ live \subseteq live' /\ UNCHANGED <<ws, archive, shelves>>
    BY <1>0, <1>3 DEF MkdirTarget, Go
  <2>2. QED
    BY <1>0, <1>h, <2>1, SameShelvesShape DEF Shelving, SameShelves, TreeShape
<1>4. CASE Move(p)
  <2> DEFINE es == Of(root, First(r.left))
  <2>1. /\ r.pc = "move" /\ proc'[p].pc \in {"move", "dirs"} /\ r.to \in Names
        /\ es # {} => r.to \in live
        /\ ws' = [ws EXCEPT ![r.to] = Put(@, es)]
        /\ UNCHANGED <<live, wsRoot, archive, shelves>>
    BY <1>0, <1>4 DEF Move, Go, Has, Sound, Migrating
  <2> HIDE DEF es
  <2>2. es = {} => Put(ws[r.to], es) = ws[r.to]
    BY DEF Put
  <2>3. QED
    BY <1>0, <1>h, <2>1, <2>2, SameShelvesShape DEF Shelving, SameShelves, TreeShape
<1>5. CASE MoveFails(p)
    BY <1>0, <1>h, <1>5, SameTreeShape DEF MoveFails, Go, Shelving, TreeShape, tree
<1>6. CASE Undo(p)
  <2>1. /\ r.pc = "undo" /\ proc'[p].pc = "undo" /\ r.to \in Names
        /\ ws' = [ws EXCEPT ![r.to] = @ \ Of(@, First(r.moved))]
        /\ UNCHANGED <<live, wsRoot, archive, shelves>>
    BY <1>0, <1>6 DEF Undo, Go, Sound, Migrating
  <2>2. QED
    BY <1>0, <1>h, <2>1, SameShelvesShape DEF Shelving, SameShelves, TreeShape
<1>7. CASE PassOver(p)
  <2>1. /\ r.pc \in {"undo", "back"} /\ proc'[p].pc = r.pc
        /\ proc'[p].name = r.name /\ proc'[p].shelf = r.shelf
        /\ UNCHANGED tree
    BY <1>0, <1>7 DEF PassOver, Go
  <2>2. QED
    BY <1>h, <2>1, SameTreeShape DEF Shelving, ShelfOf, TreeShape, tree
<1>8. CASE Clean(p)
  <2>1. /\ proc'[p].pc = "clean" /\ r.to \in Names
        /\ live' = live \ {r.to} /\ ws' = [ws EXCEPT ![r.to] = {}]
        /\ UNCHANGED <<wsRoot, archive, shelves>>
    BY <1>0, <1>8 DEF Clean, Go, Sound, Migrating
  <2>2. live' # {} => wsRoot'
    BY <2>1 DEF TreeShape
  <2>3. QED
    BY <1>0, <1>h, <2>1, <2>2, SameShelvesShape DEF Shelving, SameShelves, TreeShape
<1>r. CASE RemovalFails(p)
  <2>1. /\ proc'[p].pc \in {"clean", "rmroot", "idle"}
        /\ UNCHANGED <<ws, live, wsRoot, archive, shelves>>
    BY <1>0, <1>r, RemovalIs DEF Go
  <2>2. QED
    BY <1>h, <2>1, SameTreeShape DEF Shelving, TreeShape
<1>9. CASE MakeDirs(p)
  <2>1. /\ proc'[p].pc = "state" /\ r.name \in Names
        /\ live' = live \cup {r.name} /\ wsRoot' = TRUE /\ UNCHANGED <<archive, shelves>>
        /\ \/ ws' = ws
           \/ ws' = [ws EXCEPT ![r.name] = @ \cup {[item |-> "phases", by |-> r.id]}]
    BY <1>0, <1>9 DEF MakeDirs, Go, Sound, Creating
  <2>2. QED
    BY <1>0, <1>h, <2>1, SameShelvesShape DEF Shelving, SameShelves, TreeShape
<1>10. CASE WriteState(p)
  <2>1. /\ proc'[p].pc \in {"activate", "idle"} /\ r.name \in Names
        /\ UNCHANGED <<live, wsRoot, archive, shelves>>
        /\ \/ ws' = ws
           \/ /\ ws' = [ws EXCEPT ![r.name] = @ \cup {[item |-> "STATE", by |-> r.id]}]
              /\ r.name \in live
    BY <1>0, <1>10 DEF WriteState, Go, Sound, Creating
  <2>2. QED
    BY <1>0, <1>h, <2>1, SameShelvesShape DEF Shelving, SameShelves, TreeShape
<1>11. CASE Activate(p)
    BY <1>0, <1>h, <1>11, SameTreeShape DEF Activate, Go, Shelving, TreeShape
<1>12. ASSUME NEW n \in Names, BeginComplete(p, n)
       PROVE  TreeShape'
  <2>1. \E job : DOMAIN job = Fields /\ job.pc = "shelve" /\ Begin(p, job)
    BY <1>0, <1>12 DEF BeginComplete
  <2>2. QED
    BY <1>b, <1>h, <1>12, <2>1, SameTreeShape DEF BeginComplete, Shelving, TreeShape
<1>13. CASE MakeShelf(p)
  <2>1. PICK k \in 0 .. MaxShelf :
            /\ <<r.name, k>> \notin shelves
            /\ shelves' = shelves \cup {<<r.name, k>>}
            /\ Go(p, [r EXCEPT !.shelf = k, !.seen = ws[r.name], !.left = ItemsOf(ws[r.name]),
                               !.pc = IF ws[r.name] = {} THEN "rmdir" ELSE "out"])
    BY <1>13 DEF MakeShelf
  <2>2. /\ proc'[p].pc \in {"rmdir", "out"} /\ proc'[p].name = r.name /\ proc'[p].shelf = k
        /\ UNCHANGED <<ws, live, wsRoot, archive>> /\ r.name \in Names
    BY <1>0, <1>13, <2>1 DEF MakeShelf, Go, Sound, Completing
  <2>3. <<r.name, k>> \in Shelves /\ ShelfOf(proc'[p]) = <<r.name, k>>
    BY <2>2 DEF Shelves, ShelfOf
  <2>4. \A q \in Others(p) : Shelving(proc[q]) =>
            ShelfOf(proc[q]) # <<r.name, k>> /\ ShelfOf(proc[q]) \in shelves
    BY <2>1 DEF TreeShape, Others
  <2>5. \A q \in Procs : q = p \/ q \in Others(p)
    BY DEF Others
  <2>6. \A q \in Procs : Shelving(proc'[q]) =>
            ShelfOf(proc'[q]) \in shelves' /\ ShelfOf(proc'[q]) \in Shelves
    BY <1>h, <2>1, <2>3, <2>5 DEF TreeShape
  <2>7. \A q, u \in Procs : q # u /\ Shelving(proc'[q]) /\ Shelving(proc'[u]) =>
            ShelfOf(proc'[q]) # ShelfOf(proc'[u])
    BY <1>h, <2>3, <2>4, <2>5 DEF TreeShape
  <2>8. QED
    BY <2>1, <2>2, <2>6, <2>7 DEF TreeShape
<1>14. CASE Out(p)
  <2> DEFINE s == ShelfOf(r)
  <2>1. PICK es : /\ ws' = [ws EXCEPT ![r.name] = @ \ es]
                  /\ archive' = [archive EXCEPT ![s] = Put(@, es)]
    BY <1>14 DEF Out, ShelfOf
  <2>2. /\ r.pc = "out" /\ proc'[p].pc \in {"out", "rmdir"} /\ r.name \in Names
        /\ ShelfOf(proc'[p]) = s
        /\ UNCHANGED <<live, wsRoot, shelves>>
    BY <1>0, <1>14 DEF Out, Go, ShelfOf, Sound, Completing
  <2>3. s \in shelves
    BY <2>2 DEF TreeShape, Shelving
  <2>4. QED
    BY <1>0, <1>h, <2>1, <2>2, <2>3 DEF TreeShape, Shelving, Others
<1>15. CASE OutFails(p)
    BY <1>0, <1>h, <1>15, SameTreeShape DEF OutFails, Go, Shelving, ShelfOf, TreeShape, tree
<1>16. CASE Back(p)
  <2> DEFINE s == ShelfOf(r)
  <2>1. PICK es : /\ ws' = [ws EXCEPT ![r.name] = Put(@, es)]
                  /\ archive' = [archive EXCEPT ![s] = @ \ es]
                  /\ r.name \notin live => es = {}
    BY <1>16 DEF Back, ShelfOf
  <2>2. /\ r.pc = "back" /\ proc'[p].pc = "back" /\ r.name \in Names
        /\ ShelfOf(proc'[p]) = s
        /\ UNCHANGED <<live, wsRoot, shelves>>
    BY <1>0, <1>16 DEF Back, Go, ShelfOf, Sound, Completing
  <2>3. es = {} => Put(ws[r.name], es) = ws[r.name]
    BY DEF Put
  <2>4. QED
    BY <1>0, <1>h, <2>1, <2>2, <2>3 DEF TreeShape, Shelving, Others
<1>17. CASE DropShelf(p)
  <2> DEFINE s == ShelfOf(r)
  <2>1. /\ r.pc = "back" /\ proc'[p].pc = "idle"
        /\ archive' = [archive EXCEPT ![s] = {}] /\ shelves' = shelves \ {s}
        /\ UNCHANGED <<ws, live, wsRoot>>
    BY <1>0, <1>17 DEF DropShelf, Go, ShelfOf
  <2>2. QED
    BY <1>0, <1>h, <2>1 DEF TreeShape, Shelving, Others
<1>18. CASE Rmdir(p)
    BY <1>0, <1>h, <1>18, SameShelvesShape DEF Rmdir, Go, Shelving, SameShelves, TreeShape
<1>19. CASE RmRoot(p)
  <2>1. proc'[p].pc = "idle" /\ UNCHANGED <<ws, live, archive, shelves>>
    BY <1>0, <1>19 DEF RmRoot, Go
  <2>2. live # {} => wsRoot'
    BY <1>19 DEF RmRoot
  <2>3. QED
    BY <1>h, <2>1, <2>2, SameTreeShape DEF Shelving
<1>20. ASSUME NEW n, SetActive(p, n)
       PROVE  TreeShape'
    BY <1>20 DEF SetActive, TreeShape
<1>21. QED
    BY <1>1, <1>2, <1>3, <1>4, <1>5, <1>6, <1>7, <1>8, <1>9, <1>10, <1>11, <1>12, <1>13,
       <1>14, <1>15, <1>16, <1>17, <1>18, <1>19, <1>20, <1>r DEF WorkstreamStep

LEMMA SettingsTree ==
    ASSUME Shape, TreeShape, NEW p \in Procs, SettingsStep(p)
    PROVE  TreeShape'
<1> DEFINE r == proc[p]
<1>h. \A q \in Others(p) : proc'[q] = proc[q]
    BY StepHonest
<1>0. /\ DOMAIN ws = Names /\ DOMAIN archive = Shelves /\ Sound(r) /\ None \notin Names
    BY WorkstreamsAssumption DEF Shape, TreeShape
<1>1. CASE BackupState(p)
  <2> DEFINE copy == {Backup(e) : e \in Of(Dir(r.name), "STATE")}
  <2>1. /\ proc'[p].pc = "regenerate" /\ r.name \in Places
        /\ UNCHANGED <<live, wsRoot, archive, shelves>>
        /\ ws' = IF r.name = None THEN ws ELSE [ws EXCEPT ![r.name] = @ \cup copy]
    BY <1>0, <1>1 DEF BackupState, Repaired, Go, Shape, Sound, Fields, Repairing
  <2>2. r.name \in Names => Dir(r.name) = ws[r.name]
    BY <1>0 DEF Dir
  <2>3. r.name \in Names /\ ws[r.name] = {} => copy = {}
    BY <2>2 DEF Of
  <2> HIDE DEF copy
  <2>4. \A n \in Names : n \notin live => ws'[n] = {}
    BY <1>0, <2>1, <2>3 DEF TreeShape, Places
  <2>5. QED
    BY <1>0, <1>h, <2>1, <2>4, SameShelvesShape DEF TreeShape, SameShelves, Shelving
<1>2. CASE RegenerateState(p)
  <2>1. /\ proc'[p].pc = "repair"
        /\ UNCHANGED <<live, wsRoot, archive, shelves>>
        /\ \/ ws' = ws
           \/ \E es : r.name \in live /\ ws' = [ws EXCEPT ![r.name] = Put(@, es)]
    BY <1>0, <1>2 DEF RegenerateState, Go, Shape, Sound, Fields
  <2>2. QED
    BY <1>0, <1>h, <2>1, SameShelvesShape DEF TreeShape, SameShelves, Shelving
<1>3. CASE UNCHANGED tree /\ proc'[p].pc \in Writing \cup {"read", "repair", "regenerate", "idle"}
    BY <1>h, <1>3, SameTreeShape DEF TreeShape, Shelving, Writing, tree
<1>4. CASE BeginTodo(p) \/ TodoStep(p)
  <2>1. proc'[p].pc \in Todoing \cup {"idle"} /\ UNCHANGED tree
    <3>1. CASE BeginTodo(p)
      BY <3>1 DEF BeginTodo, Begin, Todoing, Shape, Idle
    <3>2. CASE TodoStep(p)
      BY <3>2 DEF TodoStep, Go, Todoing, Shape, Sound, Fields, Idle
    <3>3. QED
      BY <1>4, <3>1, <3>2
  <2>2. QED
    BY <1>h, <2>1, SameTreeShape DEF TreeShape, Shelving, Todoing, tree
<1>5. QED
    BY <1>1, <1>2, <1>3, <1>4, SettingsPc

LEMMA TreeStep == Shape /\ TreeShape /\ [Next]_vars => TreeShape'
<1> SUFFICES ASSUME Shape, TreeShape, [Next]_vars PROVE TreeShape'
    OBVIOUS
<1>1. ASSUME NEW p \in Procs, Crash(p)
      PROVE  TreeShape'
  <2>1. UNCHANGED tree /\ proc'[p].pc = "idle"
    BY <1>1 DEF Crash, Go, Shape, Idle
  <2>2. QED
    BY <1>1, <2>1, StepHonest, SameTreeShape DEF TreeShape, Shelving, tree
<1>2. CASE UNCHANGED <<tree, proc>>
    BY <1>2 DEF TreeShape, tree
<1>3. QED
    BY <1>1, <1>2, WorkstreamTree, SettingsTree DEF Next, RepoAppears, vars

-----------------------------------------------------------------------------
(* What is written is kept.                                                  *)

Calm == ~Contested /\ "rollback" \notin excused

\* Where the entries are that a process is moving, while nobody else works there.
Placed(r) ==
    /\ r.pc \in {"guard", "mkdir"} => ws[r.to] = {}
    /\ r.pc \in {"move", "undo"} =>
           ItemsOf(ws[r.to]) \subseteq r.moved /\ ItemsOf(root) \cap r.moved = {}
    /\ r.pc \in {"shelve", "out", "back"} => r.name \in live
    /\ Shelving(r) => /\ ItemsOf(archive[ShelfOf(r)]) \subseteq r.moved
                      /\ ItemsOf(ws[r.name]) \cap r.moved = {}
    /\ r.pc = "regenerate" => \A f \in Of(Dir(r.name), "STATE") : Backup(f) \in Dir(r.name)
PlacedInv == Calm => \A p \in Procs : Placed(proc[p])

\* A step changes only directories its process works on.
Frame(p) ==
    /\ None \notin proc[p].on => root' = root
    /\ \A n \in Names : n \notin proc[p].on => ws'[n] = ws[n] /\ (n \in live => n \in live')
    /\ \A s \in Shelves : \/ archive'[s] = archive[s]
                          \/ Shelving(proc[p]) /\ s = ShelfOf(proc[p])

LEMMA PlacedOthers ==
    ASSUME Shape, TreeShape, Exclusive, Calm, NEW p \in Procs, NEW q \in Others(p),
           Frame(p), proc'[q] = proc[q], Placed(proc[q])
    PROVE  Placed(proc[q])'
<1> DEFINE r == proc[q]
<1> USE DEF Fields
<1>0. q \in Procs /\ q # p /\ Sound(r) /\ None \notin Names
    BY WorkstreamsAssumption DEF Others, Shape
<1>1. \A x \in Places : x \in r.on => x \notin proc[p].on
    BY <1>0 DEF Exclusive, Calm, Contested
<1>2. CASE r.pc \in {"guard", "mkdir"}
    BY <1>0, <1>1, <1>2 DEF Sound, Migrating, Frame, Placed, Shelving, Places
<1>3. CASE r.pc \in {"move", "undo"}
  <2>1. ws'[r.to] = ws[r.to] /\ root' = root
    BY <1>0, <1>1, <1>3 DEF Sound, Migrating, Frame, Places
  <2>2. QED
    BY <1>3, <2>1 DEF Placed, Shelving
<1>4. CASE r.pc \in {"shelve", "out", "back"}
  <2>1. ws'[r.name] = ws[r.name] /\ r.name \in live'
    BY <1>0, <1>1, <1>4 DEF Sound, Completing, Frame, Places, Placed
  <2>2. Shelving(r) => archive'[ShelfOf(r)] = archive[ShelfOf(r)]
    BY <1>0 DEF TreeShape, Frame
  <2>3. QED
    BY <1>4, <2>1, <2>2 DEF Placed, Shelving, ShelfOf
<1>5. CASE r.pc = "regenerate"
  <2>1. r.name \in Places /\ r.name \in r.on
    BY <1>0, <1>5 DEF Sound, Repairing
  <2>2. Dir(r.name)' = Dir(r.name)
    BY <1>0, <1>1, <2>1 DEF Frame, Places, Dir
  <2>3. QED
    BY <1>5, <2>2 DEF Placed, Shelving
<1>6. QED
    BY <1>2, <1>3, <1>4, <1>5 DEF Placed, Shelving

\* An entry is somewhere.
In(e) == \/ e \in root
         \/ \E n \in Names : e \in ws[n]
         \/ \E s \in Shelves : e \in archive[s]
Kept(e) == In(e) \/ (e.item = "STATE" /\ In(Backup(e)))
KeptInv == Calm => \A e \in made : Kept(e)
Conserved == /\ \A e : In(e) => In(e)'
             /\ \A e \in made' : e \in made \/ In(e)'

SameTree == /\ UNCHANGED <<root, made>>
            /\ \A n \in Names : ws'[n] = ws[n]
            /\ \A s \in Shelves : archive'[s] = archive[s]

LEMMA StillThere ==
    ASSUME SameTree \/ UNCHANGED <<root, ws, archive, made>>
    PROVE  Conserved
BY DEF Conserved, In, SameTree

LEMMA StillFramed ==
    ASSUME SameTree \/ UNCHANGED <<root, ws, archive>>, NEW p,
           \A n \in Names : n \notin proc[p].on /\ n \in live => n \in live'
    PROVE  Frame(p)
BY DEF Frame, SameTree

LEMMA WorkstreamPlaced ==
    ASSUME Shape, TreeShape, Calm, NEW p \in Procs, Placed(proc[p]), WorkstreamStep(p)
    PROVE  Frame(p) /\ Conserved /\ (Calm' => Placed(proc[p])')
<1> DEFINE r == proc[p]
           Goal == Frame(p) /\ Conserved /\ (Calm' => Placed(proc[p])')
<1> USE DEF Fields, Shelving
<1>0. /\ DOMAIN proc = Procs /\ DOMAIN r = Fields /\ Sound(r)
      /\ DOMAIN Idle = Fields /\ Idle.pc = "idle"
      /\ DOMAIN ws = Names /\ DOMAIN archive = Shelves
      /\ None \notin Names
    BY WorkstreamsAssumption DEF Shape, Sound, Idle, TreeShape
<1>b. ASSUME NEW job, DOMAIN job = Fields, Begin(p, job)
      PROVE  proc'[p].pc = job.pc /\ proc'[p].to = job.to /\ proc'[p].name = job.name
    BY <1>0, <1>b DEF Begin
<1>1. ASSUME NEW n \in Names, NEW to \in Names \cup {None}, BeginCreate(p, n, to)
      PROVE  Goal
  <2>1. /\ UNCHANGED <<root, ws, archive, live, made>>
        /\ \E job : /\ DOMAIN job = Fields /\ job.pc \in {"guard", "dirs"} /\ Begin(p, job)
                    /\ job.pc = "guard" => ~wsRoot /\ to # None /\ job.to = to
    <3> DEFINE flat == ~wsRoot /\ to # None
               job == [Idle EXCEPT !.pc = IF flat /\ HasWork THEN "guard" ELSE "dirs",
                                   !.on = IF flat /\ HasWork THEN {n, to, None} ELSE {n},
                                   !.name = n, !.to = IF flat /\ HasWork THEN to ELSE None]
    <3>1. Begin(p, job) /\ UNCHANGED <<root, ws, archive, live, made>>
      BY <1>1 DEF BeginCreate
    <3>2. DOMAIN job = Fields /\ job.pc = IF flat /\ HasWork THEN "guard" ELSE "dirs"
      BY <1>0
    <3>3. flat /\ HasWork => job.to = to
      BY <1>0
    <3> HIDE DEF job
    <3>4. QED
      BY <3>1, <3>2, <3>3
  <2>2. /\ proc'[p].pc \in {"guard", "dirs"}
        /\ proc'[p].pc = "guard" => ~wsRoot /\ to # None /\ proc'[p].to = to
    BY <1>b, <2>1
  <2>3. ~wsRoot /\ to # None => ws[to] = {}
    BY DEF TreeShape
  <2>4. QED
    BY <2>1, <2>2, <2>3, StillThere, StillFramed DEF Placed
<1>2. CASE Guard(p)
  <2>1. /\ UNCHANGED <<root, ws, archive, live, made>> /\ r.pc = "guard"
        /\ \/ proc'[p].pc = "idle"
           \/ proc'[p].pc = "mkdir" /\ proc'[p].to = r.to
    BY <1>0, <1>2 DEF Guard, Go, tree
  <2>2. QED
    BY <2>1, StillThere, StillFramed DEF Placed
<1>3. CASE MkdirTarget(p)
  <2>1. /\ UNCHANGED <<root, ws, archive, made>> /\ live \subseteq live' /\ r.pc = "mkdir"
        /\ proc'[p].pc = "move" /\ proc'[p].to = r.to /\ proc'[p].moved = r.moved
    BY <1>0, <1>3 DEF MkdirTarget, Go
  <2>2. r.moved = {} /\ ws[r.to] = {}
    BY <1>0, <2>1 DEF Sound, Placed
  <2>3. QED
    BY <2>1, <2>2, StillThere, StillFramed DEF Placed, ItemsOf
<1>4. CASE Move(p)
  <2> DEFINE i == First(r.left)
             es == Of(root, i)
  <2>1. /\ r.pc = "move" /\ r.to \in Names /\ r.to \in r.on /\ None \in r.on
        /\ root' = root \ es /\ ws' = [ws EXCEPT ![r.to] = Put(@, es)]
        /\ UNCHANGED <<archive, live, made>>
        /\ proc'[p].pc \in {"move", "dirs"} /\ proc'[p].to = r.to
        /\ proc'[p].moved = IF Has(root, i) THEN r.moved \cup {i} ELSE r.moved
    BY <1>0, <1>4 DEF Move, Go, Sound, Migrating
  <2>2. i \in r.left /\ r.left \cap r.moved = {}
    BY <1>0, <2>1, FirstIn DEF Sound
  <2>3. ItemsOf(ws[r.to]) \subseteq r.moved /\ ItemsOf(root) \cap r.moved = {}
    BY <2>1 DEF Placed
  <2> HIDE DEF i
  <2>4. \A e \in ws[r.to] : e.item # i
    BY <2>2, <2>3 DEF ItemsOf
  <2>5. Put(ws[r.to], es) = ws[r.to] \cup es
    BY <2>4 DEF Put, Of
  <2>6. Frame(p)
    BY <1>0, <2>1 DEF Frame
  <2>7. Conserved
    BY <1>0, <2>1, <2>5 DEF Conserved, In
  <2>8. Placed(proc[p])'
    <3>1. ItemsOf(ws'[r.to]) \subseteq proc'[p].moved
      BY <1>0, <2>1, <2>3, <2>5 DEF ItemsOf, Of, Has
    <3>2. ItemsOf(root') \cap proc'[p].moved = {}
      BY <2>1, <2>3 DEF ItemsOf, Of, Has
    <3>3. QED
      BY <2>1, <3>1, <3>2 DEF Placed
  <2>9. QED
    BY <2>6, <2>7, <2>8
<1>5. CASE MoveFails(p)
  <2>1. /\ UNCHANGED <<root, ws, archive, live, made>> /\ r.pc = "move"
        /\ proc'[p].pc = "undo" /\ proc'[p].to = r.to /\ proc'[p].moved = r.moved
    BY <1>0, <1>5 DEF MoveFails, Go, tree
  <2>2. QED
    BY <2>1, StillThere, StillFramed DEF Placed
<1>6. CASE Undo(p)
  <2> DEFINE i == First(r.moved)
             es == Of(ws[r.to], i)
  <2>1. /\ r.pc = "undo" /\ r.moved # {} /\ r.to \in Names /\ r.to \in r.on /\ None \in r.on
        /\ root' = Put(root, es) /\ ws' = [ws EXCEPT ![r.to] = @ \ es]
        /\ UNCHANGED <<archive, live, made>>
        /\ proc'[p].pc = "undo" /\ proc'[p].to = r.to /\ proc'[p].moved = r.moved \ {i}
    BY <1>0, <1>6 DEF Undo, Go, Sound, Migrating
  <2>2. i \in r.moved
    BY <1>0, <2>1, FirstIn DEF Sound
  <2>3. ItemsOf(ws[r.to]) \subseteq r.moved /\ ItemsOf(root) \cap r.moved = {}
    BY <2>1 DEF Placed
  <2> HIDE DEF i
  <2>4. \A e \in root : e.item # i
    BY <2>2, <2>3 DEF ItemsOf
  <2>5. Put(root, es) = root \cup es
    BY <2>4 DEF Put, Of
  <2>6. Frame(p)
    BY <1>0, <2>1 DEF Frame
  <2>7. Conserved
    BY <1>0, <2>1, <2>5 DEF Conserved, In
  <2>8. Placed(proc[p])'
    <3>1. ItemsOf(ws'[r.to]) \subseteq proc'[p].moved
      BY <1>0, <2>1, <2>3 DEF ItemsOf, Of
    <3>2. ItemsOf(root') \cap proc'[p].moved = {}
      BY <2>1, <2>3, <2>5 DEF ItemsOf, Of
    <3>3. QED
      BY <2>1, <3>1, <3>2 DEF Placed
  <2>9. QED
    BY <2>6, <2>7, <2>8
<1>7. CASE PassOver(p)
  <2>1. UNCHANGED <<root, ws, archive, live, made>> /\ "rollback" \in excused'
    BY <1>7 DEF PassOver, tree
  <2>2. QED
    BY <2>1, StillThere, StillFramed DEF Calm
<1>8. CASE Clean(p)
  <2>1. /\ r.pc = "undo" /\ r.moved = {} /\ r.to \in Names /\ r.to \in r.on
        /\ ws' = [ws EXCEPT ![r.to] = {}] /\ live' = live \ {r.to}
        /\ UNCHANGED <<root, archive, made>> /\ proc'[p].pc = "clean"
    BY <1>0, <1>8 DEF Clean, Go, Sound, Migrating
  <2>2. ws[r.to] = {}
    BY <2>1 DEF Placed, ItemsOf
  <2>3. SameTree
    BY <1>0, <2>1, <2>2 DEF SameTree
  <2>4. QED
    BY <2>1, <2>3, StillThere, StillFramed DEF Placed
<1>r. CASE RemovalFails(p)
  <2>1. /\ UNCHANGED <<root, ws, archive, live, made>>
        /\ proc'[p].pc \in {"clean", "rmroot", "idle"}
    BY <1>0, <1>r, RemovalIs DEF Go
  <2>2. QED
    BY <2>1, StillThere, StillFramed DEF Placed
<1>9. CASE MakeDirs(p)
  <2>1. /\ r.name \in Names /\ r.name \in r.on /\ live' = live \cup {r.name}
        /\ proc'[p].pc = "state" /\ UNCHANGED <<root, archive, made>>
        /\ \/ ws' = ws
           \/ ws' = [ws EXCEPT ![r.name] = @ \cup {[item |-> "phases", by |-> r.id]}]
    BY <1>0, <1>9 DEF MakeDirs, Go, Sound, Creating
  <2>2. Frame(p) /\ Conserved
    BY <1>0, <2>1 DEF Frame, Conserved, In
  <2>3. QED
    BY <2>1, <2>2 DEF Placed
<1>10. CASE WriteState(p)
  <2> DEFINE f == [item |-> "STATE", by |-> r.id]
  <2>1. /\ r.name \in Names /\ r.name \in r.on
        /\ proc'[p].pc \in {"activate", "idle"} /\ UNCHANGED <<root, archive, live>>
        /\ \/ ws' = ws /\ made' = made
           \/ ws' = [ws EXCEPT ![r.name] = @ \cup {f}] /\ made' = made \cup {f}
    BY <1>0, <1>10 DEF WriteState, Go, Sound, Creating
  <2> HIDE DEF f
  <2>2. Frame(p) /\ Conserved
    BY <1>0, <2>1 DEF Frame, Conserved, In
  <2>3. QED
    BY <2>1, <2>2 DEF Placed
<1>11. CASE Activate(p)
  <2>1. UNCHANGED <<root, ws, archive, live, made>> /\ proc'[p].pc = "idle"
    BY <1>0, <1>11 DEF Activate, Go
  <2>2. QED
    BY <2>1, StillThere, StillFramed DEF Placed
<1>12. ASSUME NEW n \in Names, BeginComplete(p, n)
       PROVE  Goal
  <2>1. /\ UNCHANGED <<root, ws, archive, live, made>> /\ n \in live
        /\ \E job : DOMAIN job = Fields /\ job.pc = "shelve" /\ job.name = n /\ Begin(p, job)
    BY <1>0, <1>12 DEF BeginComplete
  <2>2. proc'[p].pc = "shelve" /\ proc'[p].name = n
    BY <1>b, <2>1
  <2>3. QED
    BY <2>1, <2>2, StillThere, StillFramed DEF Placed
<1>13. CASE MakeShelf(p)
  <2>1. PICK k \in 0 .. MaxShelf :
            /\ <<r.name, k>> \notin shelves
            /\ Go(p, [r EXCEPT !.shelf = k, !.seen = ws[r.name], !.left = ItemsOf(ws[r.name]),
                               !.pc = IF ws[r.name] = {} THEN "rmdir" ELSE "out"])
    BY <1>13 DEF MakeShelf
  <2>2. /\ r.pc = "shelve" /\ proc'[p].pc \in {"rmdir", "out"} /\ proc'[p].moved = r.moved
        /\ ShelfOf(proc'[p]) = <<r.name, k>> /\ proc'[p].name = r.name /\ r.name \in Names
        /\ UNCHANGED <<root, ws, live, archive, made>>
    BY <1>0, <1>13, <2>1 DEF MakeShelf, Go, Sound, Completing, ShelfOf
  <2>3. r.moved = {} /\ r.name \in live
    BY <1>0, <2>2 DEF Sound, Placed
  <2>4. archive[<<r.name, k>>] = {}
    BY <2>1, <2>2 DEF TreeShape, Shelves
  <2>5. QED
    BY <2>2, <2>3, <2>4, StillThere, StillFramed DEF Placed, ItemsOf
<1>14. CASE Out(p)
  <2> DEFINE s == ShelfOf(r)
  <2>1. PICK i \in r.left :
            /\ ws' = [ws EXCEPT ![r.name] = @ \ Of(ws[r.name], i)]
            /\ archive' = [archive EXCEPT ![s] = Put(@, Of(ws[r.name], i))]
            /\ Go(p, [r EXCEPT !.left = @ \ {i}, !.moved = @ \cup {i},
                               !.pc = IF r.left = {i} THEN "rmdir" ELSE "out"])
    BY <1>14 DEF Out, ShelfOf
  <2>2. /\ r.pc = "out" /\ proc'[p].pc \in {"out", "rmdir"} /\ r.name \in Names
        /\ r.name \in r.on
        /\ ShelfOf(proc'[p]) = s /\ proc'[p].name = r.name /\ proc'[p].moved = r.moved \cup {i}
        /\ UNCHANGED <<root, live, made>>
    BY <1>0, <1>14, <2>1 DEF Out, Go, ShelfOf, Sound, Completing
  <2>3. /\ r.name \in live /\ ItemsOf(archive[s]) \subseteq r.moved
        /\ ItemsOf(ws[r.name]) \cap r.moved = {} /\ i \notin r.moved /\ s \in Shelves
    BY <1>0, <2>1, <2>2 DEF Placed, Sound, TreeShape
  <2> DEFINE es == Of(ws[r.name], i)
  <2>4. \A e \in archive[s] : e.item # i
    BY <2>3 DEF ItemsOf
  <2>5. Put(archive[s], es) = archive[s] \cup es
    BY <2>4 DEF Put, Of
  <2>6. Frame(p)
    BY <1>0, <2>1, <2>2, <2>3 DEF Frame
  <2>7. Conserved
    <3> HIDE DEF es, s
    <3>1. ws'[r.name] = ws[r.name] \ es /\ archive'[s] = archive[s] \cup es
      BY <1>0, <2>1, <2>2, <2>3, <2>5 DEF es, s
    <3>2. /\ \A n \in Names : n # r.name => ws'[n] = ws[n]
          /\ \A u \in Shelves : u # s => archive'[u] = archive[u]
      BY <1>0, <2>1 DEF s
    <3>3. QED
      BY <2>2, <2>3, <3>1, <3>2 DEF Conserved, In
  <2>8. Placed(proc[p])'
    <3>1. ItemsOf(archive'[s]) \subseteq proc'[p].moved
      BY <1>0, <2>1, <2>2, <2>3, <2>5 DEF ItemsOf, Of
    <3>2. ItemsOf(ws'[r.name]) \cap proc'[p].moved = {}
      BY <1>0, <2>1, <2>2, <2>3 DEF ItemsOf, Of
    <3>3. QED
      BY <2>2, <2>3, <3>1, <3>2 DEF Placed
  <2>9. QED
    BY <2>6, <2>7, <2>8
<1>15. CASE OutFails(p)
  <2>1. /\ UNCHANGED <<root, ws, archive, live, made>> /\ r.pc = "out"
        /\ proc'[p].pc = "back" /\ proc'[p].name = r.name /\ proc'[p].moved = r.moved
        /\ ShelfOf(proc'[p]) = ShelfOf(r)
    BY <1>0, <1>15 DEF OutFails, Go, tree, ShelfOf
  <2>2. QED
    BY <2>1, StillThere, StillFramed DEF Placed
<1>16. CASE Back(p)
  <2> DEFINE s == ShelfOf(r)
             i == CHOOSE j \in r.moved : TRUE
             es == IF r.name \in live THEN Of(archive[s], i) ELSE {}
  <2>1. /\ ws' = [ws EXCEPT ![r.name] = Put(@, es)]
        /\ archive' = [archive EXCEPT ![s] = @ \ es]
        /\ r.pc = "back" /\ proc'[p].pc = "back" /\ r.name \in Names /\ r.name \in r.on
        /\ ShelfOf(proc'[p]) = s /\ proc'[p].name = r.name /\ proc'[p].moved = r.moved \ {i}
        /\ UNCHANGED <<root, live, made>> /\ r.moved # {}
    BY <1>0, <1>16 DEF Back, Go, ShelfOf, Sound, Completing
  <2>2. i \in r.moved
    BY <2>1
  <2> HIDE DEF i
  <2>3. /\ r.name \in live /\ ItemsOf(archive[s]) \subseteq r.moved
        /\ ItemsOf(ws[r.name]) \cap r.moved = {} /\ s \in Shelves
    BY <2>1 DEF Placed, TreeShape
  <2>4. es = Of(archive[s], i)
    BY <2>3
  <2>5. Put(ws[r.name], es) = ws[r.name] \cup es
    BY <2>2, <2>3, <2>4 DEF Put, Of, ItemsOf
  <2>6. Frame(p)
    BY <1>0, <2>1, <2>3 DEF Frame
  <2> HIDE DEF s, es
  <2>7. ws'[r.name] = ws[r.name] \cup es /\ archive'[s] = archive[s] \ es
    BY <1>0, <2>1, <2>3, <2>5
  <2>8. Conserved
    <3>1. /\ \A n \in Names : n # r.name => ws'[n] = ws[n]
          /\ \A u \in Shelves : u # s => archive'[u] = archive[u]
      BY <1>0, <2>1
    <3>2. QED
      BY <2>1, <2>3, <2>7, <3>1 DEF Conserved, In
  <2>9. Placed(proc[p])'
    <3>1. ItemsOf(archive'[s]) \subseteq proc'[p].moved
      BY <2>1, <2>3, <2>4, <2>7 DEF ItemsOf, Of
    <3>2. ItemsOf(ws'[r.name]) \cap proc'[p].moved = {}
      BY <2>1, <2>3, <2>4, <2>7 DEF ItemsOf, Of
    <3>3. QED
      BY <2>1, <2>3, <3>1, <3>2 DEF Placed
  <2>10. QED
    BY <2>6, <2>8, <2>9
<1>17. CASE DropShelf(p)
  <2> DEFINE s == ShelfOf(r)
  <2>1. /\ r.pc = "back" /\ r.moved = {} /\ proc'[p].pc = "idle"
        /\ archive' = [archive EXCEPT ![s] = {}]
        /\ UNCHANGED <<root, ws, live, made>>
    BY <1>0, <1>17 DEF DropShelf, Go, ShelfOf
  <2>2. archive[s] = {}
    BY <2>1 DEF Placed, ItemsOf
  <2>3. SameTree
    BY <1>0, <2>1, <2>2 DEF SameTree
  <2>4. QED
    BY <2>1, <2>3, StillThere, StillFramed DEF Placed
<1>18. CASE Rmdir(p)
  <2>1. /\ r.pc = "rmdir" /\ r.name \in r.on /\ proc'[p].pc = "rmroot"
        /\ live \subseteq live' \cup {r.name}
        /\ UNCHANGED <<root, ws, archive, made>>
    BY <1>0, <1>18 DEF Rmdir, Go, Sound, Completing
  <2>2. QED
    BY <2>1, StillThere, StillFramed DEF Placed
<1>19. CASE RmRoot(p)
  <2>1. UNCHANGED <<root, ws, archive, live, made>> /\ proc'[p].pc = "idle"
    BY <1>0, <1>19 DEF RmRoot, Go
  <2>2. QED
    BY <2>1, StillThere, StillFramed DEF Placed
<1>20. ASSUME NEW n, SetActive(p, n)
       PROVE  Goal
  <2>1. UNCHANGED <<root, ws, archive, live, made, proc>>
    BY <1>20 DEF SetActive
  <2>2. QED
    BY <2>1, StillThere, StillFramed DEF Placed, Dir
<1>21. QED
    BY <1>1, <1>2, <1>3, <1>4, <1>5, <1>6, <1>7, <1>8, <1>9, <1>10, <1>11, <1>12, <1>13,
       <1>14, <1>15, <1>16, <1>17, <1>18, <1>19, <1>20, <1>r DEF WorkstreamStep

\* The steps of health --repair on STATE.md, and all others, which leave the directories.
LEMMA SettingsPlaced ==
    ASSUME Shape, TreeShape, Calm, NEW p \in Procs, Placed(proc[p]), SettingsStep(p),
           \A e \in made : Kept(e)
    PROVE  Frame(p) /\ (\A e \in made' : Kept(e)') /\ (Calm' => Placed(proc[p])')
<1> DEFINE r == proc[p]
           Goal == Frame(p) /\ (\A e \in made' : Kept(e)') /\ (Calm' => Placed(proc[p])')
<1> USE DEF Fields, Shelving
<1>0. /\ DOMAIN proc = Procs /\ DOMAIN r = Fields /\ Sound(r)
      /\ DOMAIN ws = Names /\ None \notin Names
    BY WorkstreamsAssumption DEF Shape, Sound, TreeShape
<1>1. CASE BackupState(p)
  <2> DEFINE copy == {Backup(e) : e \in Of(Dir(r.name), "STATE")}
  <2>1. /\ proc'[p].pc = "regenerate" /\ proc'[p].name = r.name
        /\ r.name \in Places /\ r.name \in r.on
        /\ UNCHANGED <<live, archive, made>>
        /\ root' = IF r.name = None THEN root \cup copy ELSE root
        /\ ws' = IF r.name = None THEN ws ELSE [ws EXCEPT ![r.name] = @ \cup copy]
    BY <1>0, <1>1 DEF BackupState, Repaired, Go, Sound, Repairing
  <2>2. Dir(r.name)' = Dir(r.name) \cup copy
    BY <1>0, <2>1 DEF Dir, Places
  <2>3. \A f \in copy : f.item = "BACKUP"
    BY DEF Backup
  <2>4. \A f \in Of(Dir(r.name), "STATE") : Backup(f) \in copy
    OBVIOUS
  <2> HIDE DEF copy
  <2>5. Frame(p) /\ \A e : In(e) => In(e)'
    BY <1>0, <2>1 DEF Frame, In, Places
  <2>6. Placed(proc[p])'
    BY <2>1, <2>2, <2>3, <2>4 DEF Placed, Of
  <2>7. QED
    BY <2>1, <2>5, <2>6 DEF Kept
<1>2. CASE RegenerateState(p)
  <2> DEFINE f == [item |-> "STATE", by |-> r.id]
             there == r.name = None \/ r.name \in live
  <2>1. /\ r.pc = "regenerate" /\ proc'[p].pc = "repair" /\ r.name \in Places /\ r.name \in r.on
        /\ UNCHANGED <<live, archive>>
        /\ root' = IF r.name = None THEN Put(root, {f}) ELSE root
        /\ ws' = IF r.name \in live THEN [ws EXCEPT ![r.name] = Put(@, {f})] ELSE ws
        /\ made' = IF there THEN made \cup {f} ELSE made
    BY <1>0, <1>2 DEF RegenerateState, Go, Sound, Repairing
  <2>2. f.item = "STATE"
    OBVIOUS
  <2>3. \A g \in Of(Dir(r.name), "STATE") : Backup(g) \in Dir(r.name)
    BY <2>1 DEF Placed
  <2> HIDE DEF f
  <2>4. CASE ~there
    <3>1. UNCHANGED <<root, ws, archive, live, made>>
      BY <2>1, <2>4
    <3>2. Frame(p) /\ \A e : In(e) => In(e)'
      BY <3>1 DEF Frame, In
    <3>3. QED
      BY <2>1, <3>1, <3>2 DEF Placed, Kept
  <2>5. CASE there /\ r.name = None
    <3>1. None \notin live \/ r.name \notin Names
      BY <1>0, <2>5
    <3>2. \A n \in Names : ws'[n] = ws[n]
      BY <1>0, <2>1, <2>5
    <3>3. root' = Put(root, {f}) /\ made' = made \cup {f} /\ Dir(r.name) = root
      BY <2>1, <2>5 DEF Dir
    <3>4. \A e : e \in root => e \in root' \/ (e.item = "STATE" /\ e \in Of(Dir(r.name), "STATE"))
      BY <2>2, <3>3 DEF Put, Of
    <3>5. \A e : Backup(e) \in root => Backup(e) \in root'
      BY <2>2, <3>3 DEF Put, Backup
    <3>6. \A e : In(e) => Kept(e)'
      BY <2>1, <2>3, <3>2, <3>3, <3>4, <3>5 DEF In, Kept
    <3>7. \A e : In(Backup(e)) => In(Backup(e))'
      BY <2>1, <3>2, <3>5 DEF In
    <3>8. \A e : e = f => In(e)'
      BY <3>3 DEF In, Put
    <3>9. \A e \in made' : Kept(e)'
      BY <3>3, <3>6, <3>7, <3>8 DEF Kept
    <3>10. Frame(p)
      BY <1>0, <2>1, <2>5, <3>2 DEF Frame
    <3>11. QED
      BY <2>1, <3>9, <3>10 DEF Placed
  <2>6. CASE r.name \in live /\ r.name # None
    <3>1. root' = root /\ r.name \in Names /\ Dir(r.name) = ws[r.name]
      BY <2>1, <2>6 DEF Dir, Places
    <3>2. ws'[r.name] = Put(ws[r.name], {f}) /\ made' = made \cup {f}
      BY <1>0, <2>1, <2>6, <3>1
    <3>3. \A n \in Names : n # r.name => ws'[n] = ws[n]
      BY <1>0, <2>1, <2>6
    <3>4. \A e : e \in ws[r.name] =>
              e \in ws'[r.name] \/ (e.item = "STATE" /\ e \in Of(Dir(r.name), "STATE"))
      BY <2>2, <3>1, <3>2 DEF Put, Of
    <3>5. \A e : Backup(e) \in ws[r.name] => Backup(e) \in ws'[r.name]
      BY <2>2, <3>2 DEF Put, Backup
    <3>6. \A e : In(e) => Kept(e)'
      BY <2>1, <2>3, <3>1, <3>3, <3>4, <3>5 DEF In, Kept
    <3>7. \A e : In(Backup(e)) => In(Backup(e))'
      BY <2>1, <3>1, <3>3, <3>5 DEF In
    <3>8. \A e : e = f => In(e)'
      BY <3>1, <3>2 DEF In, Put
    <3>9. \A e \in made' : Kept(e)'
      BY <3>2, <3>6, <3>7, <3>8 DEF Kept
    <3>10. Frame(p)
      BY <1>0, <2>1, <3>1, <3>3 DEF Frame
    <3>11. QED
      BY <2>1, <3>9, <3>10 DEF Placed
  <2>7. QED
    BY <2>4, <2>5, <2>6
<1>3. ASSUME UNCHANGED <<tree, made>>,
             proc'[p].pc \in Writing \cup Todoing \cup {"read", "repair", "idle"}
      PROVE  Goal
  <2>1. Frame(p) /\ \A e : In(e) => In(e)'
    BY <1>3 DEF Frame, In, tree
  <2>2. QED
    BY <1>3, <2>1 DEF Placed, Writing, Todoing, Kept
<1>4. CASE BeginTodo(p) \/ TodoStep(p)
  <2>1. proc'[p].pc \in Todoing \cup {"idle"} /\ UNCHANGED <<tree, made>>
    <3>1. CASE BeginTodo(p)
      BY <3>1 DEF BeginTodo, Begin, Todoing, Shape, Idle
    <3>2. CASE TodoStep(p)
      BY <1>0, <3>2 DEF TodoStep, Go, Todoing, Idle
    <3>3. QED
      BY <1>4, <3>1, <3>2
  <2>2. QED
    BY <1>3, <2>1
<1>5. QED
    BY <1>1, <1>2, <1>3, <1>4, SettingsPc

LEMMA CalmBefore == ASSUME NEW p, Honest(p), Calm' PROVE Calm
BY DEF Honest, Calm, Contested

LEMMA KeptStep ==
    Shape /\ TreeShape /\ Exclusive /\ PlacedInv /\ KeptInv /\ [Next]_vars
    => PlacedInv' /\ KeptInv'
<1> SUFFICES ASSUME Shape, TreeShape, Exclusive, PlacedInv, KeptInv, [Next]_vars, Calm'
             PROVE  (\A q \in Procs : Placed(proc[q])') /\ (\A e \in made' : Kept(e)')
    BY DEF PlacedInv, KeptInv
<1>1. ASSUME NEW p \in Procs, WorkstreamStep(p) \/ SettingsStep(p) \/ Crash(p)
      PROVE  (\A q \in Procs : Placed(proc[q])') /\ (\A e \in made' : Kept(e)')
  <2>1. Honest(p) /\ \A q \in Others(p) : proc'[q] = proc[q]
    BY <1>1, StepHonest
  <2>2. Calm /\ (\A q \in Procs : Placed(proc[q])) /\ \A e \in made : Kept(e)
    BY <2>1, CalmBefore DEF PlacedInv, KeptInv
  <2>3. Frame(p) /\ Placed(proc[p])' /\ \A e \in made' : Kept(e)'
    <3>1. CASE WorkstreamStep(p)
      BY <2>2, <3>1, WorkstreamPlaced DEF Conserved, Kept
    <3>2. CASE SettingsStep(p)
      BY <2>2, <3>2, SettingsPlaced
    <3>3. CASE Crash(p)
      <4>1. UNCHANGED <<tree, made>> /\ proc'[p].pc = "idle"
        BY <3>3 DEF Crash, Go, Shape, Idle
      <4>2. QED
        BY <2>2, <4>1 DEF Placed, Shelving, Frame, Kept, In, tree
    <3>4. QED
      BY <1>1, <3>1, <3>2, <3>3
  <2>4. \A q \in Procs : q = p \/ q \in Others(p)
    BY DEF Others
  <2>5. \A q \in Others(p) : Placed(proc[q])'
    BY <2>1, <2>2, <2>3, PlacedOthers DEF Others
  <2>6. QED
    BY <2>3, <2>4, <2>5
<1>2. CASE UNCHANGED <<tree, proc, made, excused>>
  <2>1. Calm
    BY <1>2 DEF Calm, Contested
  <2>2. (\A q \in Procs : Placed(proc[q])) /\ \A e \in made : Kept(e)
    BY <2>1 DEF PlacedInv, KeptInv
  <2>3. QED
    BY <1>2, <2>2 DEF Placed, Kept, In, Dir, tree
<1>3. QED
    BY <1>1, <1>2 DEF Next, RepoAppears, vars

-----------------------------------------------------------------------------
(* The invariant; what is kept.                                              *)

Inv == Shape /\ TreeShape /\ Exclusive /\ TodoInv /\ ConfigInv /\ PlacedInv /\ KeptInv

LEMMA InvInit == Init => Inv
<1> SUFFICES ASSUME Init PROVE Inv
    OBVIOUS
<1>1. \A p \in Procs : proc[p] = Idle
    BY DEF Init, WorkstreamInit
<1>2. Exclusive
    BY <1>1 DEF Exclusive, Idle
<1>3. PlacedInv
    BY <1>1 DEF PlacedInv, Placed, Shelving, Idle
<1>4. KeptInv
    BY DEF Init, WorkstreamInit, KeptInv, Kept, In
<1>5. QED
    BY <1>2, <1>3, <1>4, InitShape, TreeInit, TodoInit, ConfigInit DEF Inv

LEMMA InvStep == Inv /\ [Next]_vars => Inv'
<1> SUFFICES ASSUME Inv, [Next]_vars PROVE Inv'
    OBVIOUS
<1>1. Shape' /\ Exclusive' /\ TreeShape'
    BY ShapeStep, ExclusiveStep, TreeStep DEF Inv
<1>2. TodoInv' /\ ConfigInv'
    BY <1>1, TodoInvStep, ConfigInvStep DEF Inv
<1>3. PlacedInv' /\ KeptInv'
    BY KeptStep DEF Inv
<1>4. QED
    BY <1>1, <1>2, <1>3 DEF Inv

LEMMA InvHolds == Spec => []Inv
<1>1. QED
    BY InvInit, InvStep, PTL DEF Spec

LEMMA InvKeeps == Inv => NothingLost
<1> SUFFICES ASSUME Inv, Calm PROVE \A e \in made : \E dir \in AllDirs :
                 e \in dir \/ (e.item = "STATE" /\ Backup(e) \in dir)
    BY DEF NothingLost, Calm
<1>1. \A e : In(e) => \E dir \in AllDirs : e \in dir
  <2>1. TreeShape /\ None \notin Names
    BY WorkstreamsAssumption DEF Inv
  <2>2. root \in AllDirs
    BY DEF AllDirs, Dir, Places
  <2>3. \A n \in Names : ws[n] \in AllDirs
    BY <2>1 DEF AllDirs, Dir, Places
  <2>4. \A s \in Shelves : archive[s] = {} \/ archive[s] \in AllDirs
    BY <2>1 DEF AllDirs, TreeShape
  <2>5. QED
    BY <2>2, <2>3, <2>4 DEF In
<1>2. \A e \in made : Kept(e)
    BY DEF Inv, KeptInv
<1>3. QED
    BY <1>1, <1>2 DEF Kept

\* No planning file is ever lost, whatever is interleaved, whatever fails or crashes
\* (workstream.cjs:45-64, 308-324, verify.cjs:789-796), but for two commands on one
\* directory and a failure inside a rollback.
THEOREM FilesAreKept == Spec => []NothingLost
<1>1. QED
    BY InvHolds, InvKeeps, PTL

\* What config-set reported stays in config.json, whatever is loaded, migrated or repaired
\* in between (config.cjs:270-303, core.cjs:222-265, verify.cjs:762-834); planning.commit_docs
\* until multiRepo becomes a list, which sets it to false (core.cjs:238-246).
THEOREM ReportedSettingsAreKept == Spec => []SettingsKept
<1>1. Inv => SettingsKept
  <2> SUFFICES ASSUME Inv, Quiet, \A p \in Procs : proc[p].pc # "fill"
               PROVE  \A k \in Keys : acked[k] # Absent => IsJson /\ config.val[k] = acked[k]
    BY DEF SettingsKept, Quiet
  <2>1. QED
    BY DEF Inv, ConfigInv
<1>2. QED
    BY <1>1, InvHolds, PTL

\* A todo is pending or completed, at every step of todo complete and after a crash
\* (commands.cjs:715-721).
THEOREM TodosAreKept == Spec => []TodoKept
<1>1. Inv => TodoKept
    BY DEF Inv, TodoInv, TodoKept
<1>2. QED
    BY <1>1, InvHolds, PTL

-----------------------------------------------------------------------------
(* Types.                                                                    *)

Jsons == [kind : {"json"}, depth : BOOLEAN, multi : BOOLEAN, repos : 0 .. 1, workflow : BOOLEAN,
          nyquist : BOOLEAN, val : [Keys -> Values]]

\* What the record of a process holds beside what Sound says of it.
Typed(r) ==
    /\ r.pc \in Steps
    /\ r.id \in 0 .. MaxOps /\ (r.pc # "idle" => r.id # 0)
    /\ r.left \cap r.moved = {}
    /\ r.pc = "read" \/ (r.pc \in Writing /\ r.after = "read") => r.name \in Keys
    /\ r.pc \in Writing => r.buf \in Jsons

TypedInv == /\ \A p \in Procs : Typed(proc[p])
            /\ ops \in 0 .. MaxOps /\ faults \in 0 .. MaxFaults

LEMMA IdleTyped == Typed(Idle)
BY WorkstreamsAssumption DEF Typed, Idle, Steps, Writing

LEMMA BeginTyped ==
    ASSUME TypedInv, NEW p, NEW job, DOMAIN job = Fields, Begin(p, job),
           job.pc \in Steps, job.left \cap job.moved = {},
           job.pc = "read" \/ (job.pc \in Writing /\ job.after = "read") => job.name \in Keys,
           job.pc \in Writing => job.buf \in Jsons
    PROVE  ops' \in 0 .. MaxOps /\ faults' = faults /\ \E r : Go(p, r) /\ Typed(r)
<1>1. Go(p, [job EXCEPT !.id = ops'])
    BY DEF Begin, Go
<1>2. ops' \in 1 .. MaxOps /\ faults' = faults
    BY WorkstreamsAssumption DEF Begin, TypedInv
<1>3. Typed([job EXCEPT !.id = ops'])
    BY <1>2 DEF Typed, Fields
<1>4. QED
    BY <1>1, <1>2, <1>3

LEMMA FaultTyped == ASSUME TypedInv, Fault PROVE faults' \in 0 .. MaxFaults /\ faults' # faults
BY WorkstreamsAssumption DEF TypedInv, Fault

LEMMA GoTyped ==
    ASSUME Shape, TypedInv, NEW p \in Procs, NEW r, Typed(r), Go(p, r),
           ops' \in 0 .. MaxOps, faults' \in 0 .. MaxFaults
    PROVE  TypedInv'
BY DEF Shape, TypedInv, Go

\* The steps of the workstream commands.
LEMMA WorkstreamTyped ==
    ASSUME Shape, TypedInv, NEW p \in Procs, WorkstreamStep(p)
    PROVE  TypedInv'
<1> DEFINE r == proc[p]
           Goal == /\ ops' \in 0 .. MaxOps /\ faults' \in 0 .. MaxFaults
                   /\ \E s : Go(p, s) /\ Typed(s)
<1>0. Sound(r) /\ Typed(r) /\ ops \in 0 .. MaxOps /\ faults \in 0 .. MaxFaults
    BY DEF Shape, TypedInv
<1>d. DOMAIN r = Fields /\ DOMAIN Idle = Fields
    BY <1>0 DEF Sound, Idle, Fields
<1>p. Steps = {"idle", "guard", "mkdir", "move", "undo", "clean", "dirs", "state", "activate",
               "shelve", "out", "back", "rmdir", "rmroot", "trunc", "fill", "read",
               "sync", "repair", "regenerate", "todoTrunc", "todoFill", "unlink"}
    BY DEF Steps
<1>g. ASSUME Goal PROVE TypedInv'
    BY <1>g, GoTyped
<1>k. ASSUME NEW pc \in Managing \ {"idle"}, NEW s, DOMAIN s = Fields, s.pc = pc, s.id = r.id,
             r.pc # "idle", s.left \cap s.moved = {}
      PROVE  Typed(s)
    BY <1>0, <1>k DEF Typed, Managing, Creating, Completing, Writing, Steps
<1> USE DEF Fields
<1>1. ASSUME NEW n \in Names, NEW to \in Names \cup {None}, BeginCreate(p, n, to)
      PROVE  Goal
  <2>1. \E job : /\ DOMAIN job = Fields /\ job.pc \in {"guard", "dirs"} /\ Begin(p, job)
                 /\ job.left = {}
    <3> DEFINE flat == ~wsRoot /\ to # None
               job == [Idle EXCEPT !.pc = IF flat /\ HasWork THEN "guard" ELSE "dirs",
                                   !.on = IF flat /\ HasWork THEN {n, to, None} ELSE {n},
                                   !.name = n, !.to = IF flat /\ HasWork THEN to ELSE None]
    <3>1. Begin(p, job)
      BY <1>1 DEF BeginCreate
    <3>2. DOMAIN job = Fields /\ job.pc \in {"guard", "dirs"} /\ job.left = {}
      BY <1>d DEF Idle
    <3>3. QED
      BY <3>1, <3>2
  <2>2. PICK job : /\ DOMAIN job = Fields /\ job.pc \in {"guard", "dirs"} /\ Begin(p, job)
                   /\ job.left = {}
    BY <2>1
  <2>3. job.pc \in Steps /\ job.pc \notin Writing /\ job.pc # "read"
    BY <1>p, <2>2 DEF Writing
  <2>4. QED
    BY <1>0, <2>2, <2>3, BeginTyped
<1>2. ASSUME NEW n \in Names, BeginComplete(p, n)
      PROVE  Goal
  <2> DEFINE job == [Idle EXCEPT !.pc = "shelve", !.on = {n}, !.name = n,
                                 !.was = (ActiveWorkstream = n)]
  <2>1. Begin(p, job)
    BY <1>2 DEF BeginComplete
  <2>2. DOMAIN job = Fields /\ job.pc = "shelve" /\ job.left = {}
    BY <1>d DEF Idle
  <2> HIDE DEF job
  <2>3. job.pc \in Steps /\ job.pc \notin Writing /\ job.pc # "read"
    BY <1>p, <2>2 DEF Writing
  <2>4. QED
    BY <1>0, <2>1, <2>2, <2>3, BeginTyped
<1>m. ASSUME NEW s, Go(p, s), Typed(s), UNCHANGED <<ops, faults>>
      PROVE  TypedInv'
    BY <1>0, <1>g, <1>m
<1>3. CASE Guard(p)
  <2>1. UNCHANGED <<ops, faults>> /\ r.pc = "guard"
        /\ (Go(p, Idle) \/ Go(p, [r EXCEPT !.pc = "mkdir"]))
    BY <1>3 DEF Guard
  <2>2. Typed([r EXCEPT !.pc = "mkdir"])
    BY <1>0, <1>d, <1>p, <2>1 DEF Typed, Writing
  <2>3. QED
    BY <1>m, <2>1, <2>2, IdleTyped
<1>4. CASE MkdirTarget(p)
  <2> DEFINE s == [r EXCEPT !.pc = "move", !.seen = root, !.left = MoveItems]
  <2>1. UNCHANGED <<ops, faults>> /\ r.pc = "mkdir" /\ Go(p, s)
    BY <1>4 DEF MkdirTarget, MoveItems
  <2>2. r.moved = {}
    BY <1>0, <2>1 DEF Sound
  <2>3. Typed(s)
    BY <1>0, <1>d, <1>p, <2>1, <2>2 DEF Typed, Writing
  <2> HIDE DEF s
  <2>4. QED
    BY <1>m, <2>1, <2>3
<1>5. CASE Move(p)
  <2> DEFINE i == First(r.left)
             s == [r EXCEPT !.left = @ \ {i}, !.moved = IF Has(root, i) THEN @ \cup {i} ELSE @,
                            !.pc = IF r.left = {i} THEN "dirs" ELSE "move"]
  <2>1. UNCHANGED <<ops, faults>> /\ r.pc = "move" /\ Go(p, s)
    BY <1>5 DEF Move
  <2> HIDE DEF i
  <2>2. Typed(s)
    BY <1>0, <1>d, <1>p, <2>1 DEF Typed, Writing
  <2> HIDE DEF s
  <2>3. QED
    BY <1>m, <2>1, <2>2
<1>6. CASE MoveFails(p)
  <2>1. Go(p, [r EXCEPT !.pc = "undo"]) /\ r.pc = "move" /\ UNCHANGED ops
        /\ faults' \in 0 .. MaxFaults
    BY <1>0, <1>6, FaultTyped DEF MoveFails
  <2>2. Typed([r EXCEPT !.pc = "undo"])
    BY <1>0, <1>d, <1>p, <2>1 DEF Typed, Writing
  <2>3. QED
    BY <1>0, <1>g, <2>1, <2>2
<1>7. CASE Undo(p)
  <2> DEFINE s(i) == [r EXCEPT !.moved = @ \ {i}]
  <2>1. UNCHANGED <<ops, faults>> /\ r.pc = "undo" /\ \E i : Go(p, s(i))
    BY <1>7 DEF Undo
  <2>2. \A i : Typed(s(i))
    BY <1>0, <1>d, <1>p, <2>1 DEF Typed, Writing
  <2> HIDE DEF s
  <2>3. QED
    BY <1>m, <2>1, <2>2
<1>8. CASE PassOver(p)
  <2> DEFINE s(i) == [r EXCEPT !.moved = @ \ {i}]
  <2>1. UNCHANGED ops /\ r.pc \in {"undo", "back"} /\ \E i : Go(p, s(i))
    BY <1>8 DEF PassOver
  <2>2. \A i : Typed(s(i))
    BY <1>0, <1>d, <1>p, <2>1 DEF Typed, Writing
  <2>3. faults' \in 0 .. MaxFaults
    BY <1>8, FaultTyped DEF PassOver
  <2> HIDE DEF s
  <2>4. QED
    BY <1>0, <1>g, <2>1, <2>2, <2>3
<1>9. CASE Clean(p)
  <2>1. UNCHANGED <<ops, faults>> /\ r.pc = "undo" /\ Go(p, [r EXCEPT !.pc = "clean"])
    BY <1>9 DEF Clean
  <2>2. Typed([r EXCEPT !.pc = "clean"])
    BY <1>0, <1>d, <1>p, <2>1 DEF Typed, Writing
  <2>3. QED
    BY <1>m, <2>1, <2>2
<1>r. CASE RemovalFails(p)
  <2>1. /\ UNCHANGED ops /\ faults' \in 0 .. MaxFaults
        /\ \/ r.pc = "undo" /\ Go(p, [r EXCEPT !.pc = "clean"])
           \/ r.pc = "rmdir" /\ Go(p, [r EXCEPT !.pc = "rmroot"])
           \/ Go(p, Idle)
    BY <1>0, <1>r, FaultTyped, RemovalIs DEF RemovalFails
  <2>2. /\ r.pc = "undo" => Typed([r EXCEPT !.pc = "clean"])
        /\ r.pc = "rmdir" => Typed([r EXCEPT !.pc = "rmroot"])
    BY <1>0, <1>d, <1>p DEF Typed, Writing
  <2>3. QED
    BY <1>0, <1>g, <2>1, <2>2, IdleTyped
<1>10. CASE MakeDirs(p)
  <2>1. UNCHANGED <<ops, faults>> /\ r.pc = "dirs" /\ Go(p, [r EXCEPT !.pc = "state"])
    BY <1>10 DEF MakeDirs
  <2>2. Typed([r EXCEPT !.pc = "state"])
    BY <1>0, <1>d, <1>p, <2>1 DEF Typed, Writing
  <2>3. QED
    BY <1>m, <2>1, <2>2
<1>11. CASE WriteState(p)
  <2>1. UNCHANGED <<ops, faults>> /\ r.pc = "state"
        /\ (Go(p, [r EXCEPT !.pc = "activate"]) \/ Go(p, Idle))
    BY <1>11 DEF WriteState
  <2>2. Typed([r EXCEPT !.pc = "activate"])
    BY <1>0, <1>d, <1>p, <2>1 DEF Typed, Writing
  <2>3. QED
    BY <1>m, <2>1, <2>2, IdleTyped
<1>12. CASE Activate(p)
    BY <1>m, <1>12, IdleTyped DEF Activate
<1>13. CASE MakeShelf(p)
  <2> DEFINE is == ItemsOf(ws[r.name])
             s(k) == [r EXCEPT !.shelf = k, !.seen = ws[r.name], !.left = is,
                               !.pc = IF ws[r.name] = {} THEN "rmdir" ELSE "out"]
  <2>1. UNCHANGED <<ops, faults>> /\ r.pc = "shelve" /\ \E k : Go(p, s(k))
    BY <1>13 DEF MakeShelf
  <2>2. r.moved = {}
    BY <1>0, <2>1 DEF Sound
  <2> HIDE DEF is
  <2>3. \A k : Typed(s(k))
    BY <1>0, <1>d, <1>p, <2>1, <2>2 DEF Typed, Writing
  <2> HIDE DEF s
  <2>4. QED
    BY <1>m, <2>1, <2>3
<1>14. CASE Out(p)
  <2> DEFINE s(i) == [r EXCEPT !.left = @ \ {i}, !.moved = @ \cup {i},
                               !.pc = IF r.left = {i} THEN "rmdir" ELSE "out"]
  <2>1. UNCHANGED <<ops, faults>> /\ r.pc = "out" /\ \E i : Go(p, s(i))
    BY <1>14 DEF Out
  <2>2. \A i : Typed(s(i))
    BY <1>0, <1>d, <1>p, <2>1 DEF Typed, Writing
  <2> HIDE DEF s
  <2>3. QED
    BY <1>m, <2>1, <2>2
<1>15. CASE OutFails(p)
  <2>1. Go(p, [r EXCEPT !.pc = "back"]) /\ r.pc = "out" /\ UNCHANGED ops
        /\ faults' \in 0 .. MaxFaults
    BY <1>0, <1>15, FaultTyped DEF OutFails
  <2>2. Typed([r EXCEPT !.pc = "back"])
    BY <1>0, <1>d, <1>p, <2>1 DEF Typed, Writing
  <2>3. QED
    BY <1>0, <1>g, <2>1, <2>2
<1>16. CASE Back(p)
  <2> DEFINE s(i) == [r EXCEPT !.moved = @ \ {i}]
  <2>1. UNCHANGED <<ops, faults>> /\ r.pc = "back" /\ \E i : Go(p, s(i))
    BY <1>16 DEF Back
  <2>2. \A i : Typed(s(i))
    BY <1>0, <1>d, <1>p, <2>1 DEF Typed, Writing
  <2> HIDE DEF s
  <2>3. QED
    BY <1>m, <2>1, <2>2
<1>17. CASE DropShelf(p)
    BY <1>m, <1>17, IdleTyped DEF DropShelf
<1>18. CASE Rmdir(p)
  <2>1. UNCHANGED <<ops, faults>> /\ r.pc = "rmdir" /\ Go(p, [r EXCEPT !.pc = "rmroot"])
    BY <1>18 DEF Rmdir
  <2>2. Typed([r EXCEPT !.pc = "rmroot"])
    BY <1>0, <1>d, <1>p, <2>1 DEF Typed, Writing
  <2>3. QED
    BY <1>m, <2>1, <2>2
<1>19. CASE RmRoot(p)
    BY <1>m, <1>19, IdleTyped DEF RmRoot
<1>20. ASSUME NEW n, SetActive(p, n)
       PROVE  TypedInv'
    BY <1>20, WorkstreamsAssumption DEF SetActive, TypedInv
<1>21. QED
    BY <1>g, <1>1, <1>2, <1>3, <1>4, <1>5, <1>6, <1>7, <1>8, <1>9, <1>10, <1>11, <1>12, <1>13,
       <1>14, <1>15, <1>16, <1>17, <1>18, <1>19, <1>20, <1>r DEF WorkstreamStep

StoreOK == /\ config \in {Missing, Torn} \cup Jsons /\ repos \in 0 .. 1
           /\ acked \in [Keys -> Values]
           /\ pending \in BOOLEAN /\ done \in {"none", "torn", "whole"}

LEMMA JsonsTyped ==
    /\ Defaults \in Jsons /\ Empty \in Jsons
    /\ \A c \in Jsons, k \in Keys, v \in 0 .. MaxOps : WithKey(c, k, v) \in Jsons
    /\ \A c \in Jsons : /\ [c EXCEPT !.depth = FALSE] \in Jsons
                        /\ [c EXCEPT !.workflow = TRUE, !.nyquist = TRUE] \in Jsons
<1>1. Absent \in Values /\ 0 \in Values /\ \A v \in 0 .. MaxOps : v \in Values
    BY WorkstreamsAssumption DEF Values, Absent
<1>2. Defaults \in Jsons /\ Empty \in Jsons
    BY <1>1 DEF Defaults, Empty, Json, Jsons
<1>3. ASSUME NEW c \in Jsons, NEW k \in Keys, NEW v \in 0 .. MaxOps
      PROVE  WithKey(c, k, v) \in Jsons
    BY <1>1 DEF WithKey, Jsons
<1>4. ASSUME NEW c \in Jsons
      PROVE  /\ [c EXCEPT !.depth = FALSE] \in Jsons
             /\ [c EXCEPT !.workflow = TRUE, !.nyquist = TRUE] \in Jsons
    BY DEF Jsons
<1>5. QED
    BY <1>2, <1>3, <1>4

LEMMA UpToDateTyped ==
    ASSUME NEW c \in Jsons, repos \in 0 .. 1
    PROVE  UpToDate(c) \in Jsons
<1>1. 0 \in Values /\ CommitDocs \in Keys
    BY WorkstreamsAssumption, SettingsAssumption DEF Values, Absent
<1>2. c.val \in [Keys -> Values]
    BY DEF Jsons
<1>3. [c.val EXCEPT ![CommitDocs] = 0] \in [Keys -> Values]
    BY <1>1, <1>2
<1>4. [c EXCEPT !.multi = FALSE, !.repos = 1, !.val[CommitDocs] = 0] \in Jsons
  <2> DEFINE v == [c.val EXCEPT ![CommitDocs] = 0]
             b == [c EXCEPT !.multi = FALSE, !.repos = 1]
             d == [b EXCEPT !.val = v]
  <2>1. v \in [Keys -> Values]
    BY <1>3
  <2>2. [c EXCEPT !.multi = FALSE, !.repos = 1, !.val[CommitDocs] = 0] = d
    BY DEF Jsons
  <2>a. [c EXCEPT !.repos = 1] \in Jsons
    BY DEF Jsons
  <2>b. b \in Jsons
    BY <2>a DEF Jsons
  <2> HIDE DEF b, v
  <2>3. d \in Jsons
    BY <2>1, <2>b DEF Jsons
  <2>4. QED
    BY <2>2, <2>3
<1>5. [c EXCEPT !.repos = repos] \in Jsons
    BY DEF Jsons
<1>6. QED
    BY <1>4, <1>5 DEF UpToDate

LEMMA ToWriteTyped ==
    ASSUME NEW r, DOMAIN r = Fields, NEW c \in Jsons, NEW after
    PROVE  LET w == ToWrite(r, c, after)
           IN  /\ DOMAIN w = Fields /\ w.pc = "trunc" /\ w.after = after /\ w.buf = c
               /\ w.id = r.id /\ w.name = r.name /\ w.left = r.left /\ w.moved = r.moved
               /\ w.seen = r.seen
BY DEF ToWrite, Fields

LEMMA Rewritten ==
    ASSUME NEW r, DOMAIN r = Fields, NEW c \in Jsons, NEW after,
           r.id \in 1 .. MaxOps, r.left \cap r.moved = {}, after = "read" => r.name \in Keys
    PROVE  Typed(ToWrite(r, c, after))
<1> DEFINE w == ToWrite(r, c, after)
<1>1. /\ w.pc = "trunc" /\ w.after = after /\ w.buf = c
      /\ w.id = r.id /\ w.name = r.name /\ w.left = r.left /\ w.moved = r.moved
    BY ToWriteTyped
<1> HIDE DEF w
<1>2. Typed(w)
    BY <1>1 DEF Typed, Steps, Writing
<1>3. QED
    BY <1>2 DEF w

\* The steps on the settings and the todos.
LEMMA SettingsTyped ==
    ASSUME Shape, TypedInv, StoreOK, NEW p \in Procs, SettingsStep(p)
    PROVE  TypedInv'
<1> DEFINE r == proc[p]
<1>0. Sound(r) /\ Typed(r) /\ ops \in 0 .. MaxOps /\ faults \in 0 .. MaxFaults
    BY DEF Shape, TypedInv
<1>d. /\ DOMAIN r = Fields /\ DOMAIN Idle = Fields
      /\ Idle.left = {} /\ Idle.moved = {} /\ Idle.id = 0
    BY <1>0 DEF Sound, Idle, Fields
<1>p. {"idle", "trunc", "fill", "read", "sync", "repair", "regenerate",
       "todoTrunc", "todoFill", "unlink"} \subseteq Steps
    BY DEF Steps
<1>i. r.pc # "idle" => r.id \in 1 .. MaxOps
    BY <1>0 DEF Typed
<1>m. ASSUME NEW s, Go(p, s), Typed(s), UNCHANGED <<ops, faults>>
      PROVE  TypedInv'
    BY <1>0, <1>m, GoTyped
<1>b. ASSUME NEW job, DOMAIN job = Fields, Begin(p, job),
             job.pc \in Steps, job.left \cap job.moved = {},
             job.pc = "read" \/ (job.pc \in Writing /\ job.after = "read") => job.name \in Keys,
             job.pc \in Writing => job.buf \in Jsons
      PROVE  TypedInv'
    BY <1>0, <1>b, BeginTyped, GoTyped
<1>w. ASSUME NEW job, DOMAIN job = Fields, NEW c \in Jsons, NEW after,
             job.left \cap job.moved = {}, after = "read" => job.name \in Keys,
             Begin(p, ToWrite(job, c, after))
      PROVE  TypedInv'
  <2> DEFINE w == ToWrite(job, c, after)
  <2>1. /\ DOMAIN w = Fields /\ w.pc = "trunc" /\ w.after = after /\ w.buf = c
        /\ w.name = job.name /\ w.left = job.left /\ w.moved = job.moved
    BY <1>w, ToWriteTyped
  <2> HIDE DEF w
  <2>2. Begin(p, w) /\ w.pc \in Steps
    BY <1>w, <1>p, <2>1 DEF w
  <2>3. QED
    BY <1>w, <1>b, <2>1, <2>2
<1>j. JsonShape(config) => config \in Jsons
    BY DEF StoreOK, JsonShape, Missing, NoBuffer, Torn
<1> USE DEF Fields
<1>1. CASE Truncate(p)
  <2>1. UNCHANGED <<ops, faults>> /\ r.pc = "trunc" /\ Go(p, [r EXCEPT !.pc = "fill"])
    BY <1>1 DEF Truncate
  <2>2. Typed([r EXCEPT !.pc = "fill"])
    BY <1>0, <1>d, <1>p, <2>1 DEF Typed, Writing
  <2>3. QED
    BY <1>m, <2>1, <2>2
<1>2. CASE Fill(p)
  <2>1. UNCHANGED <<ops, faults>> /\ r.pc = "fill"
        /\ Go(p, IF r.after = "idle" THEN Idle ELSE Written(r))
    BY <1>2 DEF Fill
  <2>2. r.after # "idle" => Typed(Written(r))
    <3>1. r.after \in {"idle", "sync", "read", "repair"}
      BY <1>0, <2>1 DEF Sound, Writing
    <3>2. CASE r.after = "sync"
      BY <1>0, <1>d, <1>p, <1>i, <2>1, <3>2 DEF Typed, Writing, Written
    <3>3. CASE r.after \in {"read", "repair"}
      BY <1>0, <1>d, <1>p, <1>i, <2>1, <3>3 DEF Typed, Writing, Written
    <3>4. QED
      BY <3>1, <3>2, <3>3
  <2>3. QED
    BY <1>m, <2>1, <2>2, IdleTyped
<1>3. CASE NewProject(p)
  <2>1. \E c \in Jsons : Begin(p, ToWrite(Idle, c, "idle"))
    <3>0. ops < MaxOps => ops + 1 \in 0 .. MaxOps
      BY <1>0, WorkstreamsAssumption
    <3>1. \A k \in Keys : ops < MaxOps => WithKey(Defaults, k, ops + 1) \in Jsons
      BY <3>0, JsonsTyped
    <3>2. \A c : EnsureConfig(p, c) => ops < MaxOps
      BY DEF EnsureConfig, Begin
    <3>3. QED
      BY <1>3, <3>1, <3>2, JsonsTyped DEF NewProject, EnsureConfig
  <2>2. QED
    BY <1>d, <1>w, <2>1
<1>4. CASE SetValue(p)
  <2> DEFINE c == IF config = Missing THEN Empty ELSE config
             s == ToWrite(r, WithKey(c, r.name, r.id), "idle")
  <2>1. r.pc = "read" /\ UNCHANGED <<ops, faults>>
        /\ (Go(p, Idle) \/ (config # Torn /\ Go(p, s)))
    BY <1>4 DEF SetValue, Continue
  <2>2. config # Torn => c \in Jsons
    BY JsonsTyped DEF StoreOK
  <2>3. r.name \in Keys /\ r.id \in 0 .. MaxOps /\ r.id \in 1 .. MaxOps
    BY <1>0, <1>i, <2>1 DEF Typed
  <2> HIDE DEF c
  <2>4. config # Torn => WithKey(c, r.name, r.id) \in Jsons
    BY <2>2, <2>3, JsonsTyped
  <2>5. config # Torn => Typed(s)
    BY <1>0, <1>d, <2>3, <2>4, Rewritten DEF Typed
  <2> HIDE DEF s
  <2>6. QED
    BY <1>m, <2>1, <2>5, IdleTyped
<1>5. CASE LoadConfig(p)
  <2>1. \E c \in Jsons, after \in {"sync", "idle"} : Begin(p, ToWrite(Idle, c, after))
    <3>1. config \in Jsons /\ repos \in 0 .. 1
      BY <1>5 DEF LoadConfig, IsJson, StoreOK, Missing, NoBuffer, Torn
    <3>2. QED
      BY <1>5, <3>1, JsonsTyped, UpToDateTyped DEF LoadConfig
  <2>2. QED
    BY <1>d, <1>w, <2>1
<1>6. CASE SyncRepos(p)
  <2> DEFINE c == UpToDate(r.buf)
             s == ToWrite(r, c, "idle")
  <2>1. r.pc = "sync" /\ (Go(p, s) \/ Go(p, Idle)) /\ UNCHANGED <<ops, faults>>
    BY <1>6 DEF SyncRepos
  <2>2. c \in Jsons
    BY <1>0, <2>1, UpToDateTyped DEF Typed, Writing, StoreOK
  <2> HIDE DEF c
  <2>3. Typed(s)
    BY <1>0, <1>d, <1>i, <2>1, <2>2, Rewritten DEF Typed
  <2> HIDE DEF s
  <2>4. QED
    BY <1>m, <2>1, <2>3, IdleTyped
<1>7. ASSUME NEW k \in Keys, NEW ensure \in BOOLEAN, BeginSet(p, k, ensure)
      PROVE  TypedInv'
  <2> DEFINE job == [Idle EXCEPT !.name = k, !.pc = "read"]
  <2>1. Begin(p, ToWrite(job, Defaults, "read")) \/ Begin(p, job)
    BY <1>7 DEF BeginSet
  <2>2. DOMAIN job = Fields /\ job.pc = "read" /\ job.left \cap job.moved = {} /\ job.name = k
    BY <1>d
  <2> HIDE DEF job
  <2>3. QED
    BY <1>b, <1>p, <1>w, <2>1, <2>2, JsonsTyped DEF Writing
<1>8. ASSUME NEW n \in Names \cup {None}, BeginHealth(p, n)
      PROVE  TypedInv'
  <2> DEFINE left == Repairable(n)
             on == {n} \cup IF left \subseteq {"regenerateState"} THEN {} ELSE {"config"}
             job == [Idle EXCEPT !.pc = "repair", !.name = n, !.left = left, !.seen = left,
                                 !.on = on]
  <2>1. Begin(p, job)
    BY <1>8 DEF BeginHealth
  <2> HIDE DEF left, on
  <2>2. DOMAIN job = Fields /\ job.pc = "repair" /\ job.left \cap job.moved = {}
    BY <1>d
  <2> HIDE DEF job
  <2>3. QED
    BY <1>b, <1>p, <2>1, <2>2 DEF Writing
<1>9. CASE BackupState(p)
  <2> DEFINE s == [Repaired(r, "regenerateState") EXCEPT !.pc = "regenerate"]
  <2>1. r.pc = "repair" /\ Go(p, s) /\ UNCHANGED <<ops, faults>>
    BY <1>9 DEF BackupState
  <2>2. Typed(s)
    BY <1>0, <1>d, <1>p, <1>i, <2>1 DEF Typed, Writing, Repaired
  <2> HIDE DEF s
  <2>3. QED
    BY <1>m, <2>1, <2>2
<1>10. CASE RegenerateState(p)
  <2> DEFINE s == [r EXCEPT !.pc = "repair"]
  <2>1. r.pc = "regenerate" /\ Go(p, s) /\ UNCHANGED <<ops, faults>>
    BY <1>10 DEF RegenerateState
  <2>2. Typed(s)
    BY <1>0, <1>d, <1>p, <1>i, <2>1 DEF Typed, Writing
  <2> HIDE DEF s
  <2>3. QED
    BY <1>m, <2>1, <2>2
<1>11. CASE ResetConfig(p)
  <2> DEFINE j == Repaired(r, "writeConfig")
  <2>1. r.pc = "repair" /\ Go(p, ToWrite(j, Defaults, "repair")) /\ UNCHANGED <<ops, faults>>
    BY <1>11 DEF ResetConfig, Continue
  <2>2. DOMAIN j = Fields /\ j.id \in 1 .. MaxOps /\ j.left \cap j.moved = {}
    BY <1>0, <1>d, <1>i, <2>1 DEF Repaired, Typed
  <2> HIDE DEF j
  <2>3. Typed(ToWrite(j, Defaults, "repair"))
    BY <2>2, Rewritten, JsonsTyped
  <2>4. QED
    BY <1>m, <2>1, <2>3
<1>12. CASE AddNyquistKey(p)
  <2> DEFINE j == Repaired(r, "addNyquistKey")
             c == [config EXCEPT !.workflow = TRUE, !.nyquist = TRUE]
  <2>1. /\ r.pc = "repair" /\ UNCHANGED <<ops, faults>>
        /\ Go(p, j) \/ (IsJson /\ Go(p, ToWrite(j, c, "repair")))
    BY <1>12 DEF AddNyquistKey, Continue
  <2>2. /\ DOMAIN j = Fields /\ j.id \in 1 .. MaxOps /\ j.left \cap j.moved = {}
        /\ j.pc = "repair"
    BY <1>0, <1>d, <1>i, <2>1 DEF Repaired, Typed
  <2>a. IsJson => config \in Jsons
    BY DEF StoreOK, IsJson, Missing, NoBuffer, Torn
  <2>3. IsJson => c \in Jsons
    BY <2>a, JsonsTyped
  <2> HIDE DEF j, c
  <2>4. IsJson => Typed(ToWrite(j, c, "repair"))
    BY <2>2, <2>3, Rewritten
  <2>5. Typed(j)
    BY <1>p, <2>2 DEF Typed, Writing
  <2>6. QED
    BY <1>m, <2>1, <2>4, <2>5
<1>13. CASE EndHealth(p)
    BY <1>m, <1>13, IdleTyped DEF EndHealth
<1>14. CASE BeginTodo(p)
  <2> DEFINE job == [Idle EXCEPT !.pc = "todoTrunc", !.on = {"todo"}]
  <2>1. Begin(p, job)
    BY <1>14 DEF BeginTodo
  <2>2. DOMAIN job = Fields /\ job.pc = "todoTrunc" /\ job.left \cap job.moved = {}
    BY <1>d
  <2> HIDE DEF job
  <2>3. QED
    BY <1>b, <1>p, <2>1, <2>2 DEF Writing
<1>15. CASE TodoStep(p)
  <2>1. /\ UNCHANGED <<ops, faults>> /\ r.pc \in {"todoTrunc", "todoFill", "unlink"}
        /\ Go(p, Idle) \/ \E pc \in {"todoFill", "unlink"} : Go(p, [r EXCEPT !.pc = pc])
    BY <1>15 DEF TodoStep
  <2>2. \A pc \in {"todoFill", "unlink"} : Typed([r EXCEPT !.pc = pc])
    BY <1>0, <1>d, <1>p, <2>1 DEF Typed, Writing
  <2>3. QED
    BY <1>m, <2>1, <2>2, IdleTyped
<1>16. QED
    BY <1>1, <1>2, <1>3, <1>4, <1>5, <1>6, <1>7, <1>8, <1>9, <1>10, <1>11, <1>12, <1>13,
       <1>14, <1>15 DEF SettingsStep

LEMMA StoreStep == Shape /\ TypedInv /\ StoreOK /\ [Next]_vars => StoreOK'
<1> SUFFICES ASSUME Shape, TypedInv, StoreOK, [Next]_vars PROVE StoreOK'
    OBVIOUS
<1>1. ASSUME NEW p \in Procs, SettingsStep(p)
      PROVE  StoreOK'
  <2>1. CASE Truncate(p)
    BY <2>1 DEF Truncate, StoreOK
  <2>2. CASE Fill(p)
    <3>1. proc[p].buf \in Jsons /\ proc[p].id \in Values
      BY <2>2, WorkstreamsAssumption DEF Fill, TypedInv, Typed, Writing, Values, Absent
    <3>2. acked' \in [Keys -> Values]
      BY <2>2, <3>1 DEF Fill, StoreOK
    <3>3. config' \in {Torn} \cup Jsons
      BY <2>2, <3>1 DEF Fill
    <3>4. QED
      BY <2>2, <3>2, <3>3 DEF Fill, StoreOK
  <2>3. CASE TodoStep(p)
    BY <2>3 DEF TodoStep, StoreOK
  <2>4. CASE UNCHANGED store
    BY <2>4 DEF StoreOK, store
  <2>l. CASE LoadConfig(p) \/ SyncRepos(p)
    <3>1. UNCHANGED <<config, repos, pending, done>> /\ \E c : Forget(c) \/ acked' = acked
      BY <2>l DEF LoadConfig, SyncRepos
    <3>2. acked' \in [Keys -> Values]
      BY <3>1, WorkstreamsAssumption DEF Forget, StoreOK, Values, Absent
    <3>3. QED
      BY <3>1, <3>2 DEF StoreOK
  <2>5. QED
    BY <1>1, <2>1, <2>2, <2>3, <2>4, <2>l DEF SettingsStep, NewProject, EnsureConfig, SetValue,
       BeginSet, BeginHealth, BackupState, RegenerateState, ResetConfig, AddNyquistKey,
       EndHealth, BeginTodo
<1>2. CASE UNCHANGED store
    BY <1>2 DEF StoreOK, store
<1>3. CASE RepoAppears
    BY <1>3 DEF RepoAppears, StoreOK
<1>4. QED
    BY <1>1, <1>2, <1>3 DEF Next, Crash, vars

LEMMA TypedStep == Shape /\ TypedInv /\ StoreOK /\ [Next]_vars => TypedInv'
<1> SUFFICES ASSUME Shape, TypedInv, StoreOK, [Next]_vars PROVE TypedInv'
    OBVIOUS
<1>1. ASSUME NEW p \in Procs, Crash(p)
      PROVE  TypedInv'
  <2>1. Go(p, Idle) /\ ops' = ops /\ faults' \in 0 .. MaxFaults
    BY <1>1, FaultTyped DEF Crash
  <2>2. ops' \in 0 .. MaxOps
    BY <2>1 DEF TypedInv
  <2>3. QED
    BY <2>1, <2>2, IdleTyped, GoTyped
<1>2. CASE RepoAppears
    BY <1>2, FaultTyped DEF RepoAppears, TypedInv
<1>3. CASE UNCHANGED vars
    BY <1>3 DEF vars, TypedInv
<1>4. QED
    BY <1>1, <1>2, <1>3, WorkstreamTyped, SettingsTyped DEF Next

\* No two entries of one name, but for the copies of STATE.md.
Single(dir) == \A e, f \in dir : e.item = f.item /\ e.item # "BACKUP" => e = f
DirOK(dir) == dir \subseteq Entries /\ Single(dir)

DirsOK ==
    /\ DirOK(root)
    /\ ws \in [Names -> SUBSET Entries] /\ \A n \in Names : DirOK(ws[n])
    /\ archive \in [Shelves -> SUBSET Entries] /\ \A s \in Shelves : DirOK(archive[s])
    /\ live \subseteq Names /\ shelves \subseteq Shelves /\ wsRoot \in BOOLEAN
    /\ active \in Places /\ made \subseteq Entries

LEMMA DirOps ==
    ASSUME NEW dir, DirOK(dir)
    PROVE  /\ \A i : DirOK(Of(dir, i))
           /\ \A es : DirOK(es) => DirOK(Put(dir, es))
           /\ \A es : DirOK(dir \ es)
           /\ \A e \in Entries : e.item = "BACKUP" \/ ~Has(dir, e.item) => DirOK(dir \cup {e})
           /\ \A es : es \subseteq Entries /\ (\A e \in es : e.item = "BACKUP") => DirOK(dir \cup es)
<1>1. \A i : DirOK(Of(dir, i))
    BY DEF DirOK, Single, Of
<1>2. ASSUME NEW es, DirOK(es) PROVE DirOK(Put(dir, es))
    BY <1>2 DEF DirOK, Single, Put
<1>3. \A es : DirOK(dir \ es)
    BY DEF DirOK, Single
<1>4. ASSUME NEW e \in Entries, e.item = "BACKUP" \/ ~Has(dir, e.item)
      PROVE  DirOK(dir \cup {e})
    BY <1>4 DEF DirOK, Single, Has, Of
<1>5. ASSUME NEW es, es \subseteq Entries, \A e \in es : e.item = "BACKUP"
      PROVE  DirOK(dir \cup es)
    BY <1>5 DEF DirOK, Single
<1>6. QED
    BY <1>1, <1>2, <1>3, <1>4, <1>5

\* One entry of a directory is set.
LEMMA DirSet ==
    ASSUME NEW S, NEW f \in [S -> SUBSET Entries], \A n \in S : DirOK(f[n]),
           NEW x \in S, NEW d, DirOK(d)
    PROVE  LET g == [f EXCEPT ![x] = d]
           IN  g \in [S -> SUBSET Entries] /\ \A n \in S : DirOK(g[n])
BY DEF DirOK

LEMMA NewEntry ==
    ASSUME NEW r, Typed(r), r.pc # "idle", NEW i \in {"STATE", "phases"}
    PROVE  [item |-> i, by |-> r.id] \in Entries
BY DEF Typed, Entries, Items, ToMove

LEMMA WorkstreamDirs ==
    ASSUME Shape, TreeShape, TypedInv, DirsOK, NEW p \in Procs, WorkstreamStep(p)
    PROVE  DirsOK'
<1> DEFINE r == proc[p]
<1>0. Sound(r) /\ Typed(r) /\ None \notin Names
    BY WorkstreamsAssumption DEF Shape, TypedInv
<1>1. ASSUME NEW n \in Names, NEW to \in Names \cup {None}, BeginCreate(p, n, to)
      PROVE  DirsOK'
    BY <1>1 DEF BeginCreate, DirsOK
<1>2. ASSUME NEW n \in Names, BeginComplete(p, n)
      PROVE  DirsOK'
    BY <1>2 DEF BeginComplete, DirsOK, Places
<1>3. CASE UNCHANGED <<tree, made>>
    BY <1>3 DEF tree, DirsOK
<1>4. CASE MkdirTarget(p)
  <2>1. r.to \in Names
    BY <1>0, <1>4 DEF MkdirTarget, Sound, Migrating
  <2>2. QED
    BY <1>4, <2>1 DEF MkdirTarget, DirsOK
<1>5. CASE Move(p)
  <2> DEFINE es == Of(root, First(r.left))
             d == Put(ws[r.to], es)
  <2>1. /\ r.to \in Names /\ root' = root \ es /\ ws' = [ws EXCEPT ![r.to] = d]
        /\ UNCHANGED <<live, wsRoot, archive, shelves, active, made>>
    BY <1>0, <1>5 DEF Move, Sound, Migrating, DirsOK
  <2>2. DirOK(root \ es) /\ DirOK(d)
    BY <2>1, DirOps DEF DirsOK
  <2> HIDE DEF es, d
  <2>3. ws' \in [Names -> SUBSET Entries] /\ \A n \in Names : DirOK(ws'[n])
    BY <2>1, <2>2, DirSet DEF DirsOK
  <2>4. QED
    BY <2>1, <2>2, <2>3 DEF DirsOK
<1>6. CASE Undo(p)
  <2> DEFINE es == Of(ws[r.to], First(r.moved))
             d == ws[r.to] \ es
             c == Put(root, es)
  <2>1. /\ r.to \in Names /\ root' = c /\ ws' = [ws EXCEPT ![r.to] = d]
        /\ UNCHANGED <<live, wsRoot, archive, shelves, active, made>>
    BY <1>0, <1>6 DEF Undo, Sound, Migrating, DirsOK
  <2>2. DirOK(c) /\ DirOK(d)
    BY <2>1, DirOps DEF DirsOK
  <2> HIDE DEF d, c
  <2>3. ws' \in [Names -> SUBSET Entries] /\ \A n \in Names : DirOK(ws'[n])
    BY <2>1, <2>2, DirSet DEF DirsOK
  <2>4. QED
    BY <2>1, <2>2, <2>3 DEF DirsOK
<1>e. DirOK({})
    BY DEF DirOK, Single
<1>7. CASE Clean(p)
  <2>1. /\ r.to \in Names /\ ws' = [ws EXCEPT ![r.to] = {}] /\ live' = live \ {r.to}
        /\ UNCHANGED <<root, wsRoot, archive, shelves, active, made>>
    BY <1>0, <1>7 DEF Clean, Sound, Migrating
  <2>2. ws' \in [Names -> SUBSET Entries] /\ \A n \in Names : DirOK(ws'[n])
    BY <1>e, <2>1, DirSet DEF DirsOK
  <2>3. QED
    BY <2>1, <2>2 DEF DirsOK
<1>8. CASE MakeDirs(p)
  <2> DEFINE e == [item |-> "phases", by |-> r.id]
             d == ws[r.name] \cup {e}
  <2>1. /\ r.name \in Names /\ wsRoot' = TRUE /\ live' = live \cup {r.name}
        /\ UNCHANGED <<root, archive, shelves, active, made>> /\ r.pc = "dirs"
        /\ \/ ws' = ws
           \/ ~Has(ws[r.name], "phases") /\ ws' = [ws EXCEPT ![r.name] = d]
    BY <1>0, <1>8 DEF MakeDirs, Sound, Creating, DirsOK
  <2>2. e \in Entries /\ e.item = "phases"
    BY <1>0, <2>1, NewEntry
  <2> HIDE DEF e
  <2>3. ~Has(ws[r.name], "phases") => DirOK(d)
    BY <2>1, <2>2, DirOps DEF DirsOK
  <2> HIDE DEF d
  <2>4. ws' \in [Names -> SUBSET Entries] /\ \A n \in Names : DirOK(ws'[n])
    <3>1. CASE ws' = ws
      BY <3>1 DEF DirsOK
    <3>2. CASE ~Has(ws[r.name], "phases") /\ ws' = [ws EXCEPT ![r.name] = d]
      BY <2>1, <2>3, <3>2, DirSet DEF DirsOK
    <3>3. QED
      BY <2>1, <3>1, <3>2
  <2>5. QED
    BY <2>1, <2>4 DEF DirsOK
<1>9. CASE WriteState(p)
  <2> DEFINE e == [item |-> "STATE", by |-> r.id]
             d == ws[r.name] \cup {e}
  <2>1. /\ r.name \in Names
        /\ UNCHANGED <<root, live, wsRoot, archive, shelves, active>> /\ r.pc = "state"
        /\ made' = made \/ made' = made \cup {e}
        /\ \/ ws' = ws
           \/ ~Has(ws[r.name], "STATE") /\ ws' = [ws EXCEPT ![r.name] = d]
    BY <1>0, <1>9 DEF WriteState, Sound, Creating, DirsOK
  <2>2. e \in Entries /\ e.item = "STATE"
    BY <1>0, <2>1, NewEntry
  <2> HIDE DEF e
  <2>3. ~Has(ws[r.name], "STATE") => DirOK(d)
    BY <2>1, <2>2, DirOps DEF DirsOK
  <2> HIDE DEF d
  <2>4. ws' \in [Names -> SUBSET Entries] /\ \A n \in Names : DirOK(ws'[n])
    <3>1. CASE ws' = ws
      BY <3>1 DEF DirsOK
    <3>2. CASE ~Has(ws[r.name], "STATE") /\ ws' = [ws EXCEPT ![r.name] = d]
      BY <2>1, <2>3, <3>2, DirSet DEF DirsOK
    <3>3. QED
      BY <2>1, <3>1, <3>2
  <2>5. QED
    BY <2>1, <2>2, <2>4 DEF DirsOK
<1>10. CASE Activate(p)
    BY <1>0, <1>10 DEF Activate, Sound, Creating, DirsOK, Places
<1>11. CASE MakeShelf(p)
  <2>1. r.name \in Names
    BY <1>0, <1>11 DEF MakeShelf, Sound, Completing
  <2>2. \E k \in 0 .. MaxShelf : shelves' = shelves \cup {<<r.name, k>>}
    BY <1>11 DEF MakeShelf
  <2>3. shelves' \subseteq Shelves
    BY <2>1, <2>2 DEF Shelves, DirsOK
  <2>4. QED
    BY <1>11, <2>3 DEF MakeShelf, DirsOK
<1>s. Shelving(r) => ShelfOf(r) \in Shelves
    BY DEF TreeShape
<1>12. CASE Out(p)
  <2> DEFINE s == ShelfOf(r)
  <2>1. PICK i : /\ ws' = [ws EXCEPT ![r.name] = @ \ Of(ws[r.name], i)]
                 /\ archive' = [archive EXCEPT ![s] = Put(@, Of(ws[r.name], i))]
    BY <1>12 DEF Out, ShelfOf
  <2>2. /\ r.name \in Names /\ s \in Shelves
        /\ UNCHANGED <<root, live, wsRoot, shelves, active, made>>
    BY <1>0, <1>12, <1>s DEF Out, Sound, Completing, Shelving
  <2> DEFINE es == Of(ws[r.name], i)
             d == ws[r.name] \ es
             a == Put(archive[s], es)
  <2>3. DirOK(d) /\ DirOK(a)
    BY <2>2, DirOps DEF DirsOK
  <2>4. ws' = [ws EXCEPT ![r.name] = d] /\ archive' = [archive EXCEPT ![s] = a]
    BY <2>1, <2>2 DEF DirsOK
  <2> HIDE DEF s, d, a
  <2>5. ws' \in [Names -> SUBSET Entries] /\ \A n \in Names : DirOK(ws'[n])
    BY <2>2, <2>3, <2>4, DirSet DEF DirsOK
  <2>6. archive' \in [Shelves -> SUBSET Entries] /\ \A u \in Shelves : DirOK(archive'[u])
    BY <2>2, <2>3, <2>4, DirSet DEF DirsOK
  <2>7. QED
    BY <2>2, <2>5, <2>6 DEF DirsOK
<1>13. CASE Back(p)
  <2> DEFINE s == ShelfOf(r)
  <2>1. PICK i : LET es == IF r.name \in live THEN Of(archive[s], i) ELSE {}
                 IN  /\ ws' = [ws EXCEPT ![r.name] = Put(@, es)]
                     /\ archive' = [archive EXCEPT ![s] = @ \ es]
    BY <1>13 DEF Back, ShelfOf
  <2>2. /\ r.name \in Names /\ s \in Shelves
        /\ UNCHANGED <<root, live, wsRoot, shelves, active, made>>
    BY <1>0, <1>13, <1>s DEF Back, Sound, Completing, Shelving
  <2> DEFINE es == IF r.name \in live THEN Of(archive[s], i) ELSE {}
             d == Put(ws[r.name], es)
             a == archive[s] \ es
  <2>3. DirOK(es)
    BY <1>e, <2>2, DirOps DEF DirsOK
  <2>4. ws' = [ws EXCEPT ![r.name] = d] /\ archive' = [archive EXCEPT ![s] = a]
    BY <2>1, <2>2 DEF DirsOK
  <2> HIDE DEF s, es
  <2>5. DirOK(d) /\ DirOK(a)
    BY <2>2, <2>3, DirOps DEF DirsOK
  <2> HIDE DEF d, a
  <2>6. ws' \in [Names -> SUBSET Entries] /\ \A n \in Names : DirOK(ws'[n])
    BY <2>2, <2>4, <2>5, DirSet DEF DirsOK
  <2>7. archive' \in [Shelves -> SUBSET Entries] /\ \A u \in Shelves : DirOK(archive'[u])
    BY <2>2, <2>4, <2>5, DirSet DEF DirsOK
  <2>8. QED
    BY <2>2, <2>6, <2>7 DEF DirsOK
<1>14. CASE DropShelf(p)
  <2> DEFINE s == ShelfOf(r)
  <2>1. /\ archive' = [archive EXCEPT ![s] = {}] /\ shelves' = shelves \ {s}
        /\ active' = active \/ active' = r.name
        /\ UNCHANGED <<root, ws, live, wsRoot, made>>
    BY <1>14 DEF DropShelf, ShelfOf
  <2>2. r.name \in Names /\ s \in Shelves
    BY <1>0, <1>14, <1>s DEF DropShelf, Sound, Completing, Shelving
  <2> HIDE DEF s
  <2>3. archive' \in [Shelves -> SUBSET Entries] /\ \A u \in Shelves : DirOK(archive'[u])
    BY <1>e, <2>1, <2>2, DirSet DEF DirsOK
  <2>4. QED
    BY <2>1, <2>2, <2>3 DEF DirsOK, Places
<1>15. CASE Rmdir(p)
    BY <1>15 DEF Rmdir, DirsOK
<1>16. CASE RmRoot(p)
    BY <1>16 DEF RmRoot, DirsOK
<1>r. CASE RemovalFails(p)
  <2>1. active' = active \/ active' \in Names
    BY <1>0, <1>r, RemovalIs DEF Sound, Completing
  <2>2. QED
    BY <1>r, <2>1, RemovalIs DEF DirsOK, Places
<1>17. ASSUME NEW n \in Names \cup {None}, SetActive(p, n)
       PROVE  DirsOK'
    BY <1>17 DEF SetActive, DirsOK, Places
<1>18. QED
    BY <1>1, <1>2, <1>3, <1>4, <1>5, <1>6, <1>7, <1>8, <1>9, <1>10, <1>11, <1>12, <1>13,
       <1>14, <1>15, <1>16, <1>17, <1>r
       DEF WorkstreamStep, Guard, MoveFails, PassOver, OutFails

LEMMA SettingsDirs ==
    ASSUME Shape, TypedInv, DirsOK, NEW p \in Procs, SettingsStep(p)
    PROVE  DirsOK'
<1> DEFINE r == proc[p]
<1>0. Sound(r) /\ Typed(r) /\ None \notin Names
    BY WorkstreamsAssumption DEF Shape, TypedInv
<1>1. CASE BackupState(p)
  <2> DEFINE copy == {Backup(e) : e \in Of(Dir(r.name), "STATE")}
             d == ws[r.name] \cup copy
  <2>1. /\ r.name \in Places /\ UNCHANGED <<live, wsRoot, archive, shelves, active, made>>
        /\ root' = IF r.name = None THEN root \cup copy ELSE root
        /\ ws' = IF r.name = None THEN ws ELSE [ws EXCEPT ![r.name] = @ \cup copy]
    BY <1>0, <1>1 DEF BackupState, Sound, Repairing
  <2>2. Dir(r.name) \subseteq Entries
    BY <1>0, <2>1 DEF Dir, Places, DirsOK, DirOK
  <2>3. copy \subseteq Entries /\ \A e \in copy : e.item = "BACKUP"
    BY <2>2 DEF Backup, Entries, Items, Of
  <2> HIDE DEF copy
  <2>4. CASE r.name = None
    BY <2>1, <2>3, <2>4, DirOps DEF DirsOK
  <2>5. CASE r.name # None
    <3>1. r.name \in Names /\ ws' = [ws EXCEPT ![r.name] = d] /\ root' = root
      BY <2>1, <2>5 DEF Places, DirsOK
    <3>2. DirOK(d)
      BY <2>3, <3>1, DirOps DEF DirsOK
    <3> HIDE DEF d
    <3>3. ws' \in [Names -> SUBSET Entries] /\ \A n \in Names : DirOK(ws'[n])
      BY <3>1, <3>2, DirSet DEF DirsOK
    <3>4. QED
      BY <2>1, <3>1, <3>3 DEF DirsOK
  <2>6. QED
    BY <2>4, <2>5
<1>2. CASE RegenerateState(p)
  <2> DEFINE e == [item |-> "STATE", by |-> r.id]
             d == Put(ws[r.name], {e})
  <2>1. /\ UNCHANGED <<live, wsRoot, archive, shelves, active>> /\ r.pc = "regenerate"
        /\ root' = IF r.name = None THEN Put(root, {e}) ELSE root
        /\ ws' = IF r.name \in live THEN [ws EXCEPT ![r.name] = Put(@, {e})] ELSE ws
        /\ made' = made \/ made' = made \cup {e}
    BY <1>2 DEF RegenerateState
  <2>2. e \in Entries
    BY <1>0, <2>1, NewEntry
  <2> HIDE DEF e
  <2>3. DirOK({e})
    BY <2>2 DEF DirOK, Single
  <2>4. DirOK(root')
    BY <2>1, <2>3, DirOps DEF DirsOK
  <2>5. ws' \in [Names -> SUBSET Entries] /\ \A n \in Names : DirOK(ws'[n])
    <3>1. CASE r.name \notin live
      BY <2>1, <3>1 DEF DirsOK
    <3>2. CASE r.name \in live
      <4>1. r.name \in Names /\ ws' = [ws EXCEPT ![r.name] = d]
        BY <2>1, <3>2 DEF DirsOK
      <4>2. DirOK(d)
        BY <2>3, <4>1, DirOps DEF DirsOK
      <4> HIDE DEF d
      <4>3. QED
        BY <4>1, <4>2, DirSet DEF DirsOK
    <3>3. QED
      BY <3>1, <3>2
  <2>6. QED
    BY <2>1, <2>2, <2>4, <2>5 DEF DirsOK
<1>3. CASE UNCHANGED <<tree, made>>
    BY <1>3 DEF tree, DirsOK
<1>4. QED
  <2>1. BeginTodo(p) \/ TodoStep(p) => UNCHANGED <<tree, made>>
    BY DEF BeginTodo, TodoStep
  <2>2. BackupState(p) \/ RegenerateState(p) \/ UNCHANGED <<tree, made>>
    BY <2>1, SettingsPc
  <2>3. QED
    BY <1>1, <1>2, <1>3, <2>2

LEMMA DirsStep == Shape /\ TreeShape /\ TypedInv /\ DirsOK /\ [Next]_vars => DirsOK'
<1> SUFFICES ASSUME Shape, TreeShape, TypedInv, DirsOK, [Next]_vars PROVE DirsOK'
    OBVIOUS
<1>1. CASE UNCHANGED <<tree, made>>
    BY <1>1 DEF tree, DirsOK
<1>2. QED
    BY <1>1, WorkstreamDirs, SettingsDirs DEF Next, Crash, RepoAppears, vars

TypeInv == TypedInv /\ StoreOK /\ DirsOK

LEMMA TypeInit == Init => TypeInv
<1> SUFFICES ASSUME Init PROVE TypeInv
    OBVIOUS
<1>1. TypedInv
    BY IdleTyped, WorkstreamsAssumption DEF Init, WorkstreamInit, TypedInv
<1>2. StoreOK
  <2>1. Absent \in Values /\ 0 \in Values
    BY WorkstreamsAssumption DEF Values, Absent
  <2>2. \A multi \in BOOLEAN : Json(TRUE, multi, 0, TRUE, FALSE, [k \in Keys |-> 0]) \in Jsons
    BY <2>1 DEF Json, Jsons
  <2>3. acked \in [Keys -> Values]
    BY <2>1 DEF Init, SettingsInit
  <2>4. config \in {Missing, Torn} \cup Jsons
    BY <2>2 DEF Init, SettingsInit
  <2>5. QED
    BY <2>3, <2>4 DEF Init, SettingsInit, StoreOK
<1>3. DirsOK
  <2>1. PICK s \in Projects : root = {[item |-> i, by |-> 0] : i \in s}
    BY DEF Init, WorkstreamInit
  <2>2. s \subseteq Items
    BY WorkstreamsAssumption
  <2>3. DirOK(root)
    <3>1. \A e \in root : \E i \in s : e = [item |-> i, by |-> 0]
      BY <2>1
    <3>2. \A e \in root : e.by = 0 /\ e.item \in Items /\ e = [item |-> e.item, by |-> 0]
      BY <2>2, <3>1
    <3>3. 0 \in 0 .. MaxOps
      BY WorkstreamsAssumption
    <3>4. root \subseteq Entries
      BY <3>2, <3>3 DEF Entries
    <3>5. QED
      BY <3>2, <3>4 DEF DirOK, Single
  <2>4. DirOK({})
    BY DEF DirOK, Single
  <2>5. QED
    BY <2>3, <2>4 DEF Init, WorkstreamInit, DirsOK, DirOK, Places
<1>4. QED
    BY <1>1, <1>2, <1>3 DEF TypeInv

LEMMA TypeStep == Inv /\ TypeInv /\ [Next]_vars => TypeInv'
BY StoreStep, TypedStep, DirsStep DEF TypeInv, Inv

LEMMA TypeHolds == Spec => []TypeInv
<1>1. QED
    BY InvHolds, TypeInit, TypeStep, PTL DEF Spec

\* The types, and what the directories are to each other (workstream.cjs, verify.cjs).
THEOREM WorkspaceTypes == Spec => []TypeOK
<1>1. Inv /\ TypeInv => TypeOK
  <2> SUFFICES ASSUME Inv, TypeInv PROVE TypeOK
    OBVIOUS
  <2>1. Jsons \subseteq Configs
    <3> SUFFICES ASSUME NEW c \in Jsons PROVE c \in Configs
      OBVIOUS
    <3>1. c = Json(c.depth, c.multi, c.repos, c.workflow, c.nyquist, c.val)
      BY DEF Jsons, Json
    <3>2. /\ c.depth \in BOOLEAN /\ c.multi \in BOOLEAN /\ c.repos \in 0 .. 1 /\ c.workflow \in BOOLEAN
          /\ c.nyquist \in BOOLEAN /\ c.val \in [Keys -> Values]
      BY DEF Jsons
    <3>3. QED
      BY <3>1, <3>2 DEF Configs
  <2>2. config \in Configs
    BY <2>1 DEF Configs, TypeInv, StoreOK
  <2>3. /\ \A n \in Names \ live : ws[n] = {}
        /\ \A s \in Shelves \ shelves : archive[s] = {}
        /\ live # {} => wsRoot
    BY DEF Inv, TreeShape
  <2>4. \A p \in Procs : proc[p].pc \in Steps /\ proc[p].left \cap proc[p].moved = {}
    BY DEF TypeInv, TypedInv, Typed
  <2>5. /\ \A n \in Places : Single(Dir(n))
        /\ \A s \in Shelves : Single(archive[s])
    BY DEF TypeInv, DirsOK, DirOK, Dir, Places
  <2>6. \A dir \in {Dir(n) : n \in Places} \cup {archive[s] : s \in Shelves} : Single(dir)
    BY <2>5
  <2>7. DOMAIN proc = Procs
    BY DEF Inv, Shape
  <2>8. QED
    BY <2>2, <2>3, <2>4, <2>6 DEF TypeOK, TypeInv, TypedInv, StoreOK, DirsOK, DirOK, Single
<1>2. QED
    BY <1>1, InvHolds, TypeHolds, PTL

-----------------------------------------------------------------------------
(* What the steps of a command have done already.                            *)

\* While nobody else works there, the files a command began with are where it has put them,
\* what it has created is there, and a repair has done what is no longer left of it.
Settled(r) ==
    /\ r.pc = "move" => ItemsOf(root) \cap MoveItems \subseteq r.left
    /\ r.pc \in {"move", "undo"} => r.seen \subseteq root \cup ws[r.to]
    /\ r.pc \in {"dirs", "state", "activate"} =>
           \A e \in r.seen : e.item \in r.moved => e \in ws[r.to]
    /\ r.pc \in {"state", "activate"} => r.name \in live /\ Has(ws[r.name], "phases")
    /\ r.pc = "activate" => Has(ws[r.name], "STATE")
    /\ r.pc = "out" => ItemsOf(ws[r.name]) \subseteq r.left
    /\ Shelving(r) => ws[r.name] \cup archive[ShelfOf(r)] = r.seen
    /\ r.pc = "clean" => r.seen \subseteq root /\ (r.to \in live => "removal" \in excused)
    /\ r.pc \in {"rmdir", "rmroot"} =>
           ws[r.name] = {} /\ ShelfOf(r) \in Shelves /\ archive[ShelfOf(r)] = r.seen
    /\ r.pc = "rmroot" => (r.name \in live => "removal" \in excused)
    /\ r.pc = "regenerate" => "regenerateState" \notin r.left
    /\ Repairing(r) =>
           /\ r.name = None \/ r.name \in live
           /\ "regenerateState" \in r.left \/ r.pc = "regenerate" => ~Has(Dir(r.name), "STATE")
           /\ "regenerateState" \in r.seen \ r.left /\ r.pc # "regenerate" =>
                  Has(Dir(r.name), "STATE")
SettledInv == Calm => \A p \in Procs : Settled(proc[p])

LEMMA LiveStep ==
    ASSUME Shape, NEW p \in Procs, WorkstreamStep(p) \/ SettingsStep(p) \/ Crash(p)
    PROVE  \A n \in live' : n \in live \/ n \in proc[p].on
<1> DEFINE r == proc[p]
<1>0. Sound(r)
    BY DEF Shape
<1>1. CASE UNCHANGED live
    BY <1>1
<1>2. CASE MkdirTarget(p)
    BY <1>0, <1>2 DEF MkdirTarget, Sound, Migrating
<1>3. CASE MakeDirs(p)
    BY <1>0, <1>3 DEF MakeDirs, Sound, Creating
<1>4. CASE Clean(p)
    BY <1>4 DEF Clean
<1>5. CASE Rmdir(p)
    BY <1>5 DEF Rmdir
<1>6. CASE Crash(p)
    BY <1>6 DEF Crash, tree
<1>7. ASSUME SettingsStep(p) PROVE UNCHANGED live
    BY <1>7 DEF SettingsStep, Truncate, Fill, NewProject, EnsureConfig, SetValue, LoadConfig,
       SyncRepos, BeginSet, BeginHealth, BackupState, RegenerateState, ResetConfig, AddNyquistKey,
       EndHealth, BeginTodo, TodoStep, tree
<1>8. ASSUME WorkstreamStep(p)
      PROVE  UNCHANGED live \/ MkdirTarget(p) \/ MakeDirs(p) \/ Clean(p) \/ Rmdir(p)
    BY <1>8 DEF WorkstreamStep, BeginCreate, Guard, Move, MoveFails, Undo, PassOver, WriteState,
       Activate, BeginComplete, MakeShelf, Out, OutFails, Back, DropShelf, RmRoot, RemovalFails,
       SetActive, tree
<1>9. QED
    BY <1>1, <1>2, <1>3, <1>4, <1>5, <1>6, <1>7, <1>8

LEMMA SettledOthers ==
    ASSUME Shape, TreeShape, Exclusive, Calm, NEW p \in Procs, NEW q \in Others(p),
           Frame(p), \A n \in live' : n \in live \/ n \in proc[p].on,
           proc'[q] = proc[q], Settled(proc[q]), excused \subseteq excused'
    PROVE  Settled(proc[q])'
<1> DEFINE r == proc[q]
<1>0. q \in Procs /\ q # p /\ Sound(r) /\ None \notin Names
    BY WorkstreamsAssumption DEF Others, Shape
<1>1. \A x \in Places : x \in r.on => x \notin proc[p].on
    BY <1>0 DEF Exclusive, Calm, Contested
<1>n. \A n \in Names : n \in r.on => ws'[n] = ws[n] /\ (n \in live <=> n \in live')
    BY <1>1 DEF Frame, Places
<1>2. CASE r.pc \in {"move", "undo"}
  <2>1. ws'[r.to] = ws[r.to] /\ root' = root
    BY <1>0, <1>1, <1>n, <1>2 DEF Sound, Migrating, Frame, Places
  <2>2. QED
    BY <1>2, <2>1 DEF Settled, Shelving, Repairing
<1>c. CASE r.pc = "clean"
  <2>1. root' = root /\ (r.to \in live <=> r.to \in live')
    BY <1>0, <1>1, <1>n, <1>c DEF Sound, Migrating, Frame, Places
  <2>2. QED
    BY <1>c, <2>1 DEF Settled, Shelving, Repairing
<1>3. CASE r.pc \in {"dirs", "state", "activate"}
  <2>1. r.name \in Names /\ r.name \in r.on /\ (r.seen # {} => r.to \in Names /\ r.to \in r.on)
    BY <1>0, <1>3 DEF Sound, Creating
  <2>2. ws'[r.name] = ws[r.name] /\ (r.name \in live <=> r.name \in live')
    BY <1>n, <2>1
  <2>3. r.seen # {} => ws'[r.to] = ws[r.to]
    BY <1>n, <2>1
  <2>4. QED
    BY <1>3, <2>2, <2>3 DEF Settled, Shelving, Repairing
<1>4. CASE r.pc \in {"out", "back", "rmdir", "rmroot"}
  <2>1. r.name \in Names /\ r.name \in r.on
    BY <1>0, <1>4 DEF Sound, Completing
  <2>2. ws'[r.name] = ws[r.name] /\ (r.name \in live <=> r.name \in live')
    BY <1>n, <2>1
  <2>3. ShelfOf(r) \in Shelves
    BY <1>0, <1>4 DEF Settled, TreeShape, Shelving
  <2>4. archive'[ShelfOf(r)] = archive[ShelfOf(r)]
    <3>1. CASE ~Shelving(proc[p])
      BY <2>3, <3>1 DEF Frame
    <3>2. CASE Shelving(proc[p])
      <4>1. proc[p].name \in Names /\ proc[p].name \in proc[p].on
        BY <3>2 DEF Shape, Sound, Completing, Shelving
      <4>2. proc[p].name # r.name
        BY <1>1, <2>1, <4>1 DEF Places
      <4>3. ShelfOf(proc[p]) # ShelfOf(r)
        BY <4>2 DEF ShelfOf
      <4>4. QED
        BY <2>3, <4>3 DEF Frame
    <3>3. QED
      BY <3>1, <3>2
  <2>5. QED
    BY <1>4, <2>2, <2>3, <2>4 DEF Settled, Shelving, ShelfOf, Repairing
<1>5. CASE Repairing(r)
  <2>1. r.name \in Places /\ r.name \in r.on
    BY <1>0, <1>5 DEF Sound
  <2>2. Dir(r.name)' = Dir(r.name)
    BY <1>0, <1>1, <2>1 DEF Frame, Places, Dir
  <2>3. r.name # None => (r.name \in live <=> r.name \in live')
    BY <1>n, <2>1 DEF Places
  <2>4. r.pc \in {"repair", "regenerate", "trunc", "fill"}
    BY <1>5 DEF Repairing
  <2>5. QED
    BY <1>5, <2>2, <2>3, <2>4 DEF Settled, Shelving, Has
<1>6. QED
    BY <1>2, <1>c, <1>3, <1>4, <1>5 DEF Settled, Shelving

LEMMA PutNew ==
    ASSUME NEW dir, NEW from, NEW i, i \notin ItemsOf(dir)
    PROVE  Put(dir, Of(from, i)) = dir \cup Of(from, i)
BY DEF Put, Of, ItemsOf

LEMMA WorkstreamSettled ==
    ASSUME Shape, TreeShape, NEW p \in Procs, Placed(proc[p]), Settled(proc[p]), WorkstreamStep(p),
           Calm'
    PROVE  Settled(proc[p])'
<1> DEFINE r == proc[p]
           Goal == Settled(proc[p])'
<1> USE DEF Fields, Shelving, Repairing
<1>0. /\ DOMAIN proc = Procs /\ DOMAIN r = Fields /\ Sound(r)
      /\ DOMAIN Idle = Fields /\ Idle.pc = "idle" /\ Idle.seen = {}
      /\ DOMAIN ws = Names /\ DOMAIN archive = Shelves
      /\ None \notin Names
    BY WorkstreamsAssumption DEF Shape, Sound, Idle, TreeShape
<1>b. ASSUME NEW job, DOMAIN job = Fields, Begin(p, job)
      PROVE  proc'[p].pc = job.pc /\ proc'[p].seen = job.seen
    BY <1>0, <1>b DEF Begin
<1>i. ASSUME proc'[p].pc \in {"idle", "guard", "mkdir", "shelve"}
      PROVE  Goal
    BY <1>i DEF Settled
<1>1. ASSUME NEW n \in Names, NEW to \in Names \cup {None}, BeginCreate(p, n, to)
      PROVE  Goal
  <2>1. \E job : DOMAIN job = Fields /\ job.pc \in {"guard", "dirs"} /\ Begin(p, job) /\ job.seen = {}
    <3> DEFINE flat == ~wsRoot /\ to # None
               job == [Idle EXCEPT !.pc = IF flat /\ HasWork THEN "guard" ELSE "dirs",
                                   !.on = IF flat /\ HasWork THEN {n, to, None} ELSE {n},
                                   !.name = n, !.to = IF flat /\ HasWork THEN to ELSE None]
    <3>1. Begin(p, job)
      BY <1>1 DEF BeginCreate
    <3>2. DOMAIN job = Fields /\ job.pc \in {"guard", "dirs"} /\ job.seen = {}
      BY <1>0
    <3> HIDE DEF job
    <3>3. QED
      BY <3>1, <3>2
  <2>2. proc'[p].pc \in {"guard", "dirs"} /\ proc'[p].seen = {}
    BY <1>b, <2>1
  <2>3. QED
    BY <2>2 DEF Settled
<1>2. ASSUME NEW n \in Names, BeginComplete(p, n)
      PROVE  Goal
  <2>1. \E job : DOMAIN job = Fields /\ job.pc = "shelve" /\ Begin(p, job)
    BY <1>0, <1>2 DEF BeginComplete
  <2>2. QED
    BY <1>b, <1>i, <2>1
<1>3. CASE Guard(p)
  <2>1. proc'[p].pc \in {"idle", "mkdir"}
    BY <1>0, <1>3 DEF Guard, Go
  <2>2. QED
    BY <1>i, <2>1
<1>4. CASE MkdirTarget(p)
  <2>1. /\ proc'[p].pc = "move" /\ proc'[p].left = MoveItems /\ proc'[p].seen = root
        /\ root' = root
    BY <1>0, <1>4 DEF MkdirTarget, Go, MoveItems
  <2>2. QED
    BY <2>1 DEF Settled
<1>5. CASE Move(p)
  <2> DEFINE i == First(r.left)
             es == Of(root, i)
  <2>1. /\ r.pc = "move" /\ r.to \in Names
        /\ root' = root \ es /\ ws' = [ws EXCEPT ![r.to] = Put(@, es)]
        /\ proc'[p].to = r.to /\ proc'[p].seen = r.seen /\ proc'[p].left = r.left \ {i}
        /\ proc'[p].moved \subseteq r.moved \cup {i}
        /\ proc'[p].pc \in {"move", "dirs"}
    BY <1>0, <1>5 DEF Move, Go, Sound, Migrating
  <2>2. i \in r.left /\ r.left \cap r.moved = {}
    BY <1>0, <2>1, FirstIn DEF Sound
  <2>3. ItemsOf(ws[r.to]) \subseteq r.moved /\ ItemsOf(root) \cap r.moved = {}
    BY <2>1 DEF Placed
  <2>4. r.seen \subseteq root \cup ws[r.to] /\ ItemsOf(root) \cap MoveItems \subseteq r.left
    BY <2>1 DEF Settled
  <2> HIDE DEF i
  <2>5. Put(ws[r.to], es) = ws[r.to] \cup es
    <3>1. i \notin ItemsOf(ws[r.to])
      BY <2>2, <2>3
    <3>2. QED
      BY <3>1, PutNew
  <2>6. ws'[r.to] = ws[r.to] \cup es
    BY <1>0, <2>1, <2>5
  <2>7. \A e \in root' : e \in root /\ e.item # i
    BY <2>1 DEF Of
  <2> HIDE DEF es
  <2>8. proc'[p].seen \subseteq root' \cup ws'[r.to]
    BY <2>1, <2>4, <2>6
  <2>9. \A e \in proc'[p].seen : e.item \in proc'[p].moved => e \in ws'[r.to]
    BY <2>1, <2>3, <2>7, <2>8 DEF ItemsOf
  <2>10. ItemsOf(root') \cap MoveItems \subseteq proc'[p].left
    BY <2>1, <2>4, <2>7 DEF ItemsOf
  <2>11. QED
    BY <2>1, <2>8, <2>9, <2>10 DEF Settled
<1>6. CASE MoveFails(p)
  <2>1. /\ UNCHANGED <<root, ws>> /\ r.pc = "move"
        /\ proc'[p].pc = "undo" /\ proc'[p].to = r.to /\ proc'[p].seen = r.seen
    BY <1>0, <1>6 DEF MoveFails, Go, tree
  <2>2. QED
    BY <2>1 DEF Settled
<1>7. CASE Undo(p)
  <2> DEFINE i == First(r.moved)
             es == Of(ws[r.to], i)
  <2>1. /\ r.pc = "undo" /\ r.to \in Names /\ r.moved # {}
        /\ root' = Put(root, es) /\ ws' = [ws EXCEPT ![r.to] = @ \ es]
        /\ proc'[p].pc = "undo" /\ proc'[p].to = r.to /\ proc'[p].seen = r.seen
    BY <1>0, <1>7 DEF Undo, Go, Sound, Migrating
  <2>2. i \in r.moved
    BY <1>0, <2>1, FirstIn DEF Sound
  <2>3. ItemsOf(root) \cap r.moved = {} /\ r.seen \subseteq root \cup ws[r.to]
    BY <2>1 DEF Placed, Settled
  <2> HIDE DEF i
  <2>4. root' = root \cup es
    <3>1. i \notin ItemsOf(root)
      BY <2>2, <2>3
    <3>2. QED
      BY <2>1, <3>1, PutNew
  <2>5. ws'[r.to] = ws[r.to] \ es
    BY <1>0, <2>1
  <2>6. QED
    BY <2>1, <2>3, <2>4, <2>5 DEF Settled
<1>8. CASE PassOver(p)
    BY <1>8 DEF PassOver, Calm
<1>u. ASSUME r.pc = "undo", r.moved = {}
      PROVE  r.seen \subseteq root
  <2>1. r.seen \subseteq root \cup ws[r.to] /\ ItemsOf(ws[r.to]) \subseteq r.moved
    BY <1>u DEF Settled, Placed
  <2>2. QED
    BY <1>u, <2>1 DEF ItemsOf
<1>9. CASE Clean(p)
  <2>1. /\ proc'[p].pc = "clean" /\ proc'[p].to = r.to /\ proc'[p].seen = r.seen
        /\ root' = root /\ live' = live \ {r.to} /\ r.seen \subseteq root
    BY <1>0, <1>9, <1>u DEF Clean, Go
  <2>2. QED
    BY <2>1 DEF Settled
<1>r. CASE RemovalFails(p)
  <2>1. /\ UNCHANGED <<root, ws, live, archive>> /\ "removal" \in excused'
    BY <1>r, RemovalIs
  <2>2. CASE r.pc = "undo"
    <3>1. Go(p, [r EXCEPT !.pc = "clean"]) /\ r.moved = {}
      BY <1>r, <2>2, RemovalIs DEF RemovalFails
    <3>2. proc'[p].pc = "clean" /\ proc'[p].seen = r.seen /\ r.seen \subseteq root
      BY <1>0, <1>u, <2>2, <3>1 DEF Go
    <3>3. QED
      BY <2>1, <3>2 DEF Settled
  <2>3. CASE r.pc = "rmdir"
    <3>1. Go(p, [r EXCEPT !.pc = "rmroot"])
      BY <1>r, <2>3, RemovalIs
    <3>2. /\ proc'[p].pc = "rmroot" /\ proc'[p].name = r.name /\ proc'[p].seen = r.seen
          /\ ShelfOf(proc[p])' = ShelfOf(r)
      BY <1>0, <3>1 DEF Go, ShelfOf
    <3>3. QED
      BY <2>1, <2>3, <3>2 DEF Settled
  <2>4. CASE Go(p, Idle)
    BY <1>0, <1>i, <2>4 DEF Go
  <2>5. QED
    BY <1>r, <2>2, <2>3, <2>4, RemovalIs
<1>10. CASE MakeDirs(p)
  <2> DEFINE e == [item |-> "phases", by |-> r.id]
  <2>1. /\ r.pc = "dirs" /\ r.name \in Names /\ live' = live \cup {r.name}
        /\ ws' = IF Has(ws[r.name], "phases") THEN ws ELSE [ws EXCEPT ![r.name] = @ \cup {e}]
        /\ proc'[p].pc = "state" /\ proc'[p].name = r.name /\ proc'[p].to = r.to
        /\ proc'[p].seen = r.seen /\ proc'[p].moved = r.moved
        /\ (r.seen # {} => r.to \in Names)
    BY <1>0, <1>10 DEF MakeDirs, Go, Sound, Creating
  <2>2. e.item = "phases"
    OBVIOUS
  <2> HIDE DEF e
  <2>3. Has(ws'[r.name], "phases")
    <3>1. CASE Has(ws[r.name], "phases")
      BY <2>1, <3>1
    <3>2. CASE ~Has(ws[r.name], "phases")
      <4>1. ws'[r.name] = ws[r.name] \cup {e}
        BY <1>0, <2>1, <3>2
      <4>2. QED
        BY <2>2, <4>1 DEF Has, Of
    <3>3. QED
      BY <3>1, <3>2
  <2>4. \A n \in Names : ws[n] \subseteq ws'[n]
    BY <1>0, <2>1
  <2>5. \A f \in r.seen : f.item \in r.moved => f \in ws[r.to]
    BY <2>1 DEF Settled
  <2>6. \A f \in r.seen : f.item \in r.moved => f \in ws'[r.to]
    BY <2>1, <2>4, <2>5
  <2>7. QED
    BY <2>1, <2>3, <2>6 DEF Settled
<1>11. CASE WriteState(p)
  <2>1. CASE r.name \notin live
    <3>1. proc'[p].pc = "idle"
      BY <1>0, <1>11, <2>1 DEF WriteState, Go
    <3>2. QED
      BY <1>i, <3>1
  <2>2. CASE r.name \in live
    <3> DEFINE e == [item |-> "STATE", by |-> r.id]
    <3>1. /\ r.pc = "state" /\ r.name \in Names /\ live' = live
          /\ ws' = IF ~Has(ws[r.name], "STATE") THEN [ws EXCEPT ![r.name] = @ \cup {e}] ELSE ws
          /\ proc'[p].pc = "activate" /\ proc'[p].name = r.name /\ proc'[p].to = r.to
          /\ proc'[p].seen = r.seen /\ proc'[p].moved = r.moved
          /\ (r.seen # {} => r.to \in Names)
      BY <1>0, <1>11, <2>2 DEF WriteState, Go, Sound, Creating
    <3>2. e.item = "STATE"
      OBVIOUS
    <3> HIDE DEF e
    <3>3. Has(ws'[r.name], "STATE")
      <4>1. CASE Has(ws[r.name], "STATE")
        BY <3>1, <4>1
      <4>2. CASE ~Has(ws[r.name], "STATE")
        <5>1. ws'[r.name] = ws[r.name] \cup {e}
          BY <1>0, <3>1, <4>2
        <5>2. QED
          BY <3>2, <5>1 DEF Has, Of
      <4>3. QED
        BY <4>1, <4>2
    <3>4. \A n \in Names : ws[n] \subseteq ws'[n]
      BY <1>0, <3>1
    <3>5. /\ \A f \in r.seen : f.item \in r.moved => f \in ws[r.to]
          /\ Has(ws[r.name], "phases")
      BY <3>1 DEF Settled
    <3>6. /\ \A f \in r.seen : f.item \in r.moved => f \in ws'[r.to]
      BY <3>1, <3>4, <3>5
    <3>7. Has(ws'[r.name], "phases")
      BY <3>1, <3>4, <3>5 DEF Has, Of
    <3>8. QED
      BY <2>2, <3>1, <3>3, <3>6, <3>7 DEF Settled
  <2>3. QED
    BY <2>1, <2>2
<1>12. CASE Activate(p)
  <2>1. proc'[p].pc = "idle"
    BY <1>0, <1>12 DEF Activate, Go
  <2>2. QED
    BY <1>i, <2>1
<1>13. CASE MakeShelf(p)
  <2>1. PICK k \in 0 .. MaxShelf :
            /\ <<r.name, k>> \notin shelves
            /\ Go(p, [r EXCEPT !.shelf = k, !.seen = ws[r.name], !.left = ItemsOf(ws[r.name]),
                               !.pc = IF ws[r.name] = {} THEN "rmdir" ELSE "out"])
    BY <1>13 DEF MakeShelf
  <2>2. /\ proc'[p].pc = (IF ws[r.name] = {} THEN "rmdir" ELSE "out")
        /\ proc'[p].name = r.name /\ ShelfOf(proc'[p]) = <<r.name, k>>
        /\ proc'[p].seen = ws[r.name] /\ proc'[p].left = ItemsOf(ws[r.name])
        /\ UNCHANGED <<ws, archive>> /\ r.name \in Names
    BY <1>0, <1>13, <2>1 DEF MakeShelf, Go, Sound, Completing, ShelfOf
  <2>3. <<r.name, k>> \in Shelves /\ archive[<<r.name, k>>] = {}
    BY <2>1, <2>2 DEF Shelves, TreeShape
  <2>4. ShelfOf(proc[p])' = <<r.name, k>>
    BY <2>2 DEF ShelfOf
  <2>5. QED
    BY <2>2, <2>3, <2>4 DEF Settled
<1>14. CASE Out(p)
  <2> DEFINE s == ShelfOf(r)
  <2>1. PICK i \in r.left :
            /\ ws' = [ws EXCEPT ![r.name] = @ \ Of(ws[r.name], i)]
            /\ archive' = [archive EXCEPT ![s] = Put(@, Of(ws[r.name], i))]
            /\ Go(p, [r EXCEPT !.left = @ \ {i}, !.moved = @ \cup {i},
                               !.pc = IF r.left = {i} THEN "rmdir" ELSE "out"])
    BY <1>14 DEF Out, ShelfOf
  <2> DEFINE es == Of(ws[r.name], i)
  <2>2. /\ r.pc = "out" /\ r.name \in Names
        /\ proc'[p].pc = (IF r.left = {i} THEN "rmdir" ELSE "out")
        /\ ShelfOf(proc'[p]) = s /\ proc'[p].name = r.name
        /\ proc'[p].seen = r.seen /\ proc'[p].left = r.left \ {i}
    BY <1>0, <1>14, <2>1 DEF Out, Go, ShelfOf, Sound, Completing
  <2>3. /\ ItemsOf(archive[s]) \subseteq r.moved /\ r.left \cap r.moved = {} /\ s \in Shelves
    BY <1>0, <2>2 DEF Placed, Sound, TreeShape
  <2>4. Put(archive[s], es) = archive[s] \cup es
    <3>1. i \notin ItemsOf(archive[s])
      BY <2>1, <2>3
    <3>2. QED
      BY <3>1, PutNew
  <2>5. ws'[r.name] = ws[r.name] \ es /\ archive'[s] = archive[s] \cup es
    BY <1>0, <2>1, <2>2, <2>3, <2>4
  <2>6. ItemsOf(ws[r.name]) \subseteq r.left /\ ws[r.name] \cup archive[s] = r.seen
    BY <2>2 DEF Settled
  <2>7. ItemsOf(ws'[r.name]) \subseteq r.left \ {i}
    BY <2>5, <2>6 DEF ItemsOf, Of
  <2>8. r.left = {i} => ws'[r.name] = {}
    BY <2>7 DEF ItemsOf
  <2>9. ws'[r.name] \cup archive'[s] = r.seen
    BY <2>5, <2>6 DEF Of
  <2>10. ShelfOf(proc[p])' = s
    BY <2>2 DEF ShelfOf
  <2> HIDE DEF es, s
  <2>11. QED
    BY <2>2, <2>3, <2>7, <2>8, <2>9, <2>10 DEF Settled
<1>15. CASE OutFails(p)
  <2>1. /\ UNCHANGED <<ws, archive>> /\ r.pc = "out" /\ proc'[p].pc = "back"
        /\ proc'[p].name = r.name /\ proc'[p].seen = r.seen /\ ShelfOf(proc[p])' = ShelfOf(r)
    BY <1>0, <1>15 DEF OutFails, Go, tree, ShelfOf
  <2>2. QED
    BY <2>1 DEF Settled
<1>16. CASE Back(p)
  <2> DEFINE s == ShelfOf(r)
             i == CHOOSE j \in r.moved : TRUE
             es == IF r.name \in live THEN Of(archive[s], i) ELSE {}
  <2>1. /\ ws' = [ws EXCEPT ![r.name] = Put(@, es)]
        /\ archive' = [archive EXCEPT ![s] = @ \ es]
        /\ r.pc = "back" /\ r.name \in Names /\ r.moved # {}
        /\ proc'[p].pc = "back" /\ ShelfOf(proc[p])' = s /\ proc'[p].name = r.name
        /\ proc'[p].seen = r.seen
    BY <1>0, <1>16 DEF Back, Go, ShelfOf, Sound, Completing
  <2>2. i \in r.moved
    BY <2>1
  <2> HIDE DEF i
  <2>3. /\ s \in Shelves /\ ItemsOf(ws[r.name]) \cap r.moved = {} /\ r.name \in live
        /\ ws[r.name] \cup archive[s] = r.seen
    BY <2>1 DEF Placed, TreeShape, Settled
  <2>4. es = Of(archive[s], i)
    BY <2>3
  <2> HIDE DEF s, es
  <2>5. Put(ws[r.name], es) = ws[r.name] \cup es
    <3>1. i \notin ItemsOf(ws[r.name])
      BY <2>2, <2>3
    <3>2. QED
      BY <2>4, <3>1, PutNew
  <2>6. ws'[r.name] = ws[r.name] \cup es /\ archive'[s] = archive[s] \ es
    BY <1>0, <2>1, <2>3, <2>5
  <2>7. ws'[r.name] \cup archive'[s] = r.seen
    BY <2>3, <2>4, <2>6 DEF Of
  <2>8. QED
    BY <2>1, <2>7 DEF Settled
<1>17. CASE DropShelf(p)
  <2>1. proc'[p].pc = "idle"
    BY <1>0, <1>17 DEF DropShelf, Go
  <2>2. QED
    BY <1>i, <2>1
<1>18. CASE Rmdir(p)
  <2>1. /\ r.pc = "rmdir" /\ UNCHANGED <<ws, archive>> /\ proc'[p].pc = "rmroot"
        /\ live' = (IF ws[r.name] = {} THEN live \ {r.name} ELSE live)
        /\ proc'[p].name = r.name /\ proc'[p].seen = r.seen /\ ShelfOf(proc[p])' = ShelfOf(r)
    BY <1>0, <1>18 DEF Rmdir, Go, ShelfOf
  <2>2. QED
    BY <2>1 DEF Settled
<1>19. CASE RmRoot(p)
  <2>1. proc'[p].pc = "idle"
    BY <1>0, <1>19 DEF RmRoot, Go
  <2>2. QED
    BY <1>i, <2>1
<1>20. ASSUME NEW n, SetActive(p, n)
       PROVE  Goal
  <2>1. UNCHANGED <<root, ws, archive, live, proc, excused>>
    BY <1>20 DEF SetActive
  <2>2. QED
    BY <2>1 DEF Settled, Dir, ShelfOf
<1>21. QED
    BY <1>1, <1>2, <1>3, <1>4, <1>5, <1>6, <1>7, <1>8, <1>9, <1>r, <1>10, <1>11, <1>12, <1>13,
       <1>14, <1>15, <1>16, <1>17, <1>18, <1>19, <1>20 DEF WorkstreamStep

LEMMA SettingsSettled ==
    ASSUME Shape, TreeShape, NEW p \in Procs, Settled(proc[p]), SettingsStep(p)
    PROVE  Settled(proc[p])'
<1> DEFINE r == proc[p]
           Goal == Settled(proc[p])'
<1> USE DEF Fields, Shelving
<1>0. /\ DOMAIN proc = Procs /\ DOMAIN r = Fields /\ Sound(r)
      /\ DOMAIN Idle = Fields /\ Idle.pc = "idle" /\ Idle.after = "idle"
      /\ DOMAIN ws = Names /\ None \notin Names
    BY WorkstreamsAssumption DEF Shape, Sound, Idle, TreeShape
<1>i. ASSUME proc'[p].pc \in {"idle", "read", "sync", "todoTrunc", "todoFill", "unlink"}
      PROVE  Goal
    BY <1>i DEF Settled, Repairing
<1>w. ASSUME proc'[p].pc = "trunc", proc'[p].after # "repair"
      PROVE  Goal
    BY <1>w DEF Settled, Repairing
<1>t. ASSUME NEW job, NEW c, NEW after, DOMAIN job = Fields
      PROVE  LET w == ToWrite(job, c, after)
             IN  /\ DOMAIN w = Fields /\ w.pc = "trunc" /\ w.after = after
                 /\ w.name = job.name /\ w.left = job.left /\ w.seen = job.seen
    BY <1>t DEF ToWrite
<1>b. ASSUME NEW job, DOMAIN job = Fields, Begin(p, job)
      PROVE  /\ proc'[p].pc = job.pc /\ proc'[p].after = job.after
             /\ proc'[p].name = job.name /\ proc'[p].left = job.left /\ proc'[p].seen = job.seen
    BY <1>0, <1>b DEF Begin
<1>c. ASSUME NEW job, NEW c, NEW after, DOMAIN job = Fields, after # "repair",
             Begin(p, ToWrite(job, c, after))
      PROVE  Goal
  <2> DEFINE w == ToWrite(job, c, after)
  <2>1. DOMAIN w = Fields /\ w.pc = "trunc" /\ w.after = after
    BY <1>c, <1>t
  <2> HIDE DEF w
  <2>2. Begin(p, w)
    BY <1>c DEF w
  <2>3. QED
    BY <1>b, <1>c, <1>w, <2>1, <2>2
<1>r. ASSUME UNCHANGED tree, Repairing(r), r.pc # "regenerate",
             Repairing(proc'[p]), proc'[p].pc # "regenerate",
             proc'[p].name = r.name, proc'[p].seen = r.seen,
             "regenerateState" \in proc'[p].left <=> "regenerateState" \in r.left
      PROVE  Goal
  <2>1. Dir(r.name)' = Dir(r.name) /\ live' = live
    BY <1>r DEF Dir, tree
  <2>2. proc'[p].pc \in {"repair", "trunc", "fill"}
    BY <1>r DEF Repairing
  <2>3. /\ r.name = None \/ r.name \in live
        /\ "regenerateState" \in r.left => ~Has(Dir(r.name), "STATE")
        /\ "regenerateState" \in r.seen \ r.left => Has(Dir(r.name), "STATE")
    BY <1>r DEF Settled
  <2>4. /\ "regenerateState" \in r.left => ~Has(Dir(r.name)', "STATE")
        /\ "regenerateState" \in r.seen \ r.left => Has(Dir(r.name)', "STATE")
    BY <2>1, <2>3
  <2>5. Dir(proc[p].name)' = Dir(r.name)'
    BY <1>r DEF Dir
  <2>6. QED
    BY <1>r, <2>1, <2>2, <2>3, <2>4, <2>5 DEF Settled
<1>1. CASE Truncate(p)
  <2>1. /\ r.pc = "trunc" /\ proc'[p].pc = "fill" /\ proc'[p].after = r.after
        /\ proc'[p].name = r.name /\ proc'[p].seen = r.seen /\ proc'[p].left = r.left
        /\ UNCHANGED tree
    BY <1>0, <1>1 DEF Truncate, Go
  <2>2. CASE r.after = "repair"
    BY <1>r, <2>1, <2>2 DEF Repairing
  <2>3. CASE r.after # "repair"
    BY <2>1, <2>3 DEF Settled, Repairing
  <2>4. QED
    BY <2>2, <2>3
<1>2. CASE Fill(p)
  <2>1. /\ r.pc = "fill" /\ UNCHANGED tree
        /\ proc'[p] = IF r.after = "idle" THEN Idle ELSE Written(r)
        /\ r.after \in {"idle", "sync", "read", "repair"}
    BY <1>0, <1>2 DEF Fill, Go, Sound, Writing
  <2>2. CASE r.after = "repair"
    <3>1. /\ proc'[p].pc = "repair" /\ proc'[p].name = r.name /\ proc'[p].seen = r.seen
          /\ proc'[p].left = r.left
      BY <1>0, <2>1, <2>2 DEF Written
    <3>2. QED
      BY <1>r, <2>1, <2>2, <3>1 DEF Repairing
  <2>3. CASE r.after # "repair"
    <3>1. proc'[p].pc \in {"idle", "sync", "read"}
      BY <1>0, <2>1, <2>3 DEF Written
    <3>2. QED
      BY <1>i, <3>1
  <2>4. QED
    BY <2>2, <2>3
<1>3. CASE NewProject(p)
  <2>1. \E c : Begin(p, ToWrite(Idle, c, "idle"))
    BY <1>3 DEF NewProject, EnsureConfig
  <2>2. QED
    BY <1>0, <1>c, <2>1
<1>4. CASE SetValue(p)
  <2>1. Go(p, Idle) \/ \E c : Go(p, ToWrite(r, c, "idle"))
    BY <1>4 DEF SetValue, Continue
  <2>2. \A c : ToWrite(r, c, "idle").pc = "trunc" /\ ToWrite(r, c, "idle").after = "idle"
    BY <1>0, <1>t
  <2>3. proc'[p].pc = "idle" \/ (proc'[p].pc = "trunc" /\ proc'[p].after = "idle")
    BY <1>0, <2>1, <2>2 DEF Go
  <2>4. QED
    BY <1>i, <1>w, <2>3
<1>5. CASE LoadConfig(p)
  <2>1. \E c, after : after # "repair" /\ Begin(p, ToWrite(Idle, c, after))
    <3>1. "sync" # "repair" /\ "idle" # "repair"
      OBVIOUS
    <3>2. QED
      BY <1>5, <3>1 DEF LoadConfig
  <2>2. QED
    BY <1>0, <1>c, <2>1
<1>6. CASE SyncRepos(p)
  <2>1. Go(p, Idle) \/ \E c : Go(p, ToWrite(r, c, "idle"))
    BY <1>6 DEF SyncRepos
  <2>2. \A c : ToWrite(r, c, "idle").pc = "trunc" /\ ToWrite(r, c, "idle").after = "idle"
    BY <1>0, <1>t
  <2>3. proc'[p].pc = "idle" \/ (proc'[p].pc = "trunc" /\ proc'[p].after = "idle")
    BY <1>0, <2>1, <2>2 DEF Go
  <2>4. QED
    BY <1>i, <1>w, <2>3
<1>7. ASSUME NEW k \in Keys, NEW ensure \in BOOLEAN, BeginSet(p, k, ensure)
      PROVE  Goal
  <2> DEFINE job == [Idle EXCEPT !.name = k, !.pc = "read"]
  <2>1. Begin(p, ToWrite(job, Defaults, "read")) \/ Begin(p, job)
    BY <1>7 DEF BeginSet
  <2>2. DOMAIN job = Fields /\ job.pc = "read"
    BY <1>0
  <2> HIDE DEF job
  <2>3. QED
    BY <1>b, <1>c, <1>i, <2>1, <2>2
<1>8. ASSUME NEW n \in Names \cup {None}, BeginHealth(p, n)
      PROVE  Goal
  <2> DEFINE left == Repairable(n)
             on == {n} \cup IF left \subseteq {"regenerateState"} THEN {} ELSE {"config"}
             job == [Idle EXCEPT !.pc = "repair", !.name = n, !.left = left, !.seen = left,
                                 !.on = on]
  <2>1. Begin(p, job) /\ UNCHANGED tree /\ (n = None \/ n \in live)
    BY <1>8 DEF BeginHealth
  <2>2. "regenerateState" \in left => ~Has(Dir(n), "STATE")
    BY DEF Repairable
  <2> HIDE DEF left, on
  <2>3. DOMAIN job = Fields /\ job.pc = "repair" /\ job.name = n /\ job.left = left /\ job.seen = left
    BY <1>0
  <2> HIDE DEF job
  <2>4. /\ proc'[p].pc = "repair" /\ proc'[p].name = n /\ proc'[p].left = left
        /\ proc'[p].seen = left
    BY <1>b, <2>1, <2>3
  <2>5. Dir(proc[p].name)' = Dir(n)
    BY <2>1, <2>4 DEF Dir, tree
  <2>6. live' = live
    BY <2>1 DEF tree
  <2>7. QED
    BY <2>1, <2>2, <2>4, <2>5, <2>6 DEF Settled
<1>9. CASE BackupState(p)
  <2> DEFINE copy == {Backup(e) : e \in Of(Dir(r.name), "STATE")}
  <2>1. /\ r.pc = "repair" /\ "regenerateState" \in r.left
        /\ root' = IF r.name = None THEN root \cup copy ELSE root
        /\ ws' = IF r.name = None THEN ws ELSE [ws EXCEPT ![r.name] = @ \cup copy]
        /\ proc'[p].pc = "regenerate" /\ proc'[p].name = r.name /\ proc'[p].seen = r.seen
        /\ proc'[p].left = r.left \ {"regenerateState"} /\ UNCHANGED live
        /\ r.name \in Places
    BY <1>0, <1>9 DEF BackupState, Go, Repaired, Sound, Repairing
  <2>2. ~Has(Dir(r.name), "STATE") /\ (r.name = None \/ r.name \in live)
    BY <2>1 DEF Settled, Repairing
  <2>3. copy = {}
    BY <2>2 DEF Has
  <2> HIDE DEF copy
  <2>4. Dir(r.name)' = Dir(r.name)
    BY <1>0, <2>1, <2>3 DEF Dir, Places
  <2>5. Dir(proc[p].name)' = Dir(r.name)
    BY <2>1, <2>4 DEF Dir
  <2>6. QED
    BY <2>1, <2>2, <2>5 DEF Settled
<1>10. CASE RegenerateState(p)
  <2> DEFINE e == [item |-> "STATE", by |-> r.id]
  <2>1. /\ r.pc = "regenerate" /\ UNCHANGED live
        /\ root' = IF r.name = None THEN Put(root, {e}) ELSE root
        /\ ws' = IF r.name \in live THEN [ws EXCEPT ![r.name] = Put(@, {e})] ELSE ws
        /\ proc'[p].pc = "repair" /\ proc'[p].name = r.name /\ proc'[p].seen = r.seen
        /\ proc'[p].left = r.left /\ r.name \in Places
    BY <1>0, <1>10 DEF RegenerateState, Go, Sound, Repairing
  <2>2. (r.name = None \/ r.name \in live) /\ "regenerateState" \notin r.left
    BY <2>1 DEF Settled, Repairing
  <2>3. e.item = "STATE"
    OBVIOUS
  <2> HIDE DEF e
  <2>4. Dir(r.name)' = Put(Dir(r.name), {e})
    <3>1. CASE r.name = None
      BY <2>1, <3>1 DEF Dir
    <3>2. CASE r.name # None
      <4>1. r.name \in Names /\ r.name \in live
        BY <2>1, <2>2, <3>2 DEF Places
      <4>2. QED
        BY <1>0, <2>1, <3>2, <4>1 DEF Dir
    <3>3. QED
      BY <3>1, <3>2
  <2>5. Has(Put(Dir(r.name), {e}), "STATE")
    BY <2>3 DEF Has, Of, Put
  <2>6. Dir(proc[p].name)' = Put(Dir(r.name), {e})
    BY <2>1, <2>4 DEF Dir
  <2>7. QED
    BY <2>1, <2>2, <2>5, <2>6 DEF Settled
<1>11. CASE ResetConfig(p)
  <2> DEFINE j == Repaired(r, "writeConfig")
             w == ToWrite(j, Defaults, "repair")
  <2>1. r.pc = "repair" /\ Go(p, w) /\ UNCHANGED tree
    BY <1>11 DEF ResetConfig, Continue
  <2>2. /\ DOMAIN j = Fields /\ j.name = r.name /\ j.seen = r.seen
        /\ j.left = r.left \ {"writeConfig"}
    BY <1>0 DEF Repaired
  <2> HIDE DEF j
  <2>3. /\ w.pc = "trunc" /\ w.after = "repair" /\ w.name = j.name /\ w.left = j.left
        /\ w.seen = j.seen
    BY <1>t, <2>2
  <2> HIDE DEF w
  <2>4. proc'[p] = w
    BY <1>0, <2>1 DEF Go
  <2>5. QED
    BY <1>r, <2>1, <2>2, <2>3, <2>4 DEF Repairing
<1>12. CASE AddNyquistKey(p)
  <2> DEFINE j == Repaired(r, "addNyquistKey")
  <2>1. /\ r.pc = "repair" /\ UNCHANGED tree
        /\ Go(p, j) \/ \E c : Go(p, ToWrite(j, c, "repair"))
    BY <1>12 DEF AddNyquistKey, Continue
  <2>2. /\ DOMAIN j = Fields /\ j.name = r.name /\ j.seen = r.seen
        /\ j.left = r.left \ {"addNyquistKey"} /\ j.pc = r.pc
    BY <1>0 DEF Repaired
  <2> HIDE DEF j
  <2>3. \A c : LET w == ToWrite(j, c, "repair")
               IN  /\ w.pc = "trunc" /\ w.after = "repair" /\ w.name = j.name /\ w.left = j.left
                   /\ w.seen = j.seen
    BY <1>t, <2>2
  <2>4. /\ proc'[p].pc = "repair" \/ (proc'[p].pc = "trunc" /\ proc'[p].after = "repair")
        /\ proc'[p].name = r.name /\ proc'[p].seen = r.seen
        /\ proc'[p].left = r.left \ {"addNyquistKey"}
    BY <1>0, <2>1, <2>2, <2>3 DEF Go
  <2>5. QED
    BY <1>r, <2>1, <2>4 DEF Repairing
<1>13. CASE EndHealth(p)
  <2>1. proc'[p].pc = "idle"
    BY <1>0, <1>13 DEF EndHealth, Go
  <2>2. QED
    BY <1>i, <2>1
<1>14. CASE BeginTodo(p)
  <2>1. \E job : DOMAIN job = Fields /\ job.pc = "todoTrunc" /\ Begin(p, job)
    BY <1>0, <1>14 DEF BeginTodo
  <2>2. QED
    BY <1>b, <1>i, <2>1
<1>15. CASE TodoStep(p)
  <2>1. proc'[p].pc \in {"idle", "todoFill", "unlink"}
    BY <1>0, <1>15 DEF TodoStep, Go
  <2>2. QED
    BY <1>i, <2>1
<1>16. QED
    BY <1>1, <1>2, <1>3, <1>4, <1>5, <1>6, <1>7, <1>8, <1>9, <1>10, <1>11, <1>12, <1>13,
       <1>14, <1>15 DEF SettingsStep

LEMMA SettledStep ==
    Shape /\ TreeShape /\ Exclusive /\ PlacedInv /\ KeptInv /\ SettledInv /\ [Next]_vars => SettledInv'
<1> SUFFICES ASSUME Shape, TreeShape, Exclusive, PlacedInv, KeptInv, SettledInv, [Next]_vars, Calm'
             PROVE  \A q \in Procs : Settled(proc[q])'
    BY DEF SettledInv
<1>1. ASSUME NEW p \in Procs, WorkstreamStep(p) \/ SettingsStep(p) \/ Crash(p)
      PROVE  \A q \in Procs : Settled(proc[q])'
  <2>1. Honest(p) /\ \A q \in Others(p) : proc'[q] = proc[q]
    BY <1>1, StepHonest
  <2>2. Calm /\ (\A q \in Procs : Settled(proc[q]) /\ Placed(proc[q])) /\ \A e \in made : Kept(e)
    BY <2>1, CalmBefore DEF SettledInv, PlacedInv, KeptInv
  <2>3. Frame(p) /\ Settled(proc[p])'
    <3>1. CASE WorkstreamStep(p)
      BY <2>2, <3>1, WorkstreamSettled, WorkstreamPlaced
    <3>2. CASE SettingsStep(p)
      BY <2>2, <3>2, SettingsSettled, SettingsPlaced
    <3>3. CASE Crash(p)
      <4>1. UNCHANGED tree /\ proc'[p].pc = "idle"
        BY <3>3 DEF Crash, Go, Shape, Idle
      <4>2. QED
        BY <4>1 DEF Settled, Repairing, Shelving, Frame, tree
    <3>4. QED
      BY <1>1, <3>1, <3>2, <3>3
  <2>4. \A n \in live' : n \in live \/ n \in proc[p].on
    BY <1>1, LiveStep
  <2>5. ASSUME NEW q \in Others(p) PROVE Settled(proc[q])'
    BY <2>1, <2>2, <2>3, <2>4, SettledOthers DEF Others, Honest
  <2>6. \A q \in Procs : q = p \/ q \in Others(p)
    BY DEF Others
  <2>7. QED
    BY <2>3, <2>5, <2>6
<1>2. CASE UNCHANGED <<tree, proc, excused>>
  <2>1. \A q \in Procs : Settled(proc[q])
    BY <1>2 DEF SettledInv, Calm, Contested
  <2>2. QED
    BY <1>2, <2>1 DEF Settled, Dir, ShelfOf, Repairing, Shelving, tree
<1>3. QED
    BY <1>1, <1>2 DEF Next, RepoAppears, vars

SettledTypes == Inv /\ TypeInv /\ SettledInv

LEMMA SettledHolds == Spec => []SettledTypes
<1>1. Init => SettledInv
  <2>1. Init => \A p \in Procs : proc[p] = Idle
    BY DEF Init, WorkstreamInit
  <2>2. QED
    BY <2>1 DEF SettledInv, Settled, Idle, Repairing, Shelving
<1>2. Inv /\ SettledInv /\ [Next]_vars => SettledInv'
    BY SettledStep DEF Inv
<1>3. QED
    BY <1>1, <1>2, InvHolds, TypeHolds, PTL DEF Spec, SettledTypes

\* Who answers: the step is its own, and no crash.
LEMMA Answering ==
    ASSUME Shape, TypedInv, [Next]_vars, NEW p \in Procs, Answers(p)
    PROVE  (WorkstreamStep(p) \/ SettingsStep(p)) /\ Honest(p)
<1>1. ASSUME NEW q \in Procs, WorkstreamStep(q) \/ SettingsStep(q) \/ Crash(q)
      PROVE  q = p
  <2>1. p # q => proc'[p] = proc[p]
    BY <1>1, StepHonest DEF Others
  <2>2. QED
    BY <2>1 DEF Answers
<1>2. ~Crash(p)
    BY FaultTyped DEF Crash, Answers
<1>3. proc' # proc
    BY DEF Answers
<1>4. WorkstreamStep(p) \/ SettingsStep(p)
    BY <1>1, <1>2, <1>3 DEF Next, RepoAppears, vars
<1>5. QED
    BY <1>4, StepHonest

LEMMA SettingsFrom ==
    ASSUME NEW p, SettingsStep(p)
    PROVE  proc[p].pc \in {"idle", "trunc", "fill", "read", "sync", "repair", "regenerate",
                            "todoTrunc", "todoFill", "unlink"}
BY DEF SettingsStep, Truncate, Fill, NewProject, EnsureConfig, SetValue, LoadConfig,
       SyncRepos, BeginSet, BeginHealth, BackupState, RegenerateState, ResetConfig, AddNyquistKey,
       EndHealth, BeginTodo, TodoStep, Begin

\* The steps at which the workstream commands answer.
LEMMA WorkstreamAnswers ==
    ASSUME Shape, TypedInv, NEW p \in Procs, WorkstreamStep(p), Answers(p)
    PROVE  /\ proc[p].pc \in {"clean", "rmroot"} => RmRoot(p)
           /\ proc[p].pc = "back" => DropShelf(p)
           /\ proc[p].pc = "activate" => Activate(p)
           /\ proc[p].pc # "undo"
<1> DEFINE r == proc[p]
<1>0. DOMAIN proc = Procs /\ DOMAIN r = Fields
    BY DEF Shape, Sound
<1>1. r.pc # "idle" /\ proc'[p].pc = "idle" /\ faults' = faults
    BY DEF Answers
<1>2. ~Undo(p)
    BY <1>0, <1>1 DEF Undo, Go, Fields
<1>3. ~Back(p)
    BY <1>0, <1>1 DEF Back, Go, Fields
<1>4. ~PassOver(p) /\ ~RemovalFails(p)
    BY <1>1, FaultTyped DEF PassOver, RemovalFails
<1>c. ~Clean(p)
    BY <1>0, <1>1 DEF Clean, Go, Fields
<1>5. QED
    BY <1>1, <1>2, <1>3, <1>4, <1>c DEF WorkstreamStep, BeginCreate, Begin, Guard, MkdirTarget, Move,
       MoveFails, MakeDirs, WriteState, BeginComplete, MakeShelf, Out, OutFails, Rmdir, SetActive,
       DropShelf, RmRoot, Activate

LEMMA ReplyHolds ==
    ASSUME SettledTypes, [Next]_vars, NEW p \in Procs, Answers(p), Calm'
    PROVE  Reply(p)
<1> DEFINE r == proc[p]
<1>0. /\ Shape /\ TreeShape /\ TypedInv /\ Sound(r)
    BY DEF SettledTypes, Inv, TypeInv, Shape
<1>1. (WorkstreamStep(p) \/ SettingsStep(p)) /\ Honest(p)
    BY <1>0, Answering
<1>2. Placed(r) /\ Settled(r)
    BY <1>1, CalmBefore DEF SettledTypes, SettledInv, Inv, PlacedInv
<1>3. CASE SettingsStep(p)
    BY <1>3, SettingsFrom DEF Reply
<1>4. CASE WorkstreamStep(p)
  <2>1. /\ r.pc \in {"clean", "rmroot"} => RmRoot(p)
        /\ r.pc = "back" => DropShelf(p)
        /\ r.pc = "activate" => Activate(p)
    BY <1>0, <1>4, WorkstreamAnswers
  <2>2. ASSUME r.pc = "clean"
        PROVE  r.seen \subseteq root' /\ (r.to \in live' => "removal" \in excused')
    BY <1>2, <2>1, <2>2 DEF RmRoot, Settled
  <2>3. ASSUME r.pc = "back" PROVE ws'[r.name] = r.seen /\ (r.was => active' = r.name)
    <3>1. r.moved = {} /\ ws' = ws /\ active' = IF r.was THEN r.name ELSE active
      BY <2>1, <2>3 DEF DropShelf
    <3>2. archive[ShelfOf(r)] = {} /\ ws[r.name] \cup archive[ShelfOf(r)] = r.seen
      BY <1>2, <2>3, <3>1 DEF Placed, Settled, ItemsOf, Shelving
    <3>3. QED
      BY <3>1, <3>2
  <2>4. ASSUME r.pc = "rmroot"
        PROVE  /\ archive'[<<r.name, r.shelf>>] = r.seen
               /\ r.name \in live' => "removal" \in excused'
    BY <1>2, <2>1, <2>4 DEF RmRoot, Settled, ShelfOf
  <2>5. ASSUME r.pc = "activate"
        PROVE  /\ r.name \in live' /\ active' = r.name
               /\ {"STATE", "phases"} \subseteq ItemsOf(ws'[r.name])
               /\ \A e \in r.seen : e.item \in r.moved => e \in ws'[r.to]
    BY <1>2, <2>1, <2>5 DEF Activate, Settled, ItemsOf, Has, Of
  <2>6. QED
    BY <2>2, <2>3, <2>4, <2>5 DEF Reply
<1>5. QED
    BY <1>1, <1>3, <1>4

\* A command answers what is true of the disk (workstream.cjs:117-168, 314-338), whatever the
\* others did meanwhile, but for two commands on one directory and a failed rollback.
THEOREM CommandsTellTheTruth == Spec => RepliesAreTrue
<1>1. SettledTypes /\ [Next]_vars =>
          \A p \in Procs : Answers(p) /\ ~Contested' /\ "rollback" \notin excused' => Reply(p)
    BY ReplyHolds DEF Calm
<1>2. QED
    BY <1>1, SettledHolds, PTL DEF RepliesAreTrue, Spec

-----------------------------------------------------------------------------
(* One health --repair is enough.                                            *)

Fixes == {"writeConfig", "addNyquistKey"}

\* config.json needs no repair, whoever is writing it.
Fixed == /\ config # Missing
         /\ IsJson => config.nyquist
         /\ config = Torn => \E q \in Procs : proc[q].pc = "fill"
         /\ \A q \in Procs : proc[q].pc \in Writing => proc[q].buf.nyquist

\* A repair that found config.json wanting works on it until it has put it right.
Fixing(r) == Repairing(r) /\ ~(r.seen \subseteq {"regenerateState"}) =>
    /\ r.pc \in {"trunc", "fill"} => r.buf.nyquist /\ r.left \cap Fixes = {}
    /\ r.pc \in {"repair", "regenerate"} =>
           /\ r.left \cap Fixes # {} => "config" \in r.on
           /\ "addNyquistKey" \in r.left =>
                  IsJson /\ ~config.nyquist /\ "writeConfig" \notin r.left
           /\ r.left \cap Fixes = {} => Fixed
FixingInv == excused = {} => \A p \in Procs : Fixing(proc[p])

LEMMA FixedAside ==
    ASSUME Fixed, NEW p \in Procs, \A q \in Others(p) : proc'[q] = proc[q],
           config' = config, proc[p].pc # "fill",
           proc'[p].pc \in Writing => proc'[p].buf.nyquist
    PROVE  Fixed'
<1>1. \A q \in Procs : q = p \/ proc'[q] = proc[q]
    BY DEF Others
<1>2. config # Missing /\ (IsJson => config.nyquist) /\ (IsJson' <=> IsJson)
    BY DEF Fixed, IsJson
<1>3. config = Torn => \E q \in Procs : proc'[q].pc = "fill"
    BY <1>1 DEF Fixed
<1>4. \A q \in Procs : proc'[q].pc \in Writing => proc'[q].buf.nyquist
    BY <1>1 DEF Fixed
<1>5. QED
    BY <1>2, <1>3, <1>4 DEF Fixed

\* What a step on the settings writes to config.json, if it needs no repair.
LEMMA SettingsFixed ==
    ASSUME Shape, TypedInv, StoreOK, ConfigInv, excused = {}, Fixed, NEW p \in Procs, SettingsStep(p)
    PROVE  Fixed'
<1> USE DEF Fields
<1> DEFINE r == proc[p]
<1>0. /\ DOMAIN proc = Procs /\ DOMAIN r = Fields /\ Sound(r) /\ Typed(r)
      /\ DOMAIN Idle = Fields /\ Idle.pc = "idle"
    BY DEF Shape, Sound, Idle, TypedInv
<1>h. \A q \in Others(p) : proc'[q] = proc[q]
    BY StepHonest
<1>f. config # Missing /\ (IsJson => config.nyquist) /\ (config # Torn => config \in Jsons /\ IsJson)
    BY DEF Fixed, StoreOK, IsJson, Jsons
<1>t. ASSUME NEW job, NEW c, NEW after, DOMAIN job = Fields
      PROVE  LET w == ToWrite(job, c, after)
             IN  DOMAIN w = Fields /\ w.pc = "trunc" /\ w.buf = c
    BY <1>t DEF ToWrite
<1>b. ASSUME NEW job, DOMAIN job = Fields, Begin(p, job)
      PROVE  proc'[p].pc = job.pc /\ proc'[p].buf = job.buf /\ r.pc = "idle"
    BY <1>0, <1>b DEF Begin
<1>w. ASSUME NEW job, NEW c, NEW after, DOMAIN job = Fields, Begin(p, ToWrite(job, c, after))
      PROVE  proc'[p].pc = "trunc" /\ proc'[p].buf = c /\ r.pc = "idle"
  <2> DEFINE w == ToWrite(job, c, after)
  <2>1. DOMAIN w = Fields /\ w.pc = "trunc" /\ w.buf = c
    BY <1>t, <1>w
  <2> HIDE DEF w
  <2>2. Begin(p, w)
    BY <1>w DEF w
  <2>3. QED
    BY <1>b, <2>1, <2>2
<1>g. ASSUME NEW job, NEW c, NEW after, DOMAIN job = Fields, Go(p, ToWrite(job, c, after))
      PROVE  proc'[p].pc = "trunc" /\ proc'[p].buf = c
    BY <1>0, <1>g, <1>t DEF Go
<1>a. ASSUME config' = config, r.pc # "fill", proc'[p].pc \in Writing => proc'[p].buf.nyquist
      PROVE  Fixed'
    BY <1>a, <1>h, FixedAside
<1>j. ASSUME NEW c \in Jsons
      PROVE  /\ \A k, v : WithKey(c, k, v).nyquist = c.nyquist
             /\ [c EXCEPT !.depth = FALSE].nyquist = c.nyquist
             /\ UpToDate(c).nyquist = c.nyquist
             /\ [c EXCEPT !.workflow = TRUE, !.nyquist = TRUE].nyquist = TRUE
    BY DEF WithKey, Jsons, UpToDate
<1>1. CASE Truncate(p)
  <2>1. config' = Torn /\ proc'[p] = [r EXCEPT !.pc = "fill"] /\ r.pc = "trunc"
    BY <1>0, <1>1 DEF Truncate, Go
  <2>2. proc'[p].pc = "fill" /\ proc'[p].buf = r.buf /\ r.buf.nyquist
    BY <1>0, <2>1 DEF Fixed, Writing
  <2>3. \A q \in Procs : q = p \/ proc'[q] = proc[q]
    BY <1>h DEF Others
  <2>4. \A q \in Procs : proc'[q].pc \in Writing => proc'[q].buf.nyquist
    BY <2>2, <2>3 DEF Fixed
  <2>5. QED
    BY <2>1, <2>2, <2>4 DEF Fixed, IsJson, Torn, Missing, NoBuffer
<1>2. CASE Fill(p)
  <2>1. /\ r.pc = "fill" /\ config' \in (IF IsJson THEN {r.buf, Torn} ELSE {r.buf})
        /\ proc'[p] = IF r.after = "idle" THEN Idle ELSE Written(r)
    BY <1>0, <1>2 DEF Fill, Go
  <2>2. config = Torn /\ r.buf \in Jsons /\ r.buf.nyquist
    BY <1>0, <2>1 DEF ConfigInv, Quiet, Fixed, Typed, Writing
  <2>3. config' = r.buf
    BY <2>1, <2>2 DEF IsJson, Torn
  <2>4. proc'[p].pc \in Writing => proc'[p].buf = r.buf
    BY <1>0, <2>1 DEF Written, Writing, Sound
  <2>5. \A q \in Procs : q = p \/ proc'[q] = proc[q]
    BY <1>h DEF Others
  <2>6. \A q \in Procs : proc'[q].pc \in Writing => proc'[q].buf.nyquist
    BY <2>2, <2>4, <2>5 DEF Fixed
  <2>7. config' # Missing /\ config' # Torn
    BY <2>2, <2>3 DEF Jsons, Missing, NoBuffer, Torn
  <2>8. QED
    BY <2>2, <2>3, <2>6, <2>7 DEF Fixed
<1>3. CASE NewProject(p)
    BY <1>3, <1>f DEF NewProject, EnsureConfig
<1>4. CASE SetValue(p)
  <2>1. r.pc = "read" /\ config' = config
    BY <1>4 DEF SetValue, store
  <2>2. CASE config = Torn
    <3>1. proc'[p].pc = "idle"
      BY <1>0, <1>4, <2>2 DEF SetValue, Continue, Go
    <3>2. QED
      BY <1>a, <2>1, <3>1 DEF Writing
  <2>3. CASE config # Torn
    <3>1. Go(p, ToWrite(r, WithKey(config, r.name, r.id), "idle"))
      BY <1>4, <1>f, <2>3 DEF SetValue, Continue
    <3>2. proc'[p].buf = WithKey(config, r.name, r.id)
      BY <1>0, <1>g, <3>1
    <3>3. proc'[p].buf.nyquist = config.nyquist
      BY <1>f, <1>j, <2>3, <3>2
    <3>4. QED
      BY <1>a, <1>f, <2>1, <2>3, <3>3
  <2>4. QED
    BY <2>2, <2>3
<1>5. CASE LoadConfig(p)
  <2>1. config' = config /\ IsJson /\ config \in Jsons
    BY <1>5, <1>f DEF LoadConfig, store, IsJson, Torn
  <2>2. \E c, after : c.nyquist = config.nyquist /\ Begin(p, ToWrite(Idle, c, after))
    <3> DEFINE c == [config EXCEPT !.depth = FALSE]
               d == UpToDate(config)
    <3>1. c.nyquist = config.nyquist /\ d.nyquist = config.nyquist
      BY <1>j, <2>1
    <3>2. Begin(p, ToWrite(Idle, c, "sync")) \/ Begin(p, ToWrite(Idle, d, "idle"))
      BY <1>5 DEF LoadConfig
    <3> HIDE DEF c, d
    <3>3. QED
      BY <3>1, <3>2
  <2>3. r.pc = "idle" /\ proc'[p].buf.nyquist = config.nyquist
    BY <1>0, <1>w, <2>2
  <2>4. QED
    BY <1>a, <1>f, <2>1, <2>3
<1>6. CASE SyncRepos(p)
  <2> DEFINE c == UpToDate(r.buf)
  <2>1. r.pc = "sync" /\ (Go(p, ToWrite(r, c, "idle")) \/ Go(p, Idle)) /\ config' = config
    BY <1>6 DEF SyncRepos
  <2>2. c.nyquist = r.buf.nyquist /\ r.buf.nyquist
    BY <1>0, <1>j, <2>1 DEF Typed, Writing, Fixed
  <2> HIDE DEF c
  <2>3. proc'[p].pc = "idle" \/ proc'[p].buf = c
    BY <1>0, <1>g, <2>1 DEF Go
  <2>4. QED
    BY <1>a, <2>1, <2>2, <2>3 DEF Writing
<1>7. ASSUME NEW k \in Keys, NEW ensure \in BOOLEAN, BeginSet(p, k, ensure)
      PROVE  Fixed'
  <2> DEFINE job == [Idle EXCEPT !.name = k, !.pc = "read"]
  <2>1. Begin(p, job) /\ config' = config
    BY <1>7, <1>f DEF BeginSet, store
  <2>2. DOMAIN job = Fields /\ job.pc = "read"
    BY <1>0
  <2> HIDE DEF job
  <2>3. QED
    BY <1>a, <1>b, <2>1, <2>2 DEF Writing
<1>8. ASSUME NEW n \in Names \cup {None}, BeginHealth(p, n)
      PROVE  Fixed'
  <2>1. config' = config /\ \E job : DOMAIN job = Fields /\ job.pc = "repair" /\ Begin(p, job)
    BY <1>0, <1>8 DEF BeginHealth, store
  <2>2. QED
    BY <1>a, <1>b, <2>1 DEF Writing
<1>9. CASE BackupState(p)
  <2>1. config' = config /\ r.pc = "repair" /\ proc'[p].pc = "regenerate"
    BY <1>0, <1>9 DEF BackupState, Repaired, Go, store
  <2>2. QED
    BY <1>a, <2>1 DEF Writing
<1>10. CASE RegenerateState(p)
  <2>1. config' = config /\ r.pc = "regenerate" /\ proc'[p].pc = "repair"
    BY <1>0, <1>10 DEF RegenerateState, Go, store
  <2>2. QED
    BY <1>a, <2>1 DEF Writing
<1>11. CASE ResetConfig(p)
  <2> DEFINE j == Repaired(r, "writeConfig")
  <2>1. r.pc = "repair" /\ Go(p, ToWrite(j, Defaults, "repair")) /\ config' = config
    BY <1>11 DEF ResetConfig, Continue, store
  <2>2. DOMAIN j = Fields
    BY <1>0 DEF Repaired
  <2> HIDE DEF j
  <2>3. proc'[p].buf = Defaults
    BY <1>g, <2>1, <2>2
  <2>4. QED
    BY <1>a, <2>1, <2>3 DEF Defaults, Json
<1>12. CASE AddNyquistKey(p)
  <2> DEFINE j == Repaired(r, "addNyquistKey")
             c == [config EXCEPT !.workflow = TRUE, !.nyquist = TRUE]
  <2>1. /\ r.pc = "repair" /\ config' = config
        /\ Go(p, j) \/ (IsJson /\ Go(p, ToWrite(j, c, "repair")))
    BY <1>12 DEF AddNyquistKey, Continue, store
  <2>2. DOMAIN j = Fields /\ j.pc = "repair"
    BY <1>0, <2>1 DEF Repaired
  <2>3. IsJson => c.nyquist = TRUE
    BY <1>f, <1>j DEF IsJson, Torn
  <2> HIDE DEF j, c
  <2>4. proc'[p].pc = "repair" \/ (IsJson /\ proc'[p].buf = c)
    BY <1>0, <1>g, <2>1, <2>2 DEF Go
  <2>5. QED
    BY <1>a, <2>1, <2>3, <2>4 DEF Writing
<1>13. CASE EndHealth(p)
  <2>1. config' = config /\ r.pc = "repair" /\ proc'[p].pc = "idle"
    BY <1>0, <1>13 DEF EndHealth, Go, store
  <2>2. QED
    BY <1>a, <2>1 DEF Writing
<1>14. CASE BeginTodo(p)
  <2>1. config' = config /\ \E job : DOMAIN job = Fields /\ job.pc = "todoTrunc" /\ Begin(p, job)
    BY <1>0, <1>14 DEF BeginTodo, store
  <2>2. QED
    BY <1>a, <1>b, <2>1 DEF Writing
<1>15. CASE TodoStep(p)
  <2>1. /\ config' = config /\ r.pc \in {"todoTrunc", "todoFill", "unlink"}
        /\ proc'[p].pc \in {"todoFill", "unlink", "idle"}
    BY <1>0, <1>15 DEF TodoStep, Go
  <2>2. QED
    BY <1>a, <2>1 DEF Writing
<1>16. QED
    BY <1>1, <1>2, <1>3, <1>4, <1>5, <1>6, <1>7, <1>8, <1>9, <1>10, <1>11, <1>12, <1>13,
       <1>14, <1>15 DEF SettingsStep

LEMMA FixedStep ==
    ASSUME Shape, TypedInv, StoreOK, ConfigInv, excused' = {}, Fixed, [Next]_vars
    PROVE  Fixed'
<1>1. ASSUME NEW p \in Procs, WorkstreamStep(p), UNCHANGED store
      PROVE  Fixed'
    BY <1>1, WorkstreamPc, StepHonest, FixedAside
       DEF Managing, Creating, Completing, Writing, store
<1>2. ASSUME NEW p \in Procs, SettingsStep(p)
      PROVE  Fixed'
  <2>1. excused = {}
    BY <1>2, StepHonest DEF Honest
  <2>2. QED
    BY <1>2, <2>1, SettingsFixed
<1>3. ASSUME NEW p \in Procs, Crash(p)
      PROVE  Fixed'
  <2>1. config' = config /\ proc'[p].pc = "idle" /\ proc[p].pc # "fill"
    BY <1>3 DEF Crash, Go, Shape, Idle, store
  <2>2. QED
    BY <1>3, <2>1, StepHonest, FixedAside DEF Writing
<1>4. CASE UNCHANGED <<proc, config>>
    BY <1>4 DEF Fixed, IsJson
<1>5. QED
    BY <1>1, <1>2, <1>3, <1>4 DEF Next, RepoAppears, vars, store

\* Only these steps leave a repair under way.
LEMMA BesideRepairs ==
    ASSUME Shape, NEW p \in Procs, SettingsStep(p), Repairing(proc'[p])
    PROVE  \/ Truncate(p) \/ Fill(p) \/ \E n \in Names \cup {None} : BeginHealth(p, n)
           \/ BackupState(p) \/ RegenerateState(p) \/ ResetConfig(p) \/ AddNyquistKey(p)
<1> DEFINE r == proc[p]
<1> USE DEF Fields
<1>0. /\ DOMAIN proc = Procs /\ DOMAIN r = Fields
      /\ DOMAIN Idle = Fields /\ Idle.pc = "idle" /\ Idle.after = "idle"
    BY DEF Shape, Sound, Idle
<1>r. /\ proc'[p].pc \notin {"idle", "read", "sync", "todoTrunc", "todoFill", "unlink"}
      /\ proc'[p].pc = "trunc" => proc'[p].after = "repair"
    BY DEF Repairing
<1>t. ASSUME NEW job, NEW c, NEW after, DOMAIN job = Fields
      PROVE  LET w == ToWrite(job, c, after)
             IN  DOMAIN w = Fields /\ w.pc = "trunc" /\ w.after = after
    BY <1>t DEF ToWrite
<1>b. ASSUME NEW job, DOMAIN job = Fields, Begin(p, job)
      PROVE  proc'[p].pc = job.pc /\ proc'[p].after = job.after
    BY <1>0, <1>b DEF Begin
<1>c. ASSUME NEW job, NEW c, NEW after, DOMAIN job = Fields, Begin(p, ToWrite(job, c, after))
      PROVE  after = "repair"
  <2> DEFINE w == ToWrite(job, c, after)
  <2>1. DOMAIN w = Fields /\ w.pc = "trunc" /\ w.after = after
    BY <1>c, <1>t
  <2> HIDE DEF w
  <2>2. Begin(p, w)
    BY <1>c DEF w
  <2>3. QED
    BY <1>b, <1>r, <2>1, <2>2
<1>g. ASSUME NEW c, NEW after, Go(p, ToWrite(r, c, after))
      PROVE  after = "repair"
    BY <1>0, <1>g, <1>r, <1>t DEF Go
<1>1. ~NewProject(p)
    BY <1>0, <1>c DEF NewProject, EnsureConfig
<1>2. ~SetValue(p)
    BY <1>0, <1>g, <1>r DEF SetValue, Continue, Go
<1>3. ~LoadConfig(p)
    BY <1>0, <1>c DEF LoadConfig
<1>4. ~SyncRepos(p)
    BY <1>0, <1>g, <1>r DEF SyncRepos, Go
<1>5. ASSUME NEW k \in Keys, NEW ensure \in BOOLEAN, BeginSet(p, k, ensure)
      PROVE  FALSE
  <2> DEFINE job == [Idle EXCEPT !.name = k, !.pc = "read"]
  <2>1. Begin(p, ToWrite(job, Defaults, "read")) \/ Begin(p, job)
    BY <1>5 DEF BeginSet
  <2>2. DOMAIN job = Fields /\ job.pc = "read"
    BY <1>0
  <2> HIDE DEF job
  <2>3. QED
    BY <1>b, <1>c, <1>r, <2>1, <2>2
<1>6. ~EndHealth(p)
    BY <1>0, <1>r DEF EndHealth, Go
<1>7. ~BeginTodo(p)
  <2>1. BeginTodo(p) => \E job : DOMAIN job = Fields /\ job.pc = "todoTrunc" /\ Begin(p, job)
    BY <1>0 DEF BeginTodo
  <2>2. QED
    BY <1>b, <1>r, <2>1
<1>8. ~TodoStep(p)
    BY <1>0, <1>r DEF TodoStep, Go
<1>9. QED
    BY <1>1, <1>2, <1>3, <1>4, <1>5, <1>6, <1>7, <1>8 DEF SettingsStep

LEMMA ConfigBy ==
    ASSUME Shape, NEW p \in Procs, (WorkstreamStep(p) /\ UNCHANGED store) \/ SettingsStep(p) \/ Crash(p)
    PROVE  config' = config \/ (proc[p].pc \in {"trunc", "fill"} /\ "config" \in proc[p].on)
<1>1. config' = config \/ Truncate(p) \/ Fill(p)
    BY DEF SettingsStep, NewProject, EnsureConfig, SetValue, LoadConfig, SyncRepos, BeginSet,
       BeginHealth, BackupState, RegenerateState, ResetConfig, AddNyquistKey, EndHealth,
       BeginTodo, TodoStep, Crash, store
<1>2. Truncate(p) \/ Fill(p) => proc[p].pc \in {"trunc", "fill"}
    BY DEF Truncate, Fill
<1>3. proc[p].pc \in {"trunc", "fill"} => "config" \in proc[p].on
    BY DEF Shape, Sound, Writing
<1>4. QED
    BY <1>1, <1>2, <1>3

LEMMA FixingOthers ==
    ASSUME Shape, Exclusive, excused = {}, Fixed => Fixed', NEW p \in Procs, NEW q \in Others(p),
           config' = config \/ "config" \in proc[p].on,
           proc'[q] = proc[q], Fixing(proc[q])
    PROVE  Fixing(proc[q])'
<1>1. "config" \in proc[q].on => config' = config
    BY DEF Exclusive, Others
<1>2. proc[q].pc \in {"repair", "regenerate"} /\ proc[q].left \cap Fixes = {} /\ Fixed => Fixed'
    OBVIOUS
<1>3. CASE ~Repairing(proc[q]) \/ proc[q].seen \subseteq {"regenerateState"}
    BY <1>3 DEF Fixing, Repairing
<1>4. CASE Repairing(proc[q]) /\ ~(proc[q].seen \subseteq {"regenerateState"})
  <2>1. CASE proc[q].left \cap Fixes # {} /\ proc[q].pc \in {"repair", "regenerate"}
    <3>1. config' = config
      BY <1>1, <1>4, <2>1 DEF Fixing
    <3>2. QED
      BY <1>4, <2>1, <3>1 DEF Fixing, IsJson
  <2>2. CASE proc[q].left \cap Fixes = {} /\ proc[q].pc \in {"repair", "regenerate"}
    BY <1>2, <1>4, <2>2 DEF Fixing, Fixes
  <2>3. CASE proc[q].pc \notin {"repair", "regenerate"}
    BY <1>4, <2>3 DEF Fixing
  <2>4. QED
    BY <2>1, <2>2, <2>3
<1>5. QED
    BY <1>3, <1>4

\* What a repair has still to do after a step of its own.
LEMMA FixingOwn ==
    ASSUME Shape, Exclusive, TypedInv, StoreOK, ConfigInv, excused = {}, Fixed => Fixed',
           NEW p \in Procs, Fixing(proc[p]), SettingsStep(p)
    PROVE  Fixing(proc[p])'
<1> SUFFICES ASSUME Repairing(proc'[p]), ~(proc'[p].seen \subseteq {"regenerateState"})
             PROVE  Fixing(proc[p])'
    BY DEF Fixing
<1> USE DEF Fields
<1> DEFINE r == proc[p]
           Goal == Fixing(proc[p])'
<1>0. /\ DOMAIN proc = Procs /\ DOMAIN r = Fields /\ DOMAIN Idle = Fields
      /\ Sound(r) /\ Typed(r)
    BY DEF Shape, Sound, Idle, TypedInv
<1>h. \A q \in Others(p) : proc'[q] = proc[q]
    BY StepHonest
<1>t. ASSUME NEW job, NEW c, NEW after, DOMAIN job = Fields
      PROVE  LET w == ToWrite(job, c, after)
             IN  /\ DOMAIN w = Fields /\ w.pc = "trunc" /\ w.after = after
                 /\ w.left = job.left /\ w.seen = job.seen /\ w.buf = c
    BY <1>t DEF ToWrite
<1>r. ASSUME r.pc \in {"repair", "regenerate"}, proc'[p].seen = r.seen
      PROVE  /\ r.left \cap Fixes # {} => "config" \in r.on
             /\ "addNyquistKey" \in r.left => IsJson /\ ~config.nyquist /\ "writeConfig" \notin r.left
             /\ r.left \cap Fixes = {} => Fixed
    BY <1>r DEF Fixing, Repairing
<1>1. CASE Truncate(p)
  <2>1. r.pc = "trunc" /\ proc'[p] = [r EXCEPT !.pc = "fill"]
    BY <1>0, <1>1 DEF Truncate, Go
  <2>2. /\ proc'[p].pc = "fill" /\ proc'[p].after = r.after /\ proc'[p].seen = r.seen
        /\ proc'[p].buf = r.buf /\ proc'[p].left = r.left
    BY <1>0, <2>1
  <2>3. Repairing(r)
    BY <2>1, <2>2 DEF Repairing
  <2>4. QED
    BY <2>1, <2>2, <2>3 DEF Fixing
<1>2. CASE Fill(p)
  <2>1. /\ r.pc = "fill" /\ config' \in (IF IsJson THEN {r.buf, Torn} ELSE {r.buf})
        /\ proc'[p] = IF r.after = "idle" THEN Idle ELSE Written(r)
    BY <1>0, <1>2 DEF Fill, Go
  <2>2. r.after = "repair"
    <3>1. CASE r.after = "idle"
      BY <2>1, <3>1 DEF Idle, Repairing
    <3>2. CASE r.after \in {"sync", "read"}
      <4>1. proc'[p].pc = r.after
        BY <1>0, <2>1, <3>2 DEF Written
      <4>2. QED
        BY <3>2, <4>1 DEF Repairing
    <3>3. QED
      BY <1>0, <2>1, <3>1, <3>2 DEF Sound, Writing
  <2>3. proc'[p].pc = "repair" /\ proc'[p].seen = r.seen /\ proc'[p].left = r.left
    BY <1>0, <2>1, <2>2 DEF Written
  <2>4. r.buf.nyquist /\ r.left \cap Fixes = {} /\ r.buf \in Jsons
    BY <1>0, <2>1, <2>2, <2>3 DEF Fixing, Repairing, Typed, Writing
  <2>5. config = Torn
    BY <2>1 DEF ConfigInv, Quiet
  <2>6. config' = r.buf /\ config' \in Jsons
    BY <2>1, <2>4, <2>5 DEF IsJson, Torn
  <2>7. \A q \in Others(p) : proc'[q].pc \notin Writing
    BY <1>0, <1>h, <2>1, Alone DEF Sound, Writing
  <2>8. \A q \in Procs : proc'[q].pc \notin Writing
    BY <2>3, <2>7 DEF Others, Writing
  <2>9. config' # Missing /\ config' # Torn
    BY <2>6 DEF Jsons, Missing, NoBuffer, Torn
  <2>10. Fixed'
    BY <2>4, <2>6, <2>8, <2>9 DEF Fixed
  <2>11. QED
    BY <2>3, <2>4, <2>10 DEF Fixing, Fixes
<1>3. ASSUME NEW n \in Names \cup {None}, BeginHealth(p, n)
      PROVE  Goal
  <2> DEFINE left == Repairable(n)
             on == {n} \cup IF left \subseteq {"regenerateState"} THEN {} ELSE {"config"}
             job == [Idle EXCEPT !.pc = "repair", !.name = n, !.left = left, !.seen = left,
                                 !.on = on]
  <2>1. Begin(p, job) /\ config' = config
    BY <1>3 DEF BeginHealth, store
  <2>2. /\ left \subseteq {"regenerateState", "writeConfig", "addNyquistKey"}
        /\ "addNyquistKey" \in left => IsJson /\ ~config.nyquist /\ "writeConfig" \notin left
    BY DEF Repairable
  <2>3. ~(left \subseteq {"regenerateState"}) => "config" \in on
    OBVIOUS
  <2> HIDE DEF left, on
  <2>4. /\ DOMAIN job = Fields /\ job.pc = "repair" /\ job.left = left /\ job.seen = left
        /\ job.on = on
    BY <1>0
  <2> HIDE DEF job
  <2>5. /\ proc'[p].pc = "repair" /\ proc'[p].left = left /\ proc'[p].seen = left
        /\ proc'[p].on = on
    BY <1>0, <2>1, <2>4 DEF Begin
  <2>6. left \cap Fixes # {} /\ "config" \in on
    BY <2>2, <2>3, <2>5 DEF Fixes
  <2>7. "addNyquistKey" \in left => IsJson' /\ ~config'.nyquist /\ "writeConfig" \notin left
    BY <2>1, <2>2 DEF IsJson
  <2>8. QED
    BY <2>5, <2>6, <2>7 DEF Fixing
<1>4. CASE BackupState(p)
  <2>1. /\ r.pc = "repair" /\ config' = config
        /\ proc'[p] = [Repaired(r, "regenerateState") EXCEPT !.pc = "regenerate"]
    BY <1>0, <1>4 DEF BackupState, Go, store
  <2>2. /\ proc'[p].pc = "regenerate" /\ proc'[p].seen = r.seen /\ proc'[p].on = r.on
        /\ proc'[p].left = r.left \ {"regenerateState"}
    BY <1>0, <2>1 DEF Repaired
  <2>3. proc'[p].left \cap Fixes = r.left \cap Fixes
    BY <2>2 DEF Fixes
  <2>4. IsJson' = IsJson
    BY <2>1 DEF IsJson
  <2>5. QED
    BY <1>r, <2>1, <2>2, <2>3, <2>4 DEF Fixing
<1>5. CASE RegenerateState(p)
  <2>1. r.pc = "regenerate" /\ config' = config /\ proc'[p] = [r EXCEPT !.pc = "repair"]
    BY <1>0, <1>5 DEF RegenerateState, Go, store
  <2>2. /\ proc'[p].pc = "repair" /\ proc'[p].seen = r.seen /\ proc'[p].on = r.on
        /\ proc'[p].left = r.left
    BY <1>0, <2>1
  <2>3. IsJson' = IsJson
    BY <2>1 DEF IsJson
  <2>4. QED
    BY <1>r, <2>1, <2>2, <2>3 DEF Fixing
<1>6. CASE ResetConfig(p)
  <2> DEFINE j == Repaired(r, "writeConfig")
             w == ToWrite(j, Defaults, "repair")
  <2>1. r.pc = "repair" /\ Go(p, w) /\ "writeConfig" \in r.left
    BY <1>6 DEF ResetConfig, Continue
  <2>2. DOMAIN j = Fields /\ j.seen = r.seen /\ j.left = r.left \ {"writeConfig"}
    BY <1>0 DEF Repaired
  <2> HIDE DEF j
  <2>3. w.pc = "trunc" /\ w.after = "repair" /\ w.left = j.left /\ w.seen = j.seen /\ w.buf = Defaults
    BY <1>t, <2>2
  <2> HIDE DEF w
  <2>4. /\ proc'[p].pc = "trunc" /\ proc'[p].seen = r.seen /\ proc'[p].left = r.left \ {"writeConfig"}
        /\ proc'[p].buf = Defaults
    BY <1>0, <2>1, <2>2, <2>3 DEF Go
  <2>5. "addNyquistKey" \notin r.left
    BY <1>r, <2>1, <2>4
  <2>6. Defaults.nyquist
    BY DEF Defaults, Json
  <2>7. QED
    BY <2>4, <2>5, <2>6 DEF Fixing, Fixes
<1>7. CASE AddNyquistKey(p)
  <2> DEFINE j == Repaired(r, "addNyquistKey")
             c == [config EXCEPT !.workflow = TRUE, !.nyquist = TRUE]
             w == ToWrite(j, c, "repair")
  <2>1. /\ r.pc = "repair" /\ r.left = {"addNyquistKey"}
        /\ IF IsJson /\ ~config.nyquist THEN Go(p, w) ELSE Go(p, j)
    BY <1>7 DEF AddNyquistKey, Continue
  <2>2. DOMAIN j = Fields /\ j.seen = r.seen /\ j.left = {}
    BY <1>0, <2>1 DEF Repaired
  <2>3. IsJson => c.nyquist
    BY DEF StoreOK, Jsons, IsJson, Missing, NoBuffer, Torn
  <2> HIDE DEF j, c
  <2>4. w.pc = "trunc" /\ w.after = "repair" /\ w.left = {} /\ w.seen = j.seen /\ w.buf = c
    BY <1>t, <2>2
  <2> HIDE DEF w
  <2>5. proc'[p].seen = r.seen
    BY <1>0, <2>1, <2>2, <2>4 DEF Go
  <2>6. IsJson /\ ~config.nyquist
    BY <1>r, <2>1, <2>5
  <2>7. proc'[p].pc = "trunc" /\ proc'[p].left = {} /\ proc'[p].buf = c
    BY <1>0, <2>1, <2>4, <2>6 DEF Go
  <2>8. QED
    BY <2>3, <2>6, <2>7 DEF Fixing
<1>8. QED
    BY <1>1, <1>2, <1>3, <1>4, <1>5, <1>6, <1>7, BesideRepairs

LEMMA FixingStep ==
    Shape /\ Exclusive /\ TypedInv /\ StoreOK /\ ConfigInv /\ FixingInv /\ [Next]_vars => FixingInv'
<1> SUFFICES ASSUME Shape, Exclusive, TypedInv, StoreOK, ConfigInv, FixingInv, [Next]_vars, excused' = {}
             PROVE  \A q \in Procs : Fixing(proc[q])'
    BY DEF FixingInv
<1>f. Fixed => Fixed'
    BY FixedStep
<1>1. ASSUME NEW p \in Procs, (WorkstreamStep(p) /\ UNCHANGED store) \/ SettingsStep(p) \/ Crash(p)
      PROVE  \A q \in Procs : Fixing(proc[q])'
  <2>1. Honest(p) /\ \A q \in Others(p) : proc'[q] = proc[q]
    BY <1>1, StepHonest
  <2>2. excused = {} /\ \A q \in Procs : Fixing(proc[q])
    BY <2>1 DEF Honest, FixingInv
  <2>3. Fixing(proc[p])'
    <3>1. CASE WorkstreamStep(p)
      BY <3>1, WorkstreamPc DEF Managing, Creating, Completing, Fixing, Repairing
    <3>2. CASE SettingsStep(p)
      BY <1>f, <2>2, <3>2, FixingOwn
    <3>3. CASE Crash(p)
      BY <3>3 DEF Crash, Go, Shape, Idle, Fixing, Repairing
    <3>4. QED
      BY <1>1, <3>1, <3>2, <3>3
  <2>4. config' = config \/ "config" \in proc[p].on
    BY <1>1, ConfigBy
  <2>5. ASSUME NEW q \in Others(p) PROVE Fixing(proc[q])'
    BY <1>f, <2>1, <2>2, <2>4, FixingOthers DEF Others
  <2>6. \A q \in Procs : q = p \/ q \in Others(p)
    BY DEF Others
  <2>7. QED
    BY <2>3, <2>5, <2>6
<1>2. CASE UNCHANGED <<config, proc, excused>>
  <2>1. \A q \in Procs : Fixing(proc[q])
    BY <1>2 DEF FixingInv
  <2>2. QED
    BY <1>2, <1>f, <2>1 DEF Fixing, Repairing, IsJson
<1>3. QED
    BY <1>1, <1>2 DEF Next, RepoAppears, vars, store

FixingTypes == SettledTypes /\ FixingInv

LEMMA FixingHolds == Spec => []FixingTypes
<1>1. Init => FixingInv
  <2>1. Init => \A p \in Procs : proc[p] = Idle
    BY DEF Init, WorkstreamInit
  <2>2. QED
    BY <2>1 DEF FixingInv, Fixing, Idle, Repairing
<1>2. SettledTypes /\ FixingInv /\ [Next]_vars => FixingInv'
    BY FixingStep DEF SettledTypes, Inv, TypeInv
<1>3. QED
    BY <1>1, <1>2, SettledHolds, PTL DEF Spec, FixingTypes

LEMMA RepairDone ==
    ASSUME FixingTypes, [Next]_vars, NEW p \in Procs, Answers(p), proc[p].pc = "repair",
           excused = {}, \A q \in Others(p) : proc[q] = Idle
    PROVE  LET found == proc[p].seen
               again == Repairable(proc[p].name)
           IN  /\ "regenerateState" \in found => "regenerateState" \notin again
               /\ ~(found \subseteq {"regenerateState"}) => again \subseteq {"regenerateState"}
<1> DEFINE r == proc[p]
<1>0. /\ Shape /\ TypedInv /\ DOMAIN proc = Procs /\ DOMAIN r = Fields /\ Sound(r)
      /\ DOMAIN Idle = Fields
    BY DEF FixingTypes, SettledTypes, Inv, TypeInv, Shape, Sound, Idle, Fields
<1>1. WorkstreamStep(p) \/ SettingsStep(p)
    BY <1>0, Answering
<1>2. SettingsStep(p)
    BY <1>0, <1>1, WorkstreamPc DEF Managing, Creating, Completing
<1>3. proc'[p].pc = "idle"
    BY DEF Answers
<1>4. r.left = {}
  <2> USE DEF Fields
  <2>1. ~BackupState(p) /\ ~RegenerateState(p)
    BY <1>0, <1>3 DEF BackupState, Repaired, RegenerateState, Go
  <2>2. \A j, c, after : DOMAIN j = Fields => ToWrite(j, c, after).pc = "trunc"
    BY DEF ToWrite
  <2>3. \A x : DOMAIN Repaired(r, x) = Fields /\ Repaired(r, x).pc = "repair"
    BY <1>0 DEF Repaired
  <2>4. ~ResetConfig(p)
    BY <1>0, <1>3, <2>2, <2>3 DEF ResetConfig, Continue, Go
  <2>5. ~AddNyquistKey(p)
    BY <1>0, <1>3, <2>2, <2>3 DEF AddNyquistKey, Continue, Go
  <2>6. EndHealth(p)
    BY <1>2, <2>1, <2>4, <2>5 DEF SettingsStep, Truncate, Fill, NewProject, EnsureConfig,
       SetValue, LoadConfig, SyncRepos, BeginSet, BeginHealth, BeginTodo, TodoStep, Begin
  <2>7. QED
    BY <2>6 DEF EndHealth
<1>5. "regenerateState" \in r.seen => Has(Dir(r.name), "STATE")
  <2>1. Settled(r) /\ Repairing(r)
    BY DEF FixingTypes, SettledTypes, SettledInv, Calm, Contested, Repairing
  <2>2. QED
    BY <1>4, <2>1 DEF Settled
<1>6. ~(r.seen \subseteq {"regenerateState"}) => IsJson /\ config.nyquist
  <2>1. SUFFICES ASSUME ~(r.seen \subseteq {"regenerateState"}) PROVE IsJson /\ config.nyquist
    OBVIOUS
  <2>2. Fixed
    BY <1>4, <2>1 DEF FixingTypes, FixingInv, Fixing, Repairing
  <2>3. \A q \in Procs : proc[q].pc # "fill"
    BY DEF Others, Idle
  <2>4. config # Missing /\ config # Torn
    BY <2>2, <2>3 DEF Fixed
  <2>5. IsJson
    BY <2>4 DEF FixingTypes, SettledTypes, TypeInv, StoreOK, IsJson, Jsons
  <2>6. QED
    BY <2>2, <2>5 DEF Fixed
<1>7. QED
    BY <1>5, <1>6 DEF Repairable

\* One health --repair is enough (verify.cjs:762-834), for any number of processes, commands
\* and faults before it, as long as no two commands worked on one file.
THEOREM OneRepairSettles == Spec => RepairSettles
<1>1. FixingTypes /\ [Next]_vars =>
          \A p \in Procs :
            /\ Answers(p) /\ proc[p].pc = "repair"
            /\ excused = {} /\ \A q \in Others(p) : proc[q] = Idle
            => LET found == proc[p].seen
                   again == Repairable(proc[p].name)
               IN  /\ "regenerateState" \in found => "regenerateState" \notin again
                   /\ ~(found \subseteq {"regenerateState"}) => again \subseteq {"regenerateState"}
    BY RepairDone
<1>2. QED
    BY <1>1, FixingHolds, PTL DEF RepairSettles, Spec

-----------------------------------------------------------------------------
(* The files the project started with stay together.                         *)

Old == {e \in made : e.by = 0}
OldInv == \A e \in Old : e.item \in MoveItems

\* A process that is moving the entries es has them at the two ends of its move.
Carries(r, es) ==
    \/ r.pc \in {"move", "undo"} /\ es \subseteq root \cup ws[r.to]
    \/ Shelving(r) /\ es \subseteq ws[r.name] \cup archive[ShelfOf(r)]
Together(es) ==
    \/ es \subseteq root
    \/ \E n \in Names : es \subseteq ws[n]
    \/ \E s \in Shelves : es \subseteq archive[s]
    \/ \E p \in Procs : Carries(proc[p], es)
Intact == Calm /\ "crash" \notin excused
TogetherInv == Intact => Together(Old)

\* A step adds to made at most an entry of its own command.
LEMMA MadeStep ==
    ASSUME Shape, TypedInv, [Next]_vars
    PROVE  made \subseteq made' /\ \A e \in made' : e \in made \/ e.by # 0
<1>1. ASSUME NEW p \in Procs, WriteState(p) \/ RegenerateState(p)
      PROVE  made \subseteq made' /\ \A e \in made' : e \in made \/ e.by # 0
  <2>1. proc[p].id # 0
    BY <1>1 DEF WriteState, RegenerateState, TypedInv, Typed
  <2>2. made' = made \cup {[item |-> "STATE", by |-> proc[p].id]} \/ made' = made
    BY <1>1 DEF WriteState, RegenerateState
  <2>3. QED
    BY <2>1, <2>2
<1>2. CASE made' = made
    BY <1>2
<1>3. ASSUME NEW p \in Procs, WorkstreamStep(p), ~WriteState(p)
      PROVE  made' = made
    BY <1>3 DEF WorkstreamStep, BeginCreate, Guard, MkdirTarget, Move, MoveFails, Undo, PassOver,
       Clean, MakeDirs, Activate, BeginComplete, MakeShelf, Out, OutFails, Back, DropShelf, Rmdir,
       RmRoot, RemovalFails, SetActive
<1>4. ASSUME NEW p \in Procs, SettingsStep(p), ~RegenerateState(p)
      PROVE  made' = made
    BY <1>4 DEF SettingsStep, Truncate, Fill, NewProject, EnsureConfig, SetValue, LoadConfig,
       SyncRepos, BeginSet, BeginHealth, BackupState, ResetConfig, AddNyquistKey, EndHealth,
       BeginTodo, TodoStep
<1>5. ASSUME NEW p \in Procs, Crash(p)
      PROVE  made' = made
    BY <1>5 DEF Crash
<1>6. QED
    BY <1>1, <1>2, <1>3, <1>4, <1>5 DEF Next, RepoAppears, vars

LEMMA OldStep == ASSUME Shape, TypedInv, [Next]_vars PROVE Old' = Old
BY MadeStep DEF Old

\* A step that only adds to directories, of a process that carries nothing or goes on with it.
LEMMA TogetherGrows ==
    ASSUME Shape, NEW p \in Procs, \A q \in Others(p) : proc'[q] = proc[q],
           root \subseteq root', \A n \in Names : ws[n] \subseteq ws'[n], UNCHANGED archive,
           proc[p].pc \in {"move", "undo"} =>
               proc'[p].pc \in {"move", "undo"} /\ proc'[p].to = proc[p].to,
           Shelving(proc[p]) => Shelving(proc'[p]) /\ ShelfOf(proc'[p]) = ShelfOf(proc[p]),
           NEW es, Together(es)
    PROVE  Together(es)'
<1>1. CASE es \subseteq root \/ (\E n \in Names : es \subseteq ws[n]) \/ \E s \in Shelves : es \subseteq archive[s]
  <2>1. es \subseteq root' \/ (\E n \in Names : es \subseteq ws'[n]) \/ \E s \in Shelves : es \subseteq archive'[s]
    BY <1>1
  <2>2. QED
    BY <2>1 DEF Together
<1>2. ASSUME NEW q \in Procs, Carries(proc[q], es)
      PROVE  Together(es)'
  <2>1. /\ proc[q].pc \in {"move", "undo"} => proc'[q].pc \in {"move", "undo"} /\ proc'[q].to = proc[q].to
        /\ Shelving(proc[q]) => Shelving(proc'[q]) /\ ShelfOf(proc'[q]) = ShelfOf(proc[q])
    BY DEF Others
  <2>2. ShelfOf(proc'[q]) = ShelfOf(proc[q]) => proc'[q].name = proc[q].name
    BY DEF ShelfOf
  <2>3. CASE proc[q].pc \in {"move", "undo"} /\ es \subseteq root \cup ws[proc[q].to]
    <3>1. proc[q].to \in Names
      BY <2>3 DEF Shape, Sound, Migrating
    <3>2. proc'[q].pc \in {"move", "undo"} /\ es \subseteq root' \cup ws'[proc'[q].to]
      BY <2>1, <2>3, <3>1
    <3>3. QED
      BY <3>2 DEF Together, Carries
  <2>4. CASE Shelving(proc[q]) /\ es \subseteq ws[proc[q].name] \cup archive[ShelfOf(proc[q])]
    <3>1. proc[q].name \in Names
      BY <2>4 DEF Shape, Sound, Completing, Shelving
    <3>2. Shelving(proc'[q]) /\ es \subseteq ws'[proc'[q].name] \cup archive'[ShelfOf(proc'[q])]
      BY <2>1, <2>2, <2>4, <3>1
    <3>3. Shelving(proc[q])' /\ es \subseteq ws'[proc'[q].name] \cup archive'[ShelfOf(proc[q])']
      BY <3>2 DEF Shelving, ShelfOf
    <3>4. QED
      BY <3>3 DEF Together, Carries
  <2>5. QED
    BY <1>2, <2>3, <2>4 DEF Carries
<1>3. QED
    BY <1>1, <1>2 DEF Together

\* What another process carries stays where it is.
LEMMA CarriesStill ==
    ASSUME Shape, TreeShape, Exclusive, Calm, NEW p \in Procs, NEW q \in Others(p), Frame(p),
           proc'[q] = proc[q], NEW es, Carries(proc[q], es)
    PROVE  Together(es)'
<1> DEFINE r == proc[q]
<1>0. q \in Procs /\ q # p /\ Sound(r) /\ None \notin Names
    BY WorkstreamsAssumption DEF Others, Shape
<1>1. \A x \in Places : x \in r.on => x \notin proc[p].on
    BY <1>0 DEF Exclusive, Calm, Contested
<1>2. CASE r.pc \in {"move", "undo"} /\ es \subseteq root \cup ws[r.to]
  <2>1. ws'[r.to] = ws[r.to] /\ root' = root
    BY <1>0, <1>1, <1>2 DEF Sound, Migrating, Frame, Places
  <2>2. QED
    BY <1>0, <1>2, <2>1 DEF Together, Carries
<1>3. CASE Shelving(r) /\ es \subseteq ws[r.name] \cup archive[ShelfOf(r)]
  <2>1. ws'[r.name] = ws[r.name]
    BY <1>0, <1>1, <1>3 DEF Sound, Completing, Frame, Places, Shelving
  <2>2. archive'[ShelfOf(r)] = archive[ShelfOf(r)]
    BY <1>0, <1>3 DEF TreeShape, Frame
  <2>3. Carries(proc[q], es)'
    BY <1>3, <2>1, <2>2 DEF Carries, Shelving, ShelfOf
  <2>4. QED
    BY <1>0, <2>3 DEF Together
<1>4. QED
    BY <1>2, <1>3 DEF Carries

\* The steps of a process that moves entries.
LEMMA MigrationTogether ==
    ASSUME Shape, TreeShape, Exclusive, Calm, NEW p \in Procs, Placed(proc[p]), Settled(proc[p]),
           Frame(p), \A q \in Others(p) : proc'[q] = proc[q],
           Move(p) \/ Undo(p) \/ Clean(p),
           NEW es, \A e \in es : e.item \in MoveItems, Together(es)
    PROVE  Together(es)'
<1> DEFINE r == proc[p]
<1> USE DEF Fields
<1>0. /\ DOMAIN proc = Procs /\ DOMAIN r = Fields /\ Sound(r) /\ DOMAIN ws = Names
    BY DEF Shape, Sound, TreeShape
<1>1. r.pc \in {"move", "undo"} /\ r.to \in Names /\ archive' = archive
    BY <1>0 DEF Move, Undo, Clean, Sound, Migrating
<1>2. \A n \in Names : n # r.to => ws'[n] = ws[n]
    BY <1>0 DEF Move, Undo, Clean
<1>3. root' \cup ws'[r.to] = root \cup ws[r.to]
  <2>1. ItemsOf(ws[r.to]) \subseteq r.moved /\ ItemsOf(root) \cap r.moved = {}
    BY <1>1 DEF Placed
  <2>2. CASE Move(p)
    <3> DEFINE i == First(r.left)
               fs == Of(root, i)
    <3>1. /\ r.pc = "move" /\ root' = root \ fs /\ ws' = [ws EXCEPT ![r.to] = Put(@, fs)]
      BY <2>2 DEF Move
    <3>2. i \in r.left /\ r.left \cap r.moved = {}
      BY <1>0, <3>1, FirstIn DEF Sound
    <3> HIDE DEF i
    <3>3. Put(ws[r.to], fs) = ws[r.to] \cup fs
      <4>1. i \notin ItemsOf(ws[r.to])
        BY <2>1, <3>2
      <4>2. QED
        BY <4>1, PutNew
    <3>4. ws'[r.to] = ws[r.to] \cup fs
      BY <1>0, <1>1, <3>1, <3>3
    <3>5. fs \subseteq root
      BY DEF Of
    <3> HIDE DEF fs
    <3>6. QED
      BY <3>1, <3>4, <3>5
  <2>3. CASE Undo(p)
    <3> DEFINE i == First(r.moved)
               fs == Of(ws[r.to], i)
    <3>1. /\ r.pc = "undo" /\ r.moved # {} /\ root' = Put(root, fs)
          /\ ws' = [ws EXCEPT ![r.to] = @ \ fs]
      BY <2>3 DEF Undo
    <3>2. i \in r.moved
      BY <1>0, <3>1, FirstIn DEF Sound
    <3> HIDE DEF i
    <3>3. root' = root \cup fs
      <4>1. i \notin ItemsOf(root)
        BY <2>1, <3>2
      <4>2. QED
        BY <3>1, <4>1, PutNew
    <3>4. ws'[r.to] = ws[r.to] \ fs
      BY <1>0, <1>1, <3>1
    <3>5. fs \subseteq ws[r.to]
      BY DEF Of
    <3> HIDE DEF fs
    <3>6. QED
      BY <3>3, <3>4, <3>5
  <2>4. CASE Clean(p)
    <3>1. ws[r.to] = {}
      BY <2>1, <2>4 DEF Clean, ItemsOf
    <3>2. QED
      BY <1>0, <1>1, <2>4, <3>1 DEF Clean
  <2>5. QED
    BY <2>2, <2>3, <2>4
<1>4. ASSUME es \subseteq root' \cup ws'[r.to] PROVE Together(es)'
  <2>1. CASE Clean(p)
    <3>1. ws'[r.to] = {}
      BY <1>0, <1>1, <2>1 DEF Clean
    <3>2. QED
      BY <1>4, <3>1 DEF Together
  <2>2. CASE proc'[p].pc \in {"move", "undo"} /\ proc'[p].to = r.to
    BY <1>4, <2>2 DEF Together, Carries
  <2>3. CASE Move(p) /\ proc'[p].pc \notin {"move", "undo"}
    <3>1. r.pc = "move" /\ r.left = {First(r.left)} /\ root' = root \ Of(root, First(r.left))
      BY <1>0, <2>3 DEF Move, Go
    <3>2. ItemsOf(root) \cap MoveItems \subseteq r.left
      BY <3>1 DEF Settled
    <3>3. \A e \in root' : e.item \notin MoveItems
      BY <3>1, <3>2 DEF ItemsOf, Of
    <3>4. es \subseteq ws'[r.to]
      BY <1>4, <3>3
    <3>5. QED
      BY <1>1, <3>4 DEF Together
  <2>4. Undo(p) => proc'[p].pc = "undo" /\ proc'[p].to = r.to
    BY <1>0 DEF Undo, Go
  <2>5. Move(p) => proc'[p].to = r.to
    BY <1>0 DEF Move, Go
  <2>6. QED
    BY <2>1, <2>2, <2>3, <2>4, <2>5
<1>5. CASE es \subseteq root \/ es \subseteq ws[r.to]
    BY <1>3, <1>4, <1>5
<1>6. ASSUME NEW n \in Names, n # r.to, es \subseteq ws[n]
      PROVE  Together(es)'
    BY <1>2, <1>6 DEF Together
<1>7. ASSUME NEW s \in Shelves, es \subseteq archive[s]
      PROVE  Together(es)'
    BY <1>1, <1>7 DEF Together
<1>8. ASSUME Carries(r, es)
      PROVE  Together(es)'
  <2>1. es \subseteq root \cup ws[r.to]
    BY <1>1, <1>8 DEF Carries, Shelving
  <2>2. QED
    BY <1>3, <1>4, <2>1
<1>9. ASSUME NEW q \in Others(p), Carries(proc[q], es)
      PROVE  Together(es)'
    BY <1>9, CarriesStill
<1>10. \A q \in Procs : q = p \/ q \in Others(p)
    BY DEF Others
<1>11. QED
    BY <1>5, <1>6, <1>7, <1>8, <1>9, <1>10 DEF Together

LEMMA CompletionTogether ==
    ASSUME Shape, TreeShape, Exclusive, Calm, NEW p \in Procs, Placed(proc[p]), Settled(proc[p]),
           Frame(p), \A q \in Others(p) : proc'[q] = proc[q],
           Out(p) \/ Back(p) \/ DropShelf(p),
           NEW es, Together(es)
    PROVE  Together(es)'
<1> DEFINE r == proc[p]
           s == ShelfOf(r)
<1> USE DEF Fields
<1>0. /\ DOMAIN proc = Procs /\ DOMAIN r = Fields /\ Sound(r)
      /\ DOMAIN ws = Names /\ DOMAIN archive = Shelves
    BY DEF Shape, Sound, TreeShape
<1>1. /\ Shelving(r) /\ r.name \in Names /\ root' = root
      /\ (Out(p) => r.pc = "out") /\ (~Out(p) => r.pc = "back")
    BY <1>0 DEF Out, Back, DropShelf, Sound, Completing, Shelving
<1>2. s \in Shelves
    BY <1>1 DEF TreeShape
<1>3. \A n \in Names : n # r.name => ws'[n] = ws[n]
    BY <1>0 DEF Out, Back, DropShelf
<1>4. \A k \in Shelves : k # s => archive'[k] = archive[k]
    BY <1>0 DEF Out, Back, DropShelf, ShelfOf
<1>5. /\ ItemsOf(archive[s]) \subseteq r.moved
      /\ ItemsOf(ws[r.name]) \cap r.moved = {} /\ r.name \in live
    BY <1>1 DEF Placed, Shelving
<1>6. ASSUME Out(p)
      PROVE  /\ ws'[r.name] \cup archive'[s] = ws[r.name] \cup archive[s]
             /\ proc'[p].pc = "rmdir" => ws'[r.name] = {}
             /\ proc'[p].pc \in {"out", "rmdir"} /\ ShelfOf(proc'[p]) = s /\ proc'[p].name = r.name
  <2>1. PICK i \in r.left :
            /\ ws' = [ws EXCEPT ![r.name] = @ \ Of(ws[r.name], i)]
            /\ archive' = [archive EXCEPT ![s] = Put(@, Of(ws[r.name], i))]
            /\ Go(p, [r EXCEPT !.left = @ \ {i}, !.moved = @ \cup {i},
                               !.pc = IF r.left = {i} THEN "rmdir" ELSE "out"])
    BY <1>6 DEF Out, ShelfOf
  <2> DEFINE fs == Of(ws[r.name], i)
  <2>2. /\ proc'[p].pc = (IF r.left = {i} THEN "rmdir" ELSE "out")
        /\ ShelfOf(proc'[p]) = s /\ proc'[p].name = r.name
    BY <1>0, <2>1 DEF Go, ShelfOf
  <2>3. i \notin ItemsOf(archive[s]) /\ ItemsOf(ws[r.name]) \subseteq r.left
    BY <1>0, <1>1, <1>5, <1>6, <2>1 DEF Sound, Settled
  <2>4. Put(archive[s], fs) = archive[s] \cup fs
    BY <2>3, PutNew
  <2>5. ws'[r.name] = ws[r.name] \ fs /\ archive'[s] = archive[s] \cup fs
    BY <1>0, <1>1, <1>2, <2>1, <2>4
  <2>6. fs \subseteq ws[r.name] /\ \A e \in ws[r.name] : e.item = i => e \in fs
    BY DEF Of
  <2>7. r.left = {i} => ws'[r.name] = {}
    BY <2>3, <2>5, <2>6 DEF ItemsOf
  <2> HIDE DEF fs, s
  <2>8. ws'[r.name] \cup archive'[s] = ws[r.name] \cup archive[s]
    BY <2>5, <2>6
  <2>9. QED
    BY <2>2, <2>7, <2>8
<1>7. ASSUME Back(p)
      PROVE  /\ ws'[r.name] \cup archive'[s] = ws[r.name] \cup archive[s]
             /\ proc'[p].pc = "back" /\ ShelfOf(proc'[p]) = s /\ proc'[p].name = r.name
  <2> DEFINE i == CHOOSE j \in r.moved : TRUE
             fs == IF r.name \in live THEN Of(archive[s], i) ELSE {}
  <2>1. /\ ws' = [ws EXCEPT ![r.name] = Put(@, fs)]
        /\ archive' = [archive EXCEPT ![s] = @ \ fs]
        /\ r.moved # {}
        /\ proc'[p].pc = "back" /\ ShelfOf(proc'[p]) = s /\ proc'[p].name = r.name
    BY <1>0, <1>7 DEF Back, Go, ShelfOf
  <2>2. i \in r.moved
    BY <2>1
  <2> HIDE DEF i
  <2>3. fs = Of(archive[s], i)
    BY <1>5
  <2>4. i \notin ItemsOf(ws[r.name])
    BY <1>5, <2>2
  <2> HIDE DEF s, fs
  <2>5. Put(ws[r.name], fs) = ws[r.name] \cup fs
    BY <2>3, <2>4, PutNew
  <2>6. ws'[r.name] = ws[r.name] \cup fs /\ archive'[s] = archive[s] \ fs
    BY <1>0, <1>1, <1>2, <2>1, <2>5
  <2>7. fs \subseteq archive[s]
    BY <2>3 DEF Of
  <2>8. QED
    BY <2>1, <2>6, <2>7
<1>8. ASSUME DropShelf(p)
      PROVE  archive[s] = {} /\ ws' = ws
    BY <1>5, <1>8 DEF DropShelf, ItemsOf
<1> HIDE DEF s
<1>9. ASSUME es \subseteq ws[r.name] \cup archive[s] PROVE Together(es)'
  <2>1. CASE DropShelf(p)
    BY <1>1, <1>8, <1>9, <2>1 DEF Together
  <2>2. ASSUME proc'[p].pc \in {"out", "back"}, ShelfOf(proc'[p]) = s, proc'[p].name = r.name,
               es \subseteq ws'[r.name] \cup archive'[s]
        PROVE  Together(es)'
    <3>1. ShelfOf(proc[p])' = s
      BY <2>2 DEF ShelfOf
    <3>2. Carries(proc[p], es)'
      BY <2>2, <3>1 DEF Carries, Shelving
    <3>3. QED
      BY <3>2 DEF Together
  <2>3. CASE Out(p) /\ proc'[p].pc = "rmdir"
    BY <1>2, <1>6, <1>9, <2>3 DEF Together
  <2>4. QED
    BY <1>6, <1>7, <1>9, <2>1, <2>2, <2>3
<1>10. CASE es \subseteq ws[r.name] \/ es \subseteq archive[s]
    BY <1>9, <1>10
<1>11. ASSUME NEW n \in Names, n # r.name, es \subseteq ws[n]
       PROVE  Together(es)'
    BY <1>3, <1>11 DEF Together
<1>12. ASSUME NEW k \in Shelves, k # s, es \subseteq archive[k]
       PROVE  Together(es)'
    BY <1>4, <1>12 DEF Together
<1>13. CASE es \subseteq root
    BY <1>1, <1>13 DEF Together
<1>14. ASSUME Carries(r, es)
       PROVE  Together(es)'
  <2>1. es \subseteq ws[r.name] \cup archive[s]
    BY <1>1, <1>14 DEF Carries, Shelving, s
  <2>2. QED
    BY <1>9, <2>1
<1>15. ASSUME NEW q \in Others(p), Carries(proc[q], es)
       PROVE  Together(es)'
    BY <1>15, CarriesStill
<1>16. \A q \in Procs : q = p \/ q \in Others(p)
    BY DEF Others
<1>17. QED
    BY <1>10, <1>11, <1>12, <1>13, <1>14, <1>15, <1>16 DEF Together

\* What a rollback has to remove is empty, hence a removal that fails tears nothing apart.
LEMMA RemovalTogether ==
    ASSUME Shape, TreeShape, Exclusive, Calm, NEW p \in Procs, Placed(proc[p]), Frame(p),
           \A q \in Others(p) : proc'[q] = proc[q], RemovalFails(p),
           NEW es, Together(es)
    PROVE  Together(es)'
<1> DEFINE r == proc[p]
<1>1. UNCHANGED <<root, ws, archive>> /\ (r.pc \in {"undo", "back"} => r.moved = {})
      /\ r.pc \in {"undo", "back", "clean", "rmdir", "rmroot"}
    BY DEF RemovalFails
<1>2. CASE es \subseteq root \/ (\E n \in Names : es \subseteq ws[n]) \/ \E s \in Shelves : es \subseteq archive[s]
    BY <1>1, <1>2 DEF Together
<1>3. ASSUME Carries(r, es)
      PROVE  es \subseteq root \/ \E n \in Names : es \subseteq ws[n]
  <2>1. CASE r.pc = "undo"
    <3>1. ws[r.to] = {} /\ es \subseteq root \cup ws[r.to]
      BY <1>1, <1>3, <2>1 DEF Placed, ItemsOf, Carries, Shelving
    <3>2. QED
      BY <3>1
  <2>2. CASE r.pc = "back"
    <3>1. archive[ShelfOf(r)] = {} /\ es \subseteq ws[r.name] \cup archive[ShelfOf(r)]
      BY <1>1, <1>3, <2>2 DEF Placed, ItemsOf, Carries, Shelving
    <3>2. r.name \in Names
      BY <2>2 DEF Shape, Sound, Completing
    <3>3. QED
      BY <3>1, <3>2
  <2>3. QED
    BY <1>1, <1>3, <2>1, <2>2 DEF Carries, Shelving
<1>4. ASSUME NEW q \in Others(p), Carries(proc[q], es)
      PROVE  Together(es)'
    BY <1>4, CarriesStill
<1>5. \A q \in Procs : q = p \/ q \in Others(p)
    BY DEF Others
<1>6. QED
    BY <1>2, <1>3, <1>4, <1>5 DEF Together

LEMMA WorkstreamTogether ==
    ASSUME Shape, TreeShape, Exclusive, Calm, NEW p \in Procs, Placed(proc[p]), Settled(proc[p]),
           Frame(p), \A q \in Others(p) : proc'[q] = proc[q], WorkstreamStep(p), Calm',
           NEW es, \A e \in es : e.item \in MoveItems, Together(es)
    PROVE  Together(es)'
<1> DEFINE r == proc[p]
           Grows == root \subseteq root' /\ (\A n \in Names : ws[n] \subseteq ws'[n]) /\ UNCHANGED archive
<1> USE DEF Fields
<1>0. DOMAIN proc = Procs /\ DOMAIN r = Fields /\ DOMAIN ws = Names
    BY DEF Shape, Sound, TreeShape
<1>g. ASSUME Grows, r.pc \notin {"move", "undo", "out", "back"}
      PROVE  Together(es)'
    BY <1>g, TogetherGrows DEF Shelving
<1>1. CASE Move(p) \/ Undo(p) \/ Clean(p)
    BY <1>1, MigrationTogether
<1>2. CASE Out(p) \/ Back(p) \/ DropShelf(p)
    BY <1>2, CompletionTogether
<1>3. CASE PassOver(p)
    BY <1>3 DEF PassOver, Calm
<1>4. CASE MoveFails(p)
  <2>1. /\ Grows /\ r.pc = "move" /\ proc'[p].pc = "undo" /\ proc'[p].to = r.to
    BY <1>0, <1>4 DEF MoveFails, Go, tree
  <2>2. QED
    BY <2>1, TogetherGrows DEF Shelving
<1>5. CASE OutFails(p)
  <2>1. Grows /\ r.pc = "out" /\ proc'[p].pc = "back" /\ ShelfOf(proc'[p]) = ShelfOf(r)
    BY <1>0, <1>5 DEF OutFails, Go, tree, ShelfOf
  <2>2. QED
    BY <2>1, TogetherGrows DEF Shelving
<1>6. CASE MakeDirs(p)
  <2>1. Grows /\ r.pc = "dirs"
    BY <1>0, <1>6 DEF MakeDirs
  <2>2. QED
    BY <1>g, <2>1
<1>7. CASE WriteState(p)
  <2>1. Grows /\ r.pc = "state"
    BY <1>0, <1>7 DEF WriteState
  <2>2. QED
    BY <1>g, <2>1
<1>8. ASSUME UNCHANGED <<root, ws, archive>>, r.pc \notin {"move", "undo", "out", "back"}
      PROVE  Together(es)'
    BY <1>8, <1>g
<1>9. ASSUME NEW n \in Names, NEW to \in Names \cup {None}, BeginCreate(p, n, to)
      PROVE  Together(es)'
    BY <1>8, <1>9 DEF BeginCreate, Begin
<1>10. CASE Guard(p)
    BY <1>8, <1>10 DEF Guard, tree
<1>11. CASE MkdirTarget(p)
    BY <1>8, <1>11 DEF MkdirTarget
<1>12. CASE Activate(p)
    BY <1>8, <1>12 DEF Activate
<1>13. ASSUME NEW n \in Names, BeginComplete(p, n)
       PROVE  Together(es)'
    BY <1>8, <1>13 DEF BeginComplete, Begin
<1>14. CASE MakeShelf(p)
    BY <1>8, <1>14 DEF MakeShelf
<1>15. CASE Rmdir(p) \/ RmRoot(p)
    BY <1>8, <1>15 DEF Rmdir, RmRoot
<1>r. CASE RemovalFails(p)
    BY <1>r, RemovalTogether
<1>16. ASSUME NEW n, SetActive(p, n)
       PROVE  Together(es)'
    BY <1>8, <1>16 DEF SetActive
<1>17. QED
    BY <1>1, <1>2, <1>3, <1>4, <1>5, <1>6, <1>7, <1>9, <1>10, <1>11, <1>12, <1>13, <1>14, <1>15,
       <1>r, <1>16 DEF WorkstreamStep

LEMMA SettingsTogether ==
    ASSUME Shape, TreeShape, NEW p \in Procs, Settled(proc[p]),
           \A q \in Others(p) : proc'[q] = proc[q], SettingsStep(p),
           NEW es, Together(es)
    PROVE  Together(es)'
<1> DEFINE r == proc[p]
           Grows == root \subseteq root' /\ (\A n \in Names : ws[n] \subseteq ws'[n]) /\ UNCHANGED archive
<1>0. DOMAIN ws = Names /\ None \notin Names /\ Sound(r)
    BY WorkstreamsAssumption DEF Shape, TreeShape
<1>1. r.pc \notin {"move", "undo", "out", "back"}
    BY SettingsFrom
<1>2. ASSUME Grows PROVE Together(es)'
    BY <1>1, <1>2, TogetherGrows DEF Shelving
<1>3. CASE BackupState(p)
  <2>1. Grows
    BY <1>0, <1>3 DEF BackupState
  <2>2. QED
    BY <1>2, <2>1
<1>4. CASE RegenerateState(p)
  <2> DEFINE e == [item |-> "STATE", by |-> r.id]
  <2>1. /\ r.pc = "regenerate" /\ archive' = archive
        /\ root' = IF r.name = None THEN Put(root, {e}) ELSE root
        /\ ws' = IF r.name \in live THEN [ws EXCEPT ![r.name] = Put(@, {e})] ELSE ws
    BY <1>4 DEF RegenerateState
  <2>2. ~Has(Dir(r.name), "STATE")
    BY <2>1 DEF Settled, Repairing
  <2>3. e.item = "STATE"
    OBVIOUS
  <2> HIDE DEF e
  <2>4. Dir(r.name) \subseteq Put(Dir(r.name), {e})
    BY <2>2, <2>3 DEF Has, Of, Put
  <2>5. r.name = None => root \subseteq root'
    BY <2>1, <2>4 DEF Dir
  <2>6. r.name # None => root \subseteq root'
    BY <2>1
  <2>7. ASSUME NEW n \in Names PROVE ws[n] \subseteq ws'[n]
    <3>1. CASE n = r.name
      BY <1>0, <2>1, <2>4, <2>7, <3>1 DEF Dir
    <3>2. CASE n # r.name
      BY <1>0, <2>1, <2>7, <3>2
    <3>3. QED
      BY <3>1, <3>2
  <2>8. QED
    BY <1>2, <2>1, <2>5, <2>6, <2>7
<1>5. CASE BeginTodo(p) \/ TodoStep(p)
  <2>1. UNCHANGED tree
    BY <1>5 DEF BeginTodo, TodoStep
  <2>2. QED
    BY <1>2, <2>1 DEF tree
<1>6. CASE UNCHANGED tree
    BY <1>2, <1>6 DEF tree
<1>7. QED
    BY <1>3, <1>4, <1>5, <1>6, SettingsPc

LEMMA TogetherStep ==
    Shape /\ TreeShape /\ Exclusive /\ TypedInv /\ PlacedInv /\ KeptInv /\ SettledInv /\ OldInv /\ TogetherInv /\ [Next]_vars
    => OldInv' /\ TogetherInv'
<1> SUFFICES ASSUME Shape, TreeShape, Exclusive, TypedInv, PlacedInv, KeptInv, SettledInv, OldInv,
                    TogetherInv, [Next]_vars
             PROVE  OldInv' /\ TogetherInv'
    OBVIOUS
<1>1. PICK es : es = Old
    OBVIOUS
<1>2. Old' = es /\ OldInv'
    BY <1>1, OldStep DEF OldInv
<1>3. \A e \in es : e.item \in MoveItems
    BY <1>1 DEF OldInv
<1>4. SUFFICES ASSUME Intact' PROVE Together(es)'
    BY <1>2 DEF TogetherInv, Together, Carries
<1>5. Calm'
    BY <1>4 DEF Intact
<1>t. Intact => Together(es)
    BY <1>1 DEF TogetherInv
<1>6. ASSUME NEW p \in Procs, WorkstreamStep(p) \/ SettingsStep(p) \/ Crash(p)
      PROVE  Together(es)'
  <2>1. Honest(p) /\ \A q \in Others(p) : proc'[q] = proc[q]
    BY <1>6, StepHonest
  <2>2. /\ Calm /\ Placed(proc[p]) /\ Settled(proc[p]) /\ \A e \in made : Kept(e)
    BY <1>5, <2>1, CalmBefore DEF PlacedInv, SettledInv, KeptInv
  <2>3. Together(es)
    BY <1>4, <1>t, <2>1, <2>2 DEF Intact, Honest
  <2>4. CASE WorkstreamStep(p)
    <3>1. Frame(p)
      BY <2>2, <2>4, WorkstreamPlaced
    <3>2. QED
      BY <1>3, <1>5, <2>1, <2>2, <2>3, <2>4, <3>1, WorkstreamTogether
  <2>5. CASE SettingsStep(p)
    BY <2>1, <2>2, <2>3, <2>5, SettingsTogether
  <2>6. CASE Crash(p)
    <3>1. UNCHANGED <<root, ws, archive>> /\ proc[p].on \cap Places = {}
      BY <1>4, <2>6 DEF Crash, tree, Intact
    <3>2. proc[p].pc \notin {"move", "undo", "out", "back"}
      BY <3>1 DEF Shape, Sound, Migrating, Completing, Places
    <3>3. QED
      BY <2>1, <2>3, <3>1, <3>2, TogetherGrows DEF Shelving
  <2>7. QED
    BY <1>6, <2>4, <2>5, <2>6
<1>7. CASE UNCHANGED <<tree, proc, excused>>
  <2>1. Intact
    BY <1>4, <1>7 DEF Intact, Calm, Contested
  <2>2. Together(es)
    BY <1>t, <2>1
  <2>3. QED
    BY <1>7, <2>2 DEF Together, Carries, Shelving, ShelfOf, tree
<1>8. QED
    BY <1>6, <1>7 DEF Next, RepoAppears, vars

TogetherTypes == SettledTypes /\ OldInv /\ TogetherInv

LEMMA TogetherHolds == Spec => []TogetherTypes
<1>1. Init => OldInv /\ TogetherInv
  <2>1. SUFFICES ASSUME Init PROVE OldInv /\ TogetherInv
    OBVIOUS
  <2>2. PICK s \in Projects : root = {[item |-> i, by |-> 0] : i \in s}
    BY <2>1 DEF Init, WorkstreamInit
  <2>3. s \subseteq MoveItems
    BY WorkstreamsAssumption DEF Items, MoveItems
  <2>4. made = root
    BY <2>1 DEF Init, WorkstreamInit
  <2>5. \A e \in made : e.item \in MoveItems
    BY <2>2, <2>3, <2>4
  <2>6. QED
    BY <2>4, <2>5 DEF OldInv, Old, TogetherInv, Together
<1>2. SettledTypes /\ OldInv /\ TogetherInv /\ [Next]_vars => OldInv' /\ TogetherInv'
    BY TogetherStep DEF SettledTypes, Inv, TypeInv
<1>3. QED
    BY <1>1, <1>2, SettledHolds, PTL DEF Spec, TogetherTypes

\* The files the project started with are in one directory, but for a command on its way with
\* them and for one that was killed (workstream.cjs:45-64, 308-324).
THEOREM FilesStayTogether == Spec => []StaysTogether
<1>1. TogetherTypes => StaysTogether
  <2>1. SUFFICES ASSUME TogetherTypes, Intact,
                        \A p \in Procs : proc[p].pc \notin {"move", "undo", "out", "back"}
                 PROVE  \E dir \in AllDirs : \A e \in made : e.by = 0 => e \in dir
    BY DEF StaysTogether, Intact, Calm
  <2>2. Together(Old)
    BY <2>1 DEF TogetherTypes, TogetherInv
  <2>3. None \notin Names
    BY WorkstreamsAssumption
  <2>4. CASE Old \subseteq root
    <3>1. root \in AllDirs
      BY DEF AllDirs, Dir, Places
    <3>2. QED
      BY <2>4, <3>1 DEF Old
  <2>5. ASSUME NEW n \in Names, Old \subseteq ws[n]
        PROVE  \E dir \in AllDirs : \A e \in made : e.by = 0 => e \in dir
    <3>1. ws[n] \in AllDirs
      BY <2>3 DEF AllDirs, Dir, Places
    <3>2. QED
      BY <2>5, <3>1 DEF Old
  <2>6. ASSUME NEW s \in Shelves, Old \subseteq archive[s]
        PROVE  \E dir \in AllDirs : \A e \in made : e.by = 0 => e \in dir
    <3>1. archive[s] \in AllDirs
      BY DEF AllDirs
    <3>2. QED
      BY <2>6, <3>1 DEF Old
  <2>7. \A p \in Procs : ~Carries(proc[p], Old)
    BY <2>1 DEF Carries, Shelving
  <2>8. QED
    BY <2>2, <2>4, <2>5, <2>6, <2>7 DEF Together
<1>2. QED
    BY <1>1, TogetherHolds, PTL
==============================================================================
