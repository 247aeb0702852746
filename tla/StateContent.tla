---------------------------- MODULE StateContent ----------------------------
(* The text of STATE.md, as far as its commands tell it apart: a frontmatter *)
(* that every write derives again, **bold** fields, plain fields of Current  *)
(* Position, and the entries of the lists.  A field is looked up in the      *)
(* whole text: bold first, then the first plain line, frontmatter included.  *)
EXTENDS Integers, Sequences, FiniteSets

CONSTANTS Decisions, Blockers, Metrics,   \* texts that commands append
          Typed,                          \* what users type: texts of some fields
          MaxPlans                        \* plans of a phase

ASSUME PlansAssumption == MaxPlans \in Nat \ {0}

Entries == Decisions \cup Blockers \cup Metrics
Fields == {"Status", "Progress", "Current Plan", "Total Plans in Phase", "Plan",
           "Completed Phases", "Total Phases", "Paused At"}
PlanFields == {"Current Plan", "Total Plans in Phase", "Plan"}

\* A value is a sequence: numbers, 0 for text that parseInt refuses, or a word.
Absent == <<>>
NoFields == [f \in Fields |-> Absent]
NoFm == [present |-> FALSE, Status |-> Absent, Progress |-> Absent,
         plan |-> Absent, paused |-> Absent, plans |-> 0, sums |-> 0]
\* "hand" is history, which no command reads: a count of plans was typed by hand
\* since begin-phase wrote them all.
Blank == [fm |-> NoFm, bold |-> NoFields, plain |-> NoFields,
          sections |-> FALSE, log |-> {}, junk |-> FALSE, hand |-> FALSE]

\* The statuses that commands write, and those that frontmatter has for them.
Statuses == {Absent, <<"Ready to plan">>, <<"Ready to execute">>, <<"Executing">>,
             <<"Phase complete - ready for verification">>, <<"Milestone complete">>,
             <<"Paused">>, <<"shipped">>}
FmStatuses == {<<"planning">>, <<"executing">>, <<"verifying">>, <<"completed">>, <<"paused">>}

\* One text of "state update", or several of "state patch".  A date is a number.
TextFits(f, v) ==
    IF f = "Status" THEN v \in Statuses \ {Absent}
    ELSE /\ v \in Seq(Nat)
         /\ Len(v) = 1 \/ (f = "Plan" /\ Len(v) = 2)
ASSUME TypedAssumption ==
    \A t \in Typed : DOMAIN t \subseteq Fields /\ \A f \in DOMAIN t : TextFits(f, t[f])

FieldsOK(m) == /\ DOMAIN m = Fields /\ m["Status"] \in Statuses
               /\ \A f \in Fields \ {"Status"} : m[f] \in Seq(Int)
ContentOK(c) == /\ c.fm.present \in BOOLEAN /\ c.fm.Status \in Statuses \cup FmStatuses
                /\ c.fm.Progress \in Seq(Int) /\ c.fm.plan \in Seq(Int) /\ c.fm.paused \in Seq(Int)
                /\ FieldsOK(c.bold) /\ FieldsOK(c.plain)
                /\ c.sections \in BOOLEAN /\ c.junk \in BOOLEAN /\ c.hand \in BOOLEAN /\ c.log \subseteq Entries

\* The template keeps plain fields in Current Position; older files have bold
\* fields above them; pausing may leave one of those.
PlainContent == [Blank EXCEPT !.sections = TRUE,
    !.plain = [NoFields EXCEPT !["Status"] = <<"Ready to plan">>,
                  !["Plan"] = <<1, MaxPlans>>, !["Progress"] = <<0>>]]
BoldContent == [Blank EXCEPT !.sections = TRUE,
    !.plain = [NoFields EXCEPT !["Status"] = <<"Ready to plan">>, !["Plan"] = <<1, MaxPlans>>],
    !.bold = [NoFields EXCEPT !["Status"] = <<"Ready to plan">>, !["Progress"] = <<0>>,
                 !["Current Plan"] = <<1>>, !["Total Plans in Phase"] = <<MaxPlans>>,
                 !["Completed Phases"] = <<0>>, !["Total Phases"] = <<2>>]]
PausedContent == [PlainContent EXCEPT !.bold["Paused At"] = <<1>>]
InitialContents == {PlainContent, BoldContent, PausedContent}

InFrontmatter(c, f) == c.fm.present /\ f \in {"Status", "Progress"}

StateExtractField(c, f) ==
    IF c.bold[f] # Absent THEN c.bold[f]
    ELSE IF InFrontmatter(c, f) THEN c.fm[f] ELSE c.plain[f]

HasField(c, f) == c.bold[f] # Absent \/ InFrontmatter(c, f) \/ c.plain[f] # Absent

StateReplaceField(c, f, v) ==
    IF c.bold[f] # Absent THEN [c EXCEPT !.bold[f] = v]
    ELSE IF InFrontmatter(c, f) THEN [c EXCEPT !.fm[f] = v]
    ELSE IF c.plain[f] # Absent THEN [c EXCEPT !.plain[f] = v]
    ELSE c

StateReplaceFieldWithFallback(c, primary, fallback, v) ==
    StateReplaceField(c, IF HasField(c, primary) THEN primary ELSE fallback, v)

\* Only lines that Current Position already has.
UpdateCurrentPositionFields(c, status, plan) ==
    LET set(f, v) == IF c.plain[f] = Absent \/ v = Absent THEN c.plain[f] ELSE v
    IN  [c EXCEPT !.plain["Status"] = set("Status", status),
                  !.plain["Plan"] = set("Plan", plan)]

----------------------------------------------------------------------------
(* The frontmatter.                                                          *)

NormalizedStatus(s, paused) ==
    IF paused # Absent THEN <<"paused">>
    ELSE CASE s = <<"Paused">> -> <<"paused">>
           [] s \in {<<"Executing">>, <<"Ready to execute">>} -> <<"executing">>
           [] s = <<"Ready to plan">> -> <<"planning">>
           [] s = <<"Phase complete - ready for verification">> -> <<"verifying">>
           [] s = <<"Milestone complete">> -> <<"completed">>
           [] OTHER -> s

BuildStateFrontmatter(c, disk) ==
    LET body(f) == StateExtractField([c EXCEPT !.fm = NoFm], f)
    IN  [present |-> TRUE, Status |-> NormalizedStatus(body("Status"), body("Paused At")),
         Progress |-> body("Progress"), plan |-> body("Current Plan"),
         paused |-> body("Paused At"), plans |-> disk.plans, sums |-> disk.sums]

\* VARIANT, for the mutation runs: a frontmatter is derived once and kept.
SyncOnce(c, disk) ==
    IF c.fm.present THEN c ELSE [c EXCEPT !.fm = BuildStateFrontmatter(c, disk)]

\* A body without a status keeps the one the old frontmatter had.
SyncStateFrontmatter(c, disk) ==
    LET new == BuildStateFrontmatter(c, disk)
    IN  [c EXCEPT !.fm = IF new.Status = Absent
                         THEN [new EXCEPT !.Status = c.fm.Status] ELSE new]

\* What the readers report.
StateJson(c, disk) == IF c.fm.present THEN c.fm ELSE BuildStateFrontmatter(c, disk)
StateSnapshot(c) == [status |-> StateExtractField(c, "Status"),
                     plan |-> StateExtractField(c, "Current Plan"),
                     paused |-> StateExtractField(c, "Paused At"),
                     blockers |-> c.log \cap Blockers]

----------------------------------------------------------------------------
(* The commands: what each may make of the text it read.  A command that     *)
(* finds no field or section to change makes nothing of it, and ends.        *)

Edit(c) == [c |-> c, adds |-> {}, drops |-> {}]
NoEdit == Edit(Blank)

HasLegacyPlan(c) == c.bold["Current Plan"] # Absent /\ c.bold["Total Plans in Phase"] # Absent
ParsedPlan(c) == IF HasLegacyPlan(c)
                 THEN c.bold["Current Plan"] \o c.bold["Total Plans in Phase"]
                 ELSE StateExtractField(c, "Plan")
IsPlan(x) == Len(x) = 2 /\ 0 \notin {x[1], x[2]}

PhaseDone(c) ==
    UpdateCurrentPositionFields(
        StateReplaceField(c, "Status", <<"Phase complete - ready for verification">>),
        <<"Phase complete - ready for verification">>, Absent)
StepPlan(c, x) ==
    StateReplaceField(IF HasLegacyPlan(c) THEN StateReplaceField(c, "Current Plan", <<x[1]>>)
                      ELSE StateReplaceField(c, "Plan", x),
                      "Status", <<"Ready to execute">>)
NextPlan(c) == <<ParsedPlan(c)[1] + 1, ParsedPlan(c)[2]>>

\* VARIANT, for the mutation runs: the last plan is noticed one plan late.
AdvancePlanPast(c) ==
    LET x == ParsedPlan(c)
    IN  IF ~IsPlan(x) THEN {}
        ELSE IF x[1] > x[2] THEN {Edit(PhaseDone(c))}
        ELSE {Edit(UpdateCurrentPositionFields(StepPlan(c, NextPlan(c)),
                                               <<"Ready to execute">>, NextPlan(c)))}

\* VARIANT, for the mutation runs: Current Position is left as it is.
AdvancePlanOnly(c) ==
    LET x == ParsedPlan(c)
    IN  IF ~IsPlan(x) THEN {}
        ELSE IF x[1] >= x[2] THEN {Edit(PhaseDone(c))}
        ELSE {Edit(StepPlan(c, NextPlan(c)))}

AdvancePlan(c) ==
    LET x == ParsedPlan(c)
    IN  IF ~IsPlan(x) THEN {}
        ELSE IF x[1] >= x[2] THEN {Edit(PhaseDone(c))}
        ELSE {Edit(UpdateCurrentPositionFields(StepPlan(c, NextPlan(c)),
                                               <<"Ready to execute">>, NextPlan(c)))}

AppendEntry(c, texts) == IF c.sections
                     THEN {[Edit([c EXCEPT !.log = @ \cup {e}]) EXCEPT !.adds = {e}] : e \in texts}
                     ELSE {}
RecordMetric(c) == AppendEntry(c, Metrics)
\* VARIANT, for the mutation runs: the list is replaced by the new entry.
AddDecisionAlone(c) ==
    {[e EXCEPT !.c.log = e.adds] : e \in AppendEntry(c, Decisions)}
AddDecision(c) == AppendEntry(c, Decisions)
AddBlocker(c) == AppendEntry(c, Blockers)

\* Every blocker that contains the text goes.
ResolveBlocker(c) ==
    IF c.sections
    THEN {[Edit([c EXCEPT !.log = @ \ m]) EXCEPT !.drops = m] : m \in SUBSET Blockers \ {{}}}
    ELSE {}

Percent(sums, plans) ==
    IF plans = 0 THEN 0
    ELSE LET p == (200 * sums + plans) \div (2 * plans) IN IF p > 100 THEN 100 ELSE p

UpdateProgress(c, disk) ==
    IF HasField(c, "Progress")
    THEN {Edit(StateReplaceField(c, "Progress", <<Percent(disk.sums, disk.plans)>>))}
    ELSE {}

\* Only lines of the session change, which nothing here reads.
RecordSession(c) == IF c.sections THEN {Edit(c)} ELSE {}

\* Texts typed into the fields that are there; they need not agree.
Type(c, t) ==
    LET typed(f) == f \in DOMAIN t /\ HasField(c, f)
        fm(f) == IF typed(f) /\ c.bold[f] = Absent /\ c.fm.present THEN t[f] ELSE c.fm[f]
    IN  [c EXCEPT
           !.bold = [f \in Fields |-> IF typed(f) /\ c.bold[f] # Absent THEN t[f] ELSE c.bold[f]],
           !.plain = [f \in Fields |-> IF typed(f) /\ c.bold[f] = Absent /\ ~InFrontmatter(c, f)
                                       THEN t[f] ELSE c.plain[f]],
           !.fm = [@ EXCEPT !.Status = fm("Status"), !.Progress = fm("Progress")],
           !.hand = @ \/ \E f \in PlanFields : typed(f)]

\* Several fields at once; those the text lacks are reported as failed.
Patch(c) == {Edit(Type(c, t)) : t \in {t \in Typed : \E f \in DOMAIN t : HasField(c, f)}}
Update(c) == {Edit(Type(c, t)) : t \in {t \in Typed : \E f \in Fields : DOMAIN t = {f} /\ HasField(c, f)}}

\* Without a count of plans the position shows "1 of ?".
BeginPhase(c) ==
    LET begun(n) ==
          LET a == StateReplaceField(StateReplaceField(c, "Status", <<"Executing">>),
                                     "Current Plan", <<1>>)
              b == IF n = 0 THEN a ELSE StateReplaceField(a, "Total Plans in Phase", <<n>>)
          IN  IF ~c.sections THEN b
              ELSE [b EXCEPT !.hand = @ /\ n = 0,
                             !.plain["Plan"] = <<1, n>>,
                             !.plain["Status"] = IF @ = Absent THEN @ ELSE <<"Executing">>]
    IN  IF c.sections \/ HasField(c, "Status") \/ HasField(c, "Current Plan")
        THEN {Edit(begun(n)) : n \in 0 .. MaxPlans} ELSE {}

\* phase complete: written back even when nothing matched.
PhaseComplete(c) ==
    LET moved(last) ==
          StateReplaceFieldWithFallback(
              StateReplaceField(c, "Status",
                  IF last THEN <<"Milestone complete">> ELSE <<"Ready to plan">>),
              "Current Plan", "Plan", <<0>>)
        counted(d) ==
          LET done == d.bold["Completed Phases"][1] + 1
              all == d.bold["Total Phases"]
              e == StateReplaceField(d, "Completed Phases", <<done>>)
          IN  IF all = Absent \/ all[1] <= 0 THEN e
              ELSE StateReplaceField(e, "Progress", <<(200 * done + all[1]) \div (2 * all[1])>>)
    IN  {Edit(IF c.bold["Completed Phases"] = Absent THEN moved(last)
              ELSE counted(moved(last))) : last \in BOOLEAN}

MilestoneComplete(c) == {Edit(StateReplaceField(c, "Status", <<"Milestone complete">>))}

\* phase remove: one phase fewer in the count, written back in any case.
PhaseRemove(c) ==
    LET all == c.bold["Total Phases"]
    IN  {Edit(IF all = Absent THEN c ELSE StateReplaceField(c, "Total Phases", <<all[1] - 1>>))}

\* The commands by name, and what each may write.
Ops == {"advance-plan", "record-metric", "update-progress", "add-decision", "add-blocker",
        "resolve-blocker", "record-session", "patch", "update", "begin-phase",
        "phase complete", "milestone complete", "phase remove"}
EditsOf(op, c, disk) ==
    CASE op = "advance-plan" -> AdvancePlan(c)
      [] op = "record-metric" -> RecordMetric(c)
      [] op = "update-progress" -> UpdateProgress(c, disk)
      [] op = "add-decision" -> AddDecision(c)
      [] op = "add-blocker" -> AddBlocker(c)
      [] op = "resolve-blocker" -> ResolveBlocker(c)
      [] op = "record-session" -> RecordSession(c)
      [] op = "patch" -> Patch(c)
      [] op = "update" -> Update(c)
      [] op = "begin-phase" -> BeginPhase(c)
      [] op = "phase complete" -> PhaseComplete(c)
      [] op = "milestone complete" -> MilestoneComplete(c)
      [] op = "phase remove" -> PhaseRemove(c)
Edits(c, disk) == UNION {EditsOf(op, c, disk) : op \in Ops}
=============================================================================
