---------------------------- MODULE StateProofs ----------------------------
(* Proofs about StateContent and StateFile, for any number of plans, entries *)
(* and processes: every command makes of a sane text a sane text, and of its *)
(* lists what it reports; the lock excludes until it is forced, and until    *)
(* then STATE.md refines StateStore; every text the commands make has its    *)
(* types and counts that agree; commands that run one after the other lose   *)
(* nothing.                                                                  *)
EXTENDS StateFile, TLAPS

(* What a sane text is.                                                      *)

Values == Statuses \cup Seq(Int)
Frontmatters == [present : BOOLEAN, Status : Statuses \cup FmStatuses, Progress : Seq(Int),
                 plan : Seq(Int), paused : Seq(Int), plans : Int, sums : Int]
Contents == [fm : Frontmatters, bold : [Fields -> Values], plain : [Fields -> Values],
             sections : BOOLEAN, log : SUBSET Entries, junk : BOOLEAN, hand : BOOLEAN]

\* A value that is no status: nothing, or one number.
IsNumber(v) == v = Absent \/ \E i \in Int : v = <<i>>

\* A counted plan is not past the total, unless somebody typed one of them.
PlanOK(n, t, hand) == \/ n = Absent /\ t = Absent
                      \/ \E i, k \in Nat : /\ n = <<i>> /\ t = <<k>>
                                            /\ (hand \/ (i <= k /\ k > 0))
\* The position counts no plan past the total, and is that of the bold fields.
PositionOK(pos, n, t, hand) ==
  \/ IsNumber(pos)
  \/ \E i, k \in Nat : /\ pos = <<i, k>>
                       /\ (hand \/ k = 0 \/ i <= k)
                       /\ (hand \/ k = 0 \/ n \in {Absent, <<0>>} \/ (n = <<i>> /\ t = <<k>>))

BoldOK(b) == /\ b["Status"] \in Statuses /\ b["Plan"] = Absent
             /\ IsNumber(b["Progress"]) /\ IsNumber(b["Completed Phases"]) /\ IsNumber(b["Total Phases"])
             /\ IsNumber(b["Paused At"])
PlainOK(m) == /\ m["Status"] \in Statuses /\ IsNumber(m["Progress"])
              /\ \A f \in {"Current Plan", "Total Plans in Phase", "Completed Phases", "Total Phases", "Paused At"} :
                   m[f] = Absent

\* What every version, and every edit of one, has: the fields of a layout ...
LayoutOK(c) ==
  /\ c \in Contents
  /\ BoldOK(c.bold) /\ PlainOK(c.plain)
  /\ c.sections => c.bold["Status"] # Absent \/ c.plain["Status"] # Absent
  /\ ~c.sections => c.bold = NoFields /\ c.plain = NoFields

\* ... and counts of plans that agree.
CountsOK(c) ==
  /\ PlanOK(c.bold["Current Plan"], c.bold["Total Plans in Phase"], c.hand)
  /\ PositionOK(c.plain["Plan"], c.bold["Current Plan"], c.bold["Total Plans in Phase"], c.hand)

Sane(c) == LayoutOK(c) /\ CountsOK(c)

LEMMA Texts ==
  /\ Absent \in Seq(Int) /\ Absent \in Statuses /\ Len(Absent) = 0
  /\ \A i \in Int : <<i>> \in Seq(Int) /\ <<i>> # Absent /\ Len(<<i>>) = 1 /\ <<i>>[1] = i
  /\ \A i, k \in Int : /\ <<i, k>> \in Seq(Int) /\ <<i, k>> # Absent /\ Len(<<i, k>>) = 2
                       /\ <<i>> \o <<k>> = <<i, k>> /\ <<i, k>>[1] = i /\ <<i, k>>[2] = k
<1>1. ASSUME NEW i \in Int, NEW k \in Int
      PROVE  <<i>> \o <<k>> = <<i, k>>
  <2> DEFINE s == <<i>> \o <<k>>
  <2>1. Len(s) = 2 /\ s[1] = i /\ s[2] = k /\ s \in Seq(Int)
    OBVIOUS
  <2> HIDE DEF s
  <2>2. s = <<i, k>>
    BY <2>1
  <2>3. QED
    BY <2>2 DEF s
<1>2. Absent \in Seq(Int) /\ Absent \in Statuses /\ Len(Absent) = 0
  BY DEF Absent, Statuses
<1>3. \A i \in Int : <<i>> \in Seq(Int) /\ <<i>> # Absent /\ Len(<<i>>) = 1 /\ <<i>>[1] = i
  BY DEF Absent
<1>4. \A i, k \in Int : /\ <<i, k>> \in Seq(Int) /\ <<i, k>> # Absent /\ Len(<<i, k>>) = 2
                        /\ <<i, k>>[1] = i /\ <<i, k>>[2] = k
  BY DEF Absent
<1>5. QED
  BY <1>1, <1>2, <1>3, <1>4

LEMMA One == ASSUME NEW x PROVE <<x>> # Absent /\ <<x>>[1] = x
  BY DEF Absent

LEMMA Two == ASSUME NEW x, NEW y PROVE <<x, y>> # Absent /\ <<x, y>>[1] = x /\ <<x, y>>[2] = y
  BY DEF Absent

LEMMA NumberIsSeq == ASSUME NEW v, IsNumber(v) PROVE v \in Seq(Int)
<1>1. CASE v = Absent
  BY <1>1, Texts
<1>2. CASE \E i \in Int : v = <<i>>
  BY <1>2, Texts
<1>3. QED
  BY <1>1, <1>2 DEF IsNumber

LEMMA PlanIsSeq == ASSUME NEW n, NEW t, NEW hand, PlanOK(n, t, hand) PROVE n \in Seq(Int) /\ t \in Seq(Int)
<1>1. CASE n = Absent /\ t = Absent
  BY <1>1, Texts
<1>2. CASE \E i, k \in Nat : n = <<i>> /\ t = <<k>>
  <2>1. PICK i \in Nat, k \in Nat : n = <<i>> /\ t = <<k>>
    BY <1>2
  <2>2. QED
    BY <2>1, Texts
<1>3. QED
  BY <1>1, <1>2 DEF PlanOK

LEMMA PositionIsSeq ==
  ASSUME NEW pos, NEW n, NEW t, NEW hand, PositionOK(pos, n, t, hand) PROVE pos \in Seq(Int)
<1>1. CASE IsNumber(pos)
  BY <1>1, NumberIsSeq
<1>2. CASE \E i, k \in Nat : pos = <<i, k>>
  <2>1. PICK i \in Nat, k \in Nat : pos = <<i, k>>
    BY <1>2
  <2>2. QED
    BY <2>1, Texts
<1>3. QED
  BY <1>1, <1>2 DEF PositionOK

LEMMA SaneIsOK == ASSUME NEW c, Sane(c) PROVE ContentOK(c)
<1> USE DEF Sane, LayoutOK, CountsOK
<1>1. c.bold \in [Fields -> Values] /\ c.plain \in [Fields -> Values]
  BY DEF Contents
<1>2. FieldsOK(c.bold)
  BY <1>1, PlanIsSeq, NumberIsSeq, Texts DEF BoldOK, FieldsOK, Fields
<1>3. FieldsOK(c.plain)
  <2>1. c.plain["Plan"] \in Seq(Int) /\ c.plain["Progress"] \in Seq(Int)
    BY PositionIsSeq, NumberIsSeq DEF PlainOK
  <2>2. QED
    BY <1>1, <2>1, Texts DEF PlainOK, FieldsOK, Fields
<1>4. QED
  BY <1>2, <1>3 DEF ContentOK, Contents, Frontmatters

LEMMA NoFieldsOK == NoFields \in [Fields -> Values] /\ \A f \in Fields : NoFields[f] = Absent
  BY Texts DEF NoFields, Values

LEMMA BlankOK == /\ Blank \in Contents /\ Blank.bold = NoFields /\ Blank.plain = NoFields
                 /\ ~Blank.sections
  BY NoFieldsOK, Texts DEF Blank, Contents, NoFm, Frontmatters

LEMMA BlankIsSane == Sane(Blank)
  BY BlankOK, NoFieldsOK, Texts DEF Sane, LayoutOK, CountsOK, BoldOK, PlainOK, PositionOK, PlanOK, IsNumber, Fields

LEMMA InitialIsSane == ASSUME NEW c \in InitialContents PROVE Sane(c)
<1>1. MaxPlans \in Nat /\ MaxPlans \in Int /\ 1 <= MaxPlans /\ MaxPlans > 0
  BY PlansAssumption
<1>2. /\ <<"Ready to plan">> \in Values /\ <<"Ready to plan">> \in Statuses
      /\ <<"Ready to plan">> # Absent
  BY Texts DEF Values, Statuses, Absent
<1>3. /\ <<1, MaxPlans>> \in Values /\ <<0>> \in Values /\ <<1>> \in Values /\ <<2>> \in Values
      /\ <<MaxPlans>> \in Values /\ IsNumber(<<0>>) /\ IsNumber(<<2>>)
  BY <1>1, Texts DEF Values, IsNumber
<1>4. /\ IsNumber(Absent) /\ PlanOK(Absent, Absent, FALSE) /\ PlanOK(<<1>>, <<MaxPlans>>, FALSE)
      /\ Blank.hand = FALSE
  BY <1>1 DEF IsNumber, PlanOK, Blank
<1>5. /\ PositionOK(<<1, MaxPlans>>, <<1>>, <<MaxPlans>>, FALSE)
      /\ PositionOK(<<1, MaxPlans>>, Absent, Absent, FALSE)
  BY <1>1 DEF PositionOK
<1>6. ASSUME c.plain = PlainContent.plain, c \in Contents, c.sections, c.hand = FALSE, BoldOK(c.bold),
             c.bold["Current Plan"] = Absent, c.bold["Total Plans in Phase"] = Absent
      PROVE  Sane(c)
  <2>1. c.plain = [NoFields EXCEPT !["Status"] = <<"Ready to plan">>,
                                   !["Plan"] = <<1, MaxPlans>>, !["Progress"] = <<0>>]
    BY <1>6, BlankOK DEF PlainContent, Contents
  <2>2. /\ c.plain["Status"] = <<"Ready to plan">> /\ c.plain["Plan"] = <<1, MaxPlans>>
        /\ c.plain["Progress"] = <<0>>
        /\ c.plain["Current Plan"] = Absent /\ c.plain["Total Plans in Phase"] = Absent
        /\ c.plain["Completed Phases"] = Absent /\ c.plain["Total Phases"] = Absent
        /\ c.plain["Paused At"] = Absent
    BY <2>1, NoFieldsOK DEF Fields
  <2>3. PlainOK(c.plain) /\ c.plain["Status"] # Absent
    BY <1>2, <1>3, <2>2 DEF PlainOK
  <2>4. QED
    BY <1>4, <1>5, <1>6, <2>2, <2>3 DEF Sane, LayoutOK, CountsOK
<1>10. /\ PlainContent.plain \in [Fields -> Values] /\ PlainContent \in Contents
       /\ PlainContent.bold = NoFields /\ PlainContent.sections /\ PlainContent.hand = FALSE
  <2>1. [NoFields EXCEPT !["Status"] = <<"Ready to plan">>,
                         !["Plan"] = <<1, MaxPlans>>, !["Progress"] = <<0>>] \in [Fields -> Values]
    BY <1>2, <1>3, NoFieldsOK
  <2>2. QED
    BY <1>4, <2>1, BlankOK DEF PlainContent, Contents
<1>11. CASE c = PlainContent
  <2>1. BoldOK(c.bold) /\ c.bold["Current Plan"] = Absent /\ c.bold["Total Plans in Phase"] = Absent
    BY <1>4, <1>10, <1>11, NoFieldsOK, Texts DEF BoldOK, Fields
  <2>2. QED
    BY <1>6, <1>10, <1>11, <2>1
<1>12. CASE c = PausedContent
  <2>1. /\ c = [PlainContent EXCEPT !.bold = c.bold]
        /\ c.bold = [NoFields EXCEPT !["Paused At"] = <<1>>]
    BY <1>10, <1>12 DEF PausedContent, Contents
  <2>2. /\ c.bold["Paused At"] = <<1>>
        /\ \A f \in Fields \ {"Paused At"} : c.bold[f] = Absent
        /\ c.bold \in [Fields -> Values]
    BY <1>3, <2>1, NoFieldsOK DEF Fields
  <2>3. c \in Contents /\ c.plain = PlainContent.plain /\ c.sections /\ c.hand = FALSE
    BY <1>10, <2>1, <2>2 DEF Contents
  <2>4. IsNumber(<<1>>)
    BY DEF IsNumber
  <2>5. BoldOK(c.bold) /\ c.bold["Current Plan"] = Absent /\ c.bold["Total Plans in Phase"] = Absent
    BY <1>4, <2>2, <2>4, Texts DEF BoldOK, Fields
  <2>6. QED
    BY <1>6, <2>3, <2>5
<1>7. CASE c = BoldContent
  <2>1. /\ c = [Blank EXCEPT !.sections = TRUE, !.plain = c.plain, !.bold = c.bold]
        /\ c.plain = [NoFields EXCEPT !["Status"] = <<"Ready to plan">>, !["Plan"] = <<1, MaxPlans>>]
        /\ c.bold = [NoFields EXCEPT !["Status"] = <<"Ready to plan">>, !["Progress"] = <<0>>,
                       !["Current Plan"] = <<1>>, !["Total Plans in Phase"] = <<MaxPlans>>,
                       !["Completed Phases"] = <<0>>, !["Total Phases"] = <<2>>]
    BY <1>7, BlankOK DEF BoldContent, Contents
  <2>2. /\ c.plain["Status"] = <<"Ready to plan">> /\ c.plain["Plan"] = <<1, MaxPlans>>
        /\ c.plain["Progress"] = Absent
        /\ c.plain["Current Plan"] = Absent /\ c.plain["Total Plans in Phase"] = Absent
        /\ c.plain["Completed Phases"] = Absent /\ c.plain["Total Phases"] = Absent
        /\ c.plain["Paused At"] = Absent
    BY <2>1, NoFieldsOK DEF Fields
  <2>3. /\ c.bold["Status"] = <<"Ready to plan">> /\ c.bold["Progress"] = <<0>>
        /\ c.bold["Current Plan"] = <<1>> /\ c.bold["Total Plans in Phase"] = <<MaxPlans>>
        /\ c.bold["Completed Phases"] = <<0>> /\ c.bold["Total Phases"] = <<2>>
        /\ c.bold["Plan"] = Absent /\ c.bold["Paused At"] = Absent
    BY <2>1, NoFieldsOK DEF Fields
  <2>4. c.plain \in [Fields -> Values] /\ c.bold \in [Fields -> Values]
    <3>1. \A m \in [Fields -> Values], f \in Fields, v \in Values :
            [m EXCEPT ![f] = v] \in [Fields -> Values]
      OBVIOUS
    <3>2. c.bold = [[[[[[NoFields EXCEPT !["Status"] = <<"Ready to plan">>]
                         EXCEPT !["Progress"] = <<0>>]
                         EXCEPT !["Current Plan"] = <<1>>]
                         EXCEPT !["Total Plans in Phase"] = <<MaxPlans>>]
                         EXCEPT !["Completed Phases"] = <<0>>]
                         EXCEPT !["Total Phases"] = <<2>>]
      BY <2>1
    <3>3. c.plain = [[NoFields EXCEPT !["Status"] = <<"Ready to plan">>] EXCEPT !["Plan"] = <<1, MaxPlans>>]
      BY <2>1
    <3>4. c.plain \in [Fields -> Values]
      BY <1>2, <1>3, <3>1, <3>3, NoFieldsOK, ZenonT(60) DEF Fields
    <3>5. c.bold \in [Fields -> Values]
      BY <1>2, <1>3, <3>1, <3>2, NoFieldsOK, ZenonT(60) DEF Fields
    <3>6. QED
      BY <3>4, <3>5
  <2>5. c \in Contents /\ c.sections = TRUE /\ c.hand = FALSE
    BY <1>4, <2>1, <2>4, BlankOK DEF Contents
  <2>6. BoldOK(c.bold)
    BY <1>2, <1>3, <1>4, <2>3 DEF BoldOK
  <2>7. PlainOK(c.plain) /\ c.plain["Status"] # Absent
    BY <1>2, <1>4, <2>2 DEF PlainOK
  <2>8. QED
    BY <1>4, <1>5, <2>2, <2>3, <2>5, <2>6, <2>7 DEF Sane, LayoutOK, CountsOK
<1>8. QED
  BY <1>7, <1>11, <1>12 DEF InitialContents

\* Where a value goes.
LEMMA ReplaceEffect ==
  ASSUME NEW c \in Contents, NEW f \in Fields, NEW v \in Values,
         f = "Status" => v \in Statuses, f # "Status" => v \in Seq(Int)
  PROVE  /\ StateReplaceField(c, f, v) \in Contents
         /\ StateReplaceField(c, f, v).sections = c.sections
         /\ StateReplaceField(c, f, v).log = c.log
         /\ StateReplaceField(c, f, v).junk = c.junk
         /\ StateReplaceField(c, f, v).hand = c.hand
         /\ StateReplaceField(c, f, v).fm.present = c.fm.present
         /\ StateReplaceField(c, f, v).bold =
              IF c.bold[f] # Absent THEN [c.bold EXCEPT ![f] = v] ELSE c.bold
         /\ StateReplaceField(c, f, v).plain =
              IF c.bold[f] = Absent /\ ~InFrontmatter(c, f) /\ c.plain[f] # Absent
              THEN [c.plain EXCEPT ![f] = v] ELSE c.plain
  BY DEF StateReplaceField, Contents, Frontmatters, InFrontmatter

\* What a command may write into a field.
FitsIn(f, v) ==
  /\ v # Absent
  /\ f = "Status" => v \in Statuses
  /\ f # "Status" => v \in Seq(Int)
  /\ f \notin {"Status", "Current Plan", "Total Plans in Phase", "Plan"} => IsNumber(v)

\* d is c but for the field f, where a field that is there got v.
Replaced(c, f, v, d) ==
  /\ LayoutOK(d)
  /\ d.log = c.log /\ d.junk = c.junk /\ d.sections = c.sections /\ d.hand = c.hand
  /\ \A g \in Fields \ {f} : d.bold[g] = c.bold[g] /\ d.plain[g] = c.plain[g]
  /\ d.bold[f] = IF c.bold[f] # Absent THEN v ELSE Absent
  /\ f = "Plan" => d.plain[f] = IF c.plain[f] # Absent THEN v ELSE Absent

LEMMA ReplaceKeeps ==
  ASSUME NEW c, LayoutOK(c), NEW f \in Fields, NEW v, FitsIn(f, v)
  PROVE  Replaced(c, f, v, StateReplaceField(c, f, v))
<1> DEFINE d == StateReplaceField(c, f, v)
<1>1. v \in Values /\ c \in Contents /\ c.bold \in [Fields -> Values] /\ c.plain \in [Fields -> Values]
  BY DEF FitsIn, LayoutOK, Contents, Values
<1>2. /\ d \in Contents /\ d.log = c.log /\ d.junk = c.junk /\ d.sections = c.sections
      /\ d.hand = c.hand
      /\ d.bold = IF c.bold[f] # Absent THEN [c.bold EXCEPT ![f] = v] ELSE c.bold
      /\ d.plain = IF c.bold[f] = Absent /\ ~InFrontmatter(c, f) /\ c.plain[f] # Absent
                   THEN [c.plain EXCEPT ![f] = v] ELSE c.plain
  BY <1>1, ReplaceEffect DEF FitsIn
<1> HIDE DEF d
<1>3. /\ \A g \in Fields \ {f} : d.bold[g] = c.bold[g] /\ d.plain[g] = c.plain[g]
      /\ d.bold[f] = IF c.bold[f] # Absent THEN v ELSE Absent
      /\ d.plain[f] \in {c.plain[f], v}
      /\ d.plain[f] # Absent <=> c.plain[f] # Absent
      /\ d.bold[f] # Absent <=> c.bold[f] # Absent
  BY <1>1, <1>2 DEF FitsIn
<1>4. f = "Plan" => d.plain[f] = IF c.plain[f] # Absent THEN v ELSE Absent
  BY <1>1, <1>2 DEF LayoutOK, BoldOK, InFrontmatter
<1>5. BoldOK(d.bold)
  BY <1>3 DEF LayoutOK, BoldOK, FitsIn, Fields
<1>6. PlainOK(d.plain)
  BY <1>3 DEF LayoutOK, PlainOK, FitsIn, Fields
<1>7. d.sections => d.bold["Status"] # Absent \/ d.plain["Status"] # Absent
  BY <1>2, <1>3 DEF LayoutOK, Fields
<1>8. ~d.sections => d.bold = NoFields /\ d.plain = NoFields
  BY <1>2, NoFieldsOK DEF LayoutOK
<1>9. QED
  BY <1>2, <1>3, <1>4, <1>5, <1>6, <1>7, <1>8 DEF LayoutOK, Replaced, d

\* A field that counts no plan.
LEMMA ReplaceIsSane ==
  ASSUME NEW c, Sane(c), NEW f \in Fields, f \notin {"Current Plan", "Total Plans in Phase", "Plan"},
         NEW v, FitsIn(f, v)
  PROVE  Sane(StateReplaceField(c, f, v)) /\ Replaced(c, f, v, StateReplaceField(c, f, v))
<1> DEFINE d == StateReplaceField(c, f, v)
<1>1. LayoutOK(c) /\ CountsOK(c)
  BY DEF Sane
<1>2. Replaced(c, f, v, d)
  BY <1>1, ReplaceKeeps
<1> HIDE DEF d
<1>3. CountsOK(d)
  BY <1>1, <1>2 DEF Replaced, CountsOK, Fields
<1>4. QED
  BY <1>2, <1>3 DEF Sane, Replaced, d

\* Current Position: a line that is there gets the new text.
Positioned(c, plan, d) ==
  /\ LayoutOK(d)
  /\ d.log = c.log /\ d.junk = c.junk /\ d.sections = c.sections /\ d.bold = c.bold
  /\ d.hand = c.hand
  /\ d.plain["Plan"] = IF c.plain["Plan"] = Absent \/ plan = Absent
                       THEN c.plain["Plan"] ELSE plan

LEMMA PositionFields ==
  ASSUME NEW c, LayoutOK(c), NEW status \in Statuses \ {Absent}, NEW plan \in Seq(Int)
  PROVE  Positioned(c, plan, UpdateCurrentPositionFields(c, status, plan))
<1> DEFINE d == UpdateCurrentPositionFields(c, status, plan)
<1>1. c \in Contents /\ c.plain \in [Fields -> Values] /\ status \in Values /\ plan \in Values
  BY DEF LayoutOK, Contents, Values
<1>2. /\ d \in Contents
      /\ d.log = c.log /\ d.junk = c.junk /\ d.sections = c.sections /\ d.bold = c.bold
      /\ d.hand = c.hand
      /\ d.plain["Plan"] = IF c.plain["Plan"] = Absent \/ plan = Absent
                           THEN c.plain["Plan"] ELSE plan
      /\ d.plain["Status"] = IF c.plain["Status"] = Absent THEN c.plain["Status"] ELSE status
      /\ \A f \in Fields \ {"Status", "Plan"} : d.plain[f] = c.plain[f]
      /\ d.plain \in [Fields -> Values]
  BY <1>1 DEF UpdateCurrentPositionFields, Contents, Fields
<1> HIDE DEF d
<1>3. PlainOK(d.plain)
  BY <1>2 DEF LayoutOK, PlainOK, Fields
<1>4. d.sections => d.bold["Status"] # Absent \/ d.plain["Status"] # Absent
  BY <1>2 DEF LayoutOK
<1>5. ~d.sections => d.bold = NoFields /\ d.plain = NoFields
  <2> SUFFICES ASSUME ~c.sections PROVE d.plain = NoFields
    BY <1>2 DEF LayoutOK
  <2>1. c.plain = NoFields
    BY DEF LayoutOK
  <2>2. \A f \in Fields : d.plain[f] = NoFields[f]
    BY <1>2, <2>1, NoFieldsOK DEF Fields
  <2>3. QED
    BY <1>2, <2>2, NoFieldsOK
<1>6. QED
  BY <1>2, <1>3, <1>4, <1>5 DEF LayoutOK, Positioned, d

----------------------------------------------------------------------------
(* The commands.                                                             *)

\* What an edit of c makes of it and reports.
EditOK(c, e) == /\ Sane(e.c) /\ e.c.junk = c.junk
                /\ e.c.log = (c.log \ e.drops) \cup e.adds
                /\ e.adds \subseteq Entries

LEMMA PlainEdit ==
  ASSUME NEW c, NEW d, Sane(d), d.log = c.log, d.junk = c.junk
  PROVE  EditOK(c, Edit(d))
  BY DEF EditOK, Edit

LEMMA Words ==
  /\ \A w \in {<<"Ready to plan">>, <<"Ready to execute">>, <<"Executing">>, <<"Milestone complete">>,
               <<"Phase complete - ready for verification">>, <<"Paused">>, <<"shipped">>} :
       w \in Statuses \ {Absent} /\ FitsIn("Status", w)
  /\ \A i \in Int : IsNumber(<<i>>) /\ \A f \in Fields \ {"Status"} : FitsIn(f, <<i>>)
<1>1. ASSUME NEW w \in Statuses \ {Absent}
      PROVE  FitsIn("Status", w)
  BY <1>1 DEF FitsIn
<1>2. ASSUME NEW i \in Int
      PROVE  IsNumber(<<i>>) /\ \A f \in Fields \ {"Status"} : FitsIn(f, <<i>>)
  BY Texts DEF FitsIn, IsNumber
<1>3. \A w \in {<<"Ready to plan">>, <<"Ready to execute">>, <<"Executing">>, <<"Milestone complete">>,
               <<"Phase complete - ready for verification">>, <<"Paused">>, <<"shipped">>} :
       w \in Statuses \ {Absent}
  <2>1. \A x : <<x>> # Absent
    BY DEF Absent
  <2>2. QED
    BY <2>1 DEF Statuses
<1>4. QED
  BY <1>1, <1>2, <1>3

LEMMA PhaseDoneIsOK ==
  ASSUME NEW c, Sane(c)
  PROVE  EditOK(c, Edit(PhaseDone(c)))
<1> DEFINE w == <<"Phase complete - ready for verification">>
           d == StateReplaceField(c, "Status", w)
           p == UpdateCurrentPositionFields(d, w, Absent)
<1>1. w \in Statuses \ {Absent} /\ FitsIn("Status", w) /\ "Status" \in Fields
  BY Words DEF Fields
<1>2. PhaseDone(c) = p
  BY DEF PhaseDone
<1> HIDE DEF w
<1>3. Sane(d) /\ Replaced(c, "Status", w, d)
  BY <1>1, ReplaceIsSane
<1> HIDE DEF d
<1>4. Positioned(d, Absent, p)
  BY <1>1, <1>3, PositionFields, Texts DEF Sane
<1> HIDE DEF p
<1>5. Sane(p)
  BY <1>3, <1>4 DEF Positioned, Sane, CountsOK
<1>6. QED
  BY <1>2, <1>3, <1>4, <1>5, PlainEdit DEF Positioned, Replaced

\* Two numbers, from the bold fields or from the position.
LEMMA ParsedPlanIs ==
  ASSUME NEW c, Sane(c), IsPlan(ParsedPlan(c))
  PROVE  \E i, k \in Nat :
           /\ ParsedPlan(c) = <<i, k>> /\ ParsedPlan(c)[1] = i /\ ParsedPlan(c)[2] = k
           /\ IF HasLegacyPlan(c)
              THEN c.bold["Current Plan"] = <<i>> /\ c.bold["Total Plans in Phase"] = <<k>>
              ELSE /\ c.bold["Current Plan"] = Absent /\ c.bold["Total Plans in Phase"] = Absent
                   /\ c.plain["Plan"] = <<i, k>>
<1> DEFINE n == c.bold["Current Plan"]
           t == c.bold["Total Plans in Phase"]
           pos == c.plain["Plan"]
<1>1. LayoutOK(c) /\ PlanOK(n, t, c.hand) /\ PositionOK(pos, n, t, c.hand)
  BY DEF Sane, CountsOK
<1>2. CASE HasLegacyPlan(c)
  <2>1. PICK i \in Nat, k \in Nat : n = <<i>> /\ t = <<k>>
    BY <1>1, <1>2 DEF PlanOK, HasLegacyPlan
  <2>2. <<i>> \o <<k>> = <<i, k>>
    BY Texts
  <2>3. ParsedPlan(c) = <<i, k>>
    BY <1>2, <2>1, <2>2 DEF ParsedPlan
  <2>4. ParsedPlan(c)[1] = i /\ ParsedPlan(c)[2] = k
    BY ONLY <2>3, Two
  <2>5. QED
    BY <1>2, <2>1, <2>3, <2>4
<1>3. CASE ~HasLegacyPlan(c)
  <2>1. n = Absent /\ t = Absent
    <3>1. CASE n = Absent /\ t = Absent
      BY <3>1
    <3>2. CASE \E i, k \in Nat : n = <<i>> /\ t = <<k>>
      <4>1. PICK i \in Nat, k \in Nat : n = <<i>> /\ t = <<k>>
        BY <3>2
      <4>2. n # Absent /\ t # Absent
        BY <4>1, One
      <4>3. QED
        BY <1>3, <4>2 DEF HasLegacyPlan
    <3>3. QED
      BY <1>1, <3>1, <3>2 DEF PlanOK
  <2>2. ParsedPlan(c) = pos
    BY <1>1, <1>3 DEF ParsedPlan, StateExtractField, InFrontmatter, LayoutOK, BoldOK
  <2>3. ~IsNumber(pos)
    BY <2>2, Texts DEF IsPlan, IsNumber
  <2>4. PICK i \in Nat, k \in Nat : pos = <<i, k>>
    BY <1>1, <2>3 DEF PositionOK
  <2>5. ParsedPlan(c) = <<i, k>>
    BY <2>2, <2>4
  <2>6. ParsedPlan(c)[1] = i /\ ParsedPlan(c)[2] = k
    BY ONLY <2>5, Two
  <2>7. QED
    BY <1>3, <2>1, <2>4, <2>5, <2>6
<1>4. QED
  BY <1>2, <1>3

\* The plan the text counts is below the total, and so the next one is not past it.
LEMMA StepIsOK ==
  ASSUME NEW c, Sane(c), IsPlan(ParsedPlan(c)), ParsedPlan(c)[1] < ParsedPlan(c)[2]
  PROVE  EditOK(c, Edit(UpdateCurrentPositionFields(StepPlan(c, NextPlan(c)),
                                                    <<"Ready to execute">>, NextPlan(c))))
<1> DEFINE w == <<"Ready to execute">>
           n == c.bold["Current Plan"]
           t == c.bold["Total Plans in Phase"]
           pos == c.plain["Plan"]
<1>1. w \in Statuses \ {Absent} /\ FitsIn("Status", w) /\ {"Status", "Current Plan", "Plan"} \subseteq Fields
  BY Words DEF Fields
<1>2. LayoutOK(c) /\ PlanOK(n, t, c.hand) /\ PositionOK(pos, n, t, c.hand)
  BY DEF Sane, CountsOK
<1>3. ASSUME NEW a, LayoutOK(a), a.log = c.log, a.junk = c.junk, a.hand = c.hand,
             NEW q \in Seq(Int), q = NextPlan(c),
             StepPlan(c, NextPlan(c)) = StateReplaceField(a, "Status", w),
             PlanOK(a.bold["Current Plan"], a.bold["Total Plans in Phase"], c.hand),
             PositionOK(IF a.plain["Plan"] = Absent THEN Absent ELSE q,
                        a.bold["Current Plan"], a.bold["Total Plans in Phase"], c.hand)
      PROVE  EditOK(c, Edit(UpdateCurrentPositionFields(StepPlan(c, NextPlan(c)), w, NextPlan(c))))
  <2> DEFINE b == StateReplaceField(a, "Status", w)
             p == UpdateCurrentPositionFields(b, w, q)
  <2> HIDE DEF w
  <2>1. Replaced(a, "Status", w, b)
    BY <1>1, <1>3, ReplaceKeeps
  <2> HIDE DEF b
  <2>2. Positioned(b, q, p)
    BY <1>1, <1>3, <2>1, PositionFields DEF Replaced
  <2> HIDE DEF p
  <2>3. /\ p.bold["Current Plan"] = a.bold["Current Plan"]
        /\ p.bold["Total Plans in Phase"] = a.bold["Total Plans in Phase"]
        /\ p.plain["Plan"] = IF a.plain["Plan"] = Absent \/ q = Absent THEN a.plain["Plan"] ELSE q
        /\ p.hand = c.hand
    BY <1>3, <2>1, <2>2 DEF Replaced, Positioned, Fields
  <2>4. q # Absent
    BY <1>3, Texts DEF NextPlan, Absent
  <2>5. Sane(p)
    BY <1>3, <2>2, <2>3, <2>4 DEF Positioned, Sane, CountsOK
  <2>6. EditOK(c, Edit(p))
    BY <1>3, <2>1, <2>2, <2>5, PlainEdit DEF Positioned, Replaced
  <2>7. QED
    BY <1>3, <2>6 DEF b, p
<1>4. CASE HasLegacyPlan(c)
  <2>1. PICK i \in Nat, k \in Nat : /\ ParsedPlan(c)[1] = i /\ ParsedPlan(c)[2] = k
                                    /\ n = <<i>> /\ t = <<k>>
    BY <1>4, ParsedPlanIs
  <2>2. PICK m \in Nat : m = i + 1 /\ m <= k /\ k > 0
    <3>1. i < k
      BY <2>1
    <3>2. QED
      BY <3>1
  <2>3. NextPlan(c) = <<m, k>>
    BY <2>1, <2>2 DEF NextPlan
  <2> DEFINE a == StateReplaceField(c, "Current Plan", <<m>>)
  <2>4. FitsIn("Current Plan", <<m>>)
    BY Texts DEF FitsIn
  <2>5. Replaced(c, "Current Plan", <<m>>, a)
    BY <1>1, <1>2, <2>4, ReplaceKeeps
  <2>6. NextPlan(c)[1] = m
    BY <2>3, Texts
  <2>7. StepPlan(c, NextPlan(c)) = StateReplaceField(a, "Status", w)
    BY <1>4, <2>6 DEF StepPlan
  <2> HIDE DEF a
  <2>8. a.bold["Current Plan"] = <<m>> /\ a.bold["Total Plans in Phase"] = <<k>>
    BY <1>4, <2>1, <2>5 DEF Replaced, HasLegacyPlan, Fields
  <2>9. PlanOK(<<m>>, <<k>>, c.hand)
    BY <2>2 DEF PlanOK
  <2>10. PositionOK(<<m, k>>, <<m>>, <<k>>, c.hand)
    BY <2>2 DEF PositionOK
  <2>11. PositionOK(Absent, <<m>>, <<k>>, c.hand)
    BY DEF PositionOK, IsNumber
  <2>12. <<m, k>> \in Seq(Int)
    BY Texts
  <2>13. QED
    BY <1>3, <2>3, <2>5, <2>7, <2>8, <2>9, <2>10, <2>11, <2>12 DEF Replaced
<1>5. CASE ~HasLegacyPlan(c)
  <2>1. PICK i \in Nat, k \in Nat : /\ ParsedPlan(c)[1] = i /\ ParsedPlan(c)[2] = k
                                    /\ n = Absent /\ t = Absent /\ pos = <<i, k>>
    BY <1>5, ParsedPlanIs
  <2>2. PICK m \in Nat : m = i + 1 /\ m <= k
    <3>1. i < k
      BY <2>1
    <3>2. QED
      BY <3>1
  <2>3. NextPlan(c) = <<m, k>>
    BY <2>1, <2>2 DEF NextPlan
  <2> DEFINE q == <<m, k>>
             a == StateReplaceField(c, "Plan", q)
  <2>4. q \in Seq(Int) /\ FitsIn("Plan", q)
    BY Texts DEF FitsIn
  <2>5. StepPlan(c, NextPlan(c)) = StateReplaceField(a, "Status", w)
    BY <1>5, <2>3 DEF StepPlan
  <2>6. PlanOK(Absent, Absent, c.hand) /\ PositionOK(Absent, Absent, Absent, c.hand)
    BY DEF PlanOK, PositionOK, IsNumber
  <2>7. PositionOK(q, Absent, Absent, c.hand)
    BY <2>2 DEF PositionOK
  <2>8. q = NextPlan(c)
    BY <2>3
  <2> HIDE DEF q
  <2>9. Replaced(c, "Plan", q, a)
    BY <1>1, <1>2, <2>4, ReplaceKeeps
  <2> HIDE DEF a
  <2>10. a.bold["Current Plan"] = Absent /\ a.bold["Total Plans in Phase"] = Absent
    BY <2>1, <2>9 DEF Replaced, Fields
  <2>11. QED
    BY <1>3, <2>4, <2>5, <2>6, <2>7, <2>8, <2>9, <2>10 DEF Replaced
<1>6. QED
  BY <1>4, <1>5

LEMMA AdvanceIsOK ==
  ASSUME NEW c, Sane(c), NEW e \in AdvancePlan(c)
  PROVE  EditOK(c, e)
<1>1. IsPlan(ParsedPlan(c))
  BY DEF AdvancePlan
<1>2. CASE ParsedPlan(c)[1] >= ParsedPlan(c)[2]
  BY <1>1, <1>2, PhaseDoneIsOK DEF AdvancePlan
<1>3. CASE ~(ParsedPlan(c)[1] >= ParsedPlan(c)[2])
  <2>1. ParsedPlan(c)[1] < ParsedPlan(c)[2]
    <3>1. PICK i \in Nat, k \in Nat : ParsedPlan(c) = <<i, k>>
      BY <1>1, ParsedPlanIs
    <3>2. ParsedPlan(c)[1] \in Nat /\ ParsedPlan(c)[2] \in Nat
      BY <3>1, Two
    <3>3. QED
      BY <1>3, <3>2
  <2>2. QED
    BY <1>1, <1>3, <2>1, StepIsOK DEF AdvancePlan
<1>4. QED
  BY <1>2, <1>3

\* An entry comes or goes; nothing else changes.
LEMMA LogIsSane ==
  ASSUME NEW c, Sane(c), NEW l \in SUBSET Entries
  PROVE  /\ Sane([c EXCEPT !.log = l])
         /\ [c EXCEPT !.log = l].log = l /\ [c EXCEPT !.log = l].junk = c.junk
  BY DEF Sane, LayoutOK, CountsOK, Contents

LEMMA AppendIsOK ==
  ASSUME NEW c, Sane(c), NEW texts \in SUBSET Entries, NEW e \in AppendEntry(c, texts)
  PROVE  EditOK(c, e)
<1>1. PICK t \in texts : e = [Edit([c EXCEPT !.log = @ \cup {t}]) EXCEPT !.adds = {t}]
  BY DEF AppendEntry
<1>2. c \in Contents
  BY DEF Sane, LayoutOK
<1>3. c.log \cup {t} \in SUBSET Entries
  BY <1>2 DEF Contents
<1>4. /\ e.c = [c EXCEPT !.log = c.log \cup {t}]
      /\ e.adds = {t} /\ e.drops = {}
  BY <1>1 DEF Edit
<1>5. QED
  BY <1>3, <1>4, LogIsSane DEF EditOK

LEMMA ResolveIsOK ==
  ASSUME NEW c, Sane(c), NEW e \in ResolveBlocker(c)
  PROVE  EditOK(c, e)
<1>1. PICK m \in SUBSET Blockers : e = [Edit([c EXCEPT !.log = @ \ m]) EXCEPT !.drops = m]
  BY DEF ResolveBlocker
<1>2. c \in Contents
  BY DEF Sane, LayoutOK
<1>3. c.log \ m \in SUBSET Entries
  BY <1>2 DEF Contents
<1>4. /\ e.c = [c EXCEPT !.log = c.log \ m]
      /\ e.adds = {} /\ e.drops = m
  BY <1>1 DEF Edit
<1>5. QED
  BY <1>3, <1>4, LogIsSane DEF EditOK

\* One field that counts no plan gets a value.
LEMMA FieldIsOK ==
  ASSUME NEW c, Sane(c), NEW f \in Fields, f \notin {"Current Plan", "Total Plans in Phase", "Plan"},
         NEW v, FitsIn(f, v)
  PROVE  EditOK(c, Edit(StateReplaceField(c, f, v)))
<1> DEFINE d == StateReplaceField(c, f, v)
<1>1. Sane(d) /\ Replaced(c, f, v, d)
  BY ReplaceIsSane
<1> HIDE DEF d
<1>2. EditOK(c, Edit(d))
  BY <1>1, PlainEdit DEF Replaced
<1>3. QED
  BY <1>2 DEF d

LEMMA NumberFits ==
  ASSUME NEW i \in Int, NEW f \in Fields \ {"Status"}
  PROVE  FitsIn(f, <<i>>) /\ IsNumber(<<i>>)
  BY Texts DEF FitsIn, IsNumber

LEMMA PercentIsInt == \A sums, plans \in Nat : Percent(sums, plans) \in Int
<1> SUFFICES ASSUME NEW sums \in Nat, NEW plans \in Nat, plans # 0
             PROVE  Percent(sums, plans) \in Int
  BY DEF Percent
<1>1. 200 * sums + plans \in Int /\ 2 * plans \in Int /\ 2 * plans > 0
  OBVIOUS
<1>2. (200 * sums + plans) \div (2 * plans) \in Int
  BY <1>1
<1>3. QED
  BY <1>2 DEF Percent

LEMMA ProgressIsOK ==
  ASSUME NEW c, Sane(c), NEW d, d.plans \in Nat, d.sums \in Nat, NEW e \in UpdateProgress(c, d)
  PROVE  EditOK(c, e)
<1>1. PICK i \in Int : i = Percent(d.sums, d.plans)
  BY PercentIsInt
<1>2. e = Edit(StateReplaceField(c, "Progress", <<i>>))
  BY <1>1 DEF UpdateProgress
<1>3. FitsIn("Progress", <<i>>) /\ "Progress" \in Fields
  BY Words DEF Fields
<1>4. QED
  BY <1>2, <1>3, FieldIsOK

LEMMA StatusIsOK ==
  ASSUME NEW c, Sane(c)
  PROVE  /\ \A e \in MilestoneComplete(c) : EditOK(c, e)
         /\ \A e \in RecordSession(c) : EditOK(c, e)
<1>1. FitsIn("Status", <<"Milestone complete">>) /\ "Status" \in Fields
  BY Words DEF Fields
<1>2. \A e \in MilestoneComplete(c) : EditOK(c, e)
  BY <1>1, FieldIsOK DEF MilestoneComplete
<1>3. \A e \in RecordSession(c) : EditOK(c, e)
  BY PlainEdit DEF RecordSession
<1>4. QED
  BY <1>2, <1>3

\* A text that fits is a status, a number or, in the position, two.
LEMMA TypedIs ==
  ASSUME NEW f \in Fields, NEW v, TextFits(f, v)
  PROVE  /\ v \in Values /\ v # Absent
         /\ f = "Status" => v \in Statuses
         /\ f # "Status" => v \in Seq(Int)
         /\ f \notin {"Status", "Plan"} => IsNumber(v) /\ \E i \in Nat : v = <<i>>
         /\ f = "Plan" => IsNumber(v) \/ \E i, k \in Nat : v = <<i, k>>
<1>1. CASE f = "Status"
  BY <1>1 DEF TextFits, Values
<1>2. CASE f # "Status"
  <2>1. v \in Seq(Nat) /\ (Len(v) = 1 \/ (f = "Plan" /\ Len(v) = 2))
    BY <1>2 DEF TextFits
  <2>2. Len(v) = 1 => \E i \in Nat : v = <<i>>
    <3>1. HAVE Len(v) = 1
    <3>2. v[1] \in Nat /\ v = <<v[1]>>
      BY <2>1, <3>1
    <3>3. QED
      BY <3>2
  <2>3. Len(v) = 2 => \E i, k \in Nat : v = <<i, k>>
    <3>1. HAVE Len(v) = 2
    <3>2. v[1] \in Nat /\ v[2] \in Nat
      BY <2>1, <3>1
    <3>3. v = <<v[1], v[2]>>
      BY <2>1, <3>1, <3>2
    <3>4. QED
      BY <3>2, <3>3
  <2>4. v \in Seq(Int)
    BY <2>1
  <2>5. v # Absent
    BY <2>1 DEF Absent
  <2>6. QED
    BY <1>2, <2>1, <2>2, <2>3, <2>4, <2>5 DEF Values, IsNumber
<1>3. QED
  BY <1>1, <1>2

\* The parts of a text that typing leaves.
LEMMA TypedRecord ==
  ASSUME NEW c \in Contents, NEW b, NEW m, NEW fm, NEW h
  PROVE  [c EXCEPT !.bold = b, !.plain = m, !.fm = fm, !.hand = h]
         = [fm |-> fm, bold |-> b, plain |-> m,
            sections |-> c.sections, log |-> c.log, junk |-> c.junk, hand |-> h]
<1> DEFINE d == [c EXCEPT !.bold = b, !.plain = m, !.fm = fm, !.hand = h]
<1>1. d \in [fm : {fm}, bold : {b}, plain : {m}, sections : {c.sections},
             log : {c.log}, junk : {c.junk}, hand : {h}]
  BY DEF Contents
<1>2. ASSUME NEW e \in [fm : {fm}, bold : {b}, plain : {m}, sections : {c.sections},
                       log : {c.log}, junk : {c.junk}, hand : {h}]
      PROVE  e = [fm |-> fm, bold |-> b, plain |-> m,
                  sections |-> c.sections, log |-> c.log, junk |-> c.junk, hand |-> h]
  OBVIOUS
<1>3. QED
  BY <1>1, <1>2

\* What is typed goes into fields that are there; the plans it counts are marked.
LEMMA TypeIsOK ==
  ASSUME NEW c, Sane(c), NEW t \in Typed
  PROVE  EditOK(c, Edit(Type(c, t)))
<1> DEFINE d == Type(c, t)
           typed(f) == f \in DOMAIN t /\ HasField(c, f)
           Bolds == {f \in Fields : typed(f) /\ c.bold[f] # Absent}
           Plains == {f \in Fields : typed(f) /\ c.bold[f] = Absent /\ ~InFrontmatter(c, f)}
<1>1. /\ c \in Contents /\ LayoutOK(c) /\ CountsOK(c)
      /\ c.bold \in [Fields -> Values] /\ c.plain \in [Fields -> Values] /\ c.fm \in Frontmatters
  BY DEF Sane, LayoutOK, Contents
<1>2. \A f \in Fields : f \in DOMAIN t => TextFits(f, t[f])
  BY TypedAssumption
<1>3. /\ d.bold = [f \in Fields |-> IF f \in Bolds THEN t[f] ELSE c.bold[f]]
      /\ d.plain = [f \in Fields |-> IF f \in Plains THEN t[f] ELSE c.plain[f]]
      /\ d.sections = c.sections /\ d.log = c.log /\ d.junk = c.junk
      /\ d.hand = (c.hand \/ \E f \in PlanFields : typed(f))
  BY <1>1 DEF Type, Contents, Frontmatters
<1>4. /\ d = [fm |-> d.fm, bold |-> d.bold, plain |-> d.plain, sections |-> d.sections,
               log |-> d.log, junk |-> d.junk, hand |-> d.hand]
      /\ d.fm \in Frontmatters
  <2>1. "Status" \in DOMAIN t => t["Status"] \in Statuses
    BY <1>2, TypedIs DEF Fields
  <2>2. "Progress" \in DOMAIN t => t["Progress"] \in Seq(Int)
    BY <1>2, TypedIs DEF Fields
  <2>3. PICK status, progress :
           /\ d.fm = [c.fm EXCEPT !.Status = status, !.Progress = progress]
           /\ status \in {c.fm.Status} \cup (IF "Status" \in DOMAIN t THEN {t["Status"]} ELSE {})
           /\ progress \in {c.fm.Progress} \cup (IF "Progress" \in DOMAIN t THEN {t["Progress"]} ELSE {})
    <3>1. d.fm = [c.fm EXCEPT !.Status = d.fm.Status, !.Progress = d.fm.Progress]
      BY <1>1 DEF Type, Contents, Frontmatters
    <3>2. /\ d.fm.Status = IF typed("Status") /\ c.bold["Status"] = Absent /\ c.fm.present
                          THEN t["Status"] ELSE c.fm.Status
          /\ d.fm.Progress = IF typed("Progress") /\ c.bold["Progress"] = Absent /\ c.fm.present
                            THEN t["Progress"] ELSE c.fm.Progress
      BY <1>1 DEF Type, Contents, Frontmatters
    <3>3. QED
      BY <3>1, <3>2
  <2>4. d.fm \in Frontmatters
    BY <1>1, <2>1, <2>2, <2>3 DEF Frontmatters
  <2>5. \E b, m, fm, h : d = [c EXCEPT !.bold = b, !.plain = m, !.fm = fm, !.hand = h]
    BY Zenon DEF Type
  <2>6. PICK b, m, fm, h : d = [c EXCEPT !.bold = b, !.plain = m, !.fm = fm, !.hand = h]
    BY <2>5
  <2>7. d = [fm |-> d.fm, bold |-> d.bold, plain |-> d.plain, sections |-> d.sections,
             log |-> d.log, junk |-> d.junk, hand |-> d.hand]
    <3> HIDE DEF d
    <3>1. QED
      BY <1>1, <2>6, TypedRecord
  <2>8. QED
    BY <2>4, <2>7
<1>5. d.hand \in BOOLEAN
  BY <1>1, <1>3 DEF Contents
<1> HIDE DEF d
<1>6. /\ \A f \in Plains : c.plain[f] # Absent
      /\ \A f \in Bolds : c.bold[f] # Absent
  BY DEF HasField
<1> HIDE DEF Bolds, Plains
<1>7. \A f \in Fields : /\ d.bold[f] = IF f \in Bolds THEN t[f] ELSE c.bold[f]
                        /\ d.plain[f] = IF f \in Plains THEN t[f] ELSE c.plain[f]
                        /\ f \in Bolds \/ f \in Plains => f \in DOMAIN t
  BY <1>3 DEF Bolds, Plains
<1>8. d.bold \in [Fields -> Values] /\ d.plain \in [Fields -> Values]
  <2>1. \A f \in Fields : d.bold[f] \in Values /\ d.plain[f] \in Values
    BY <1>1, <1>2, <1>7, TypedIs
  <2>2. QED
    BY <1>3, <2>1
<1>9. d \in Contents
  BY <1>1, <1>3, <1>4, <1>5, <1>8 DEF Contents
<1>10. BoldOK(d.bold)
  <2>1. d.bold["Status"] \in Statuses
    BY <1>1, <1>2, <1>7, TypedIs DEF LayoutOK, BoldOK, Fields
  <2>2. d.bold["Plan"] = Absent
    BY <1>1, <1>6, <1>7 DEF LayoutOK, BoldOK, Fields
  <2>3. \A f \in {"Progress", "Completed Phases", "Total Phases", "Paused At"} : IsNumber(d.bold[f])
    <3> TAKE f \in {"Progress", "Completed Phases", "Total Phases", "Paused At"}
    <3>1. f \in Fields /\ f \notin {"Status", "Plan"} /\ IsNumber(c.bold[f])
      BY <1>1 DEF LayoutOK, BoldOK, Fields
    <3>2. CASE f \in Bolds
      <4>1. IsNumber(t[f])
        BY <1>2, <1>7, <3>1, <3>2, TypedIs
      <4>2. d.bold[f] = t[f]
        BY <1>7, <3>1, <3>2
      <4>3. QED
        BY <4>1, <4>2
    <3>3. QED
      BY <1>7, <3>1, <3>2
  <2>4. QED
    BY <2>1, <2>2, <2>3 DEF BoldOK
<1>11. PlainOK(d.plain)
  <2>1. d.plain["Status"] \in Statuses
    BY <1>1, <1>2, <1>7, TypedIs DEF LayoutOK, PlainOK, Fields
  <2>2. IsNumber(d.plain["Progress"])
    <3>1. CASE "Progress" \in Plains
      <4>1. IsNumber(t["Progress"])
        BY <1>2, <1>7, <3>1, TypedIs DEF Fields
      <4>2. d.plain["Progress"] = t["Progress"]
        BY <1>7, <3>1 DEF Fields
      <4>3. QED
        BY <4>1, <4>2
    <3>2. QED
      BY <1>1, <1>7, <3>1 DEF LayoutOK, PlainOK, Fields
  <2>3. \A f \in {"Current Plan", "Total Plans in Phase", "Completed Phases", "Total Phases", "Paused At"} :
          d.plain[f] = Absent
    BY <1>1, <1>6, <1>7 DEF LayoutOK, PlainOK, Fields
  <2>4. QED
    BY <2>1, <2>2, <2>3 DEF PlainOK
<1>12. LayoutOK(d)
  <2>1. d.sections => d.bold["Status"] # Absent \/ d.plain["Status"] # Absent
    <3>1. "Status" \in Fields
      BY DEF Fields
    <3>2. QED
      BY <1>1, <1>2, <1>3, <1>7, <3>1, TypedIs DEF LayoutOK
  <2>2. ~d.sections => d.bold = NoFields /\ d.plain = NoFields
    <3> SUFFICES ASSUME ~c.sections PROVE d.bold = NoFields /\ d.plain = NoFields
      BY <1>3
    <3>1. c.bold = NoFields /\ c.plain = NoFields
      BY <1>1 DEF LayoutOK
    <3>2. \A f \in Fields : d.bold[f] = NoFields[f] /\ d.plain[f] = NoFields[f]
      BY <1>6, <1>7, <3>1, NoFieldsOK
    <3>3. QED
      BY <1>8, <3>2, NoFieldsOK
  <2>3. QED
    BY <1>9, <1>10, <1>11, <2>1, <2>2 DEF LayoutOK
<1> DEFINE n == c.bold["Current Plan"]
           m == c.bold["Total Plans in Phase"]
           pos == c.plain["Plan"]
<1>13. PlanOK(n, m, c.hand) /\ PositionOK(pos, n, m, c.hand)
  BY <1>1 DEF CountsOK
<1>14. CASE \E f \in PlanFields : typed(f)
  <2>1. d.hand
    BY <1>3, <1>14
  <2>2. \A f \in {"Current Plan", "Total Plans in Phase"} :
          f \in Bolds => \E i \in Nat : t[f] = <<i>>
    BY <1>2, <1>7, TypedIs DEF Fields
  <2>3. PlanOK(d.bold["Current Plan"], d.bold["Total Plans in Phase"], d.hand)
    <3>1. {"Current Plan", "Total Plans in Phase"} \subseteq Fields
      BY DEF Fields
    <3>2. CASE n = Absent /\ m = Absent
      BY <1>6, <1>7, <3>1, <3>2 DEF PlanOK
    <3>3. CASE \E i, k \in Nat : n = <<i>> /\ m = <<k>>
      <4>1. PICK i \in Nat : d.bold["Current Plan"] = <<i>>
        BY <1>7, <2>2, <3>1, <3>3
      <4>2. PICK k \in Nat : d.bold["Total Plans in Phase"] = <<k>>
        BY <1>7, <2>2, <3>1, <3>3
      <4>3. QED
        BY <2>1, <4>1, <4>2 DEF PlanOK
    <3>4. QED
      BY <1>13, <3>2, <3>3 DEF PlanOK
  <2>4. \A a, b : PositionOK(d.plain["Plan"], a, b, d.hand)
    <3>1. "Plan" \in Fields
      BY DEF Fields
    <3>2. IsNumber(d.plain["Plan"]) \/ \E i, k \in Nat : d.plain["Plan"] = <<i, k>>
      <4>1. CASE "Plan" \in Plains
        BY <1>2, <1>7, <3>1, <4>1, TypedIs
      <4>2. CASE ~"Plan" \in Plains
        BY <1>7, <1>13, <3>1, <4>2 DEF PositionOK
      <4>3. QED
        BY <4>1, <4>2
    <3>3. QED
      BY <2>1, <3>2 DEF PositionOK
  <2>5. Sane(d)
    BY <1>12, <2>3, <2>4 DEF Sane, CountsOK
  <2>6. QED
    BY <1>3, <2>5, PlainEdit DEF d
<1>15. CASE ~\E f \in PlanFields : typed(f)
  <2>1. d.hand = c.hand
    <3>1. c.hand \in BOOLEAN
      BY <1>1 DEF Contents
    <3>2. QED
      BY <1>3, <1>15, <3>1
  <2>2. \A f \in PlanFields : ~f \in Bolds /\ ~f \in Plains /\ f \in Fields
    BY <1>15 DEF Bolds, Plains, PlanFields, Fields
  <2>3. \A f \in PlanFields : d.bold[f] = c.bold[f] /\ d.plain[f] = c.plain[f]
    BY <1>7, <2>2
  <2>4. Sane(d)
    BY <1>12, <1>13, <2>1, <2>3 DEF Sane, CountsOK, PlanFields
  <2>5. QED
    BY <1>3, <2>4, PlainEdit DEF d
<1>16. QED
  BY <1>14, <1>15

LEMMA PatchIsOK ==
  ASSUME NEW c, Sane(c)
  PROVE  /\ \A e \in Patch(c) : EditOK(c, e)
         /\ \A e \in Update(c) : EditOK(c, e)
  BY TypeIsOK DEF Patch, Update

LEMMA RemoveIsOK ==
  ASSUME NEW c, Sane(c), NEW e \in PhaseRemove(c)
  PROVE  EditOK(c, e)
<1>1. CASE c.bold["Total Phases"] = Absent
  BY <1>1, PlainEdit DEF PhaseRemove
<1>2. CASE c.bold["Total Phases"] # Absent
  <2>1. PICK i \in Int : c.bold["Total Phases"] = <<i>>
    BY <1>2 DEF Sane, LayoutOK, BoldOK, IsNumber
  <2>2. c.bold["Total Phases"][1] = i
    BY ONLY <2>1, One
  <2>3. e = Edit(StateReplaceField(c, "Total Phases", <<i - 1>>))
    BY <1>2, <2>2 DEF PhaseRemove
  <2>4. FitsIn("Total Phases", <<i - 1>>) /\ "Total Phases" \in Fields
    <3>1. i - 1 \in Int /\ "Total Phases" \in Fields \ {"Status"}
      BY DEF Fields
    <3>2. QED
      BY <3>1, NumberFits
  <2>5. QED
    BY <2>3, <2>4, FieldIsOK
<1>3. QED
  BY <1>1, <1>2

LEMMA BeginIsOK ==
  ASSUME NEW c, Sane(c), NEW e \in BeginPhase(c)
  PROVE  EditOK(c, e)
<1> DEFINE w == <<"Executing">>
           d == StateReplaceField(c, "Status", w)
           a == StateReplaceField(d, "Current Plan", <<1>>)
           b(n) == IF n = 0 THEN a ELSE StateReplaceField(a, "Total Plans in Phase", <<n>>)
<1>1. PICK n \in 0 .. MaxPlans :
        e = Edit(IF ~c.sections THEN b(n)
                 ELSE [b(n) EXCEPT !.hand = @ /\ n = 0,
                                   !.plain["Plan"] = <<1, n>>,
                                   !.plain["Status"] = IF @ = Absent THEN @ ELSE w])
  BY DEF BeginPhase
<1>2. n \in Nat
  BY PlansAssumption
<1>3. /\ w \in Statuses \ {Absent} /\ FitsIn("Status", w)
      /\ FitsIn("Current Plan", <<1>>) /\ FitsIn("Total Plans in Phase", <<n>>)
      /\ {"Status", "Current Plan", "Total Plans in Phase", "Plan"} \subseteq Fields
  <2>1. {"Current Plan", "Total Plans in Phase"} \subseteq Fields \ {"Status"}
    BY DEF Fields
  <2>2. FitsIn("Current Plan", <<1>>)
    <3>1. 1 \in Int /\ "Current Plan" \in Fields \ {"Status"}
      BY DEF Fields
    <3>2. QED
      BY <3>1, NumberFits
  <2>5. FitsIn("Total Plans in Phase", <<n>>)
    <3>1. n \in Int /\ "Total Plans in Phase" \in Fields \ {"Status"}
      BY <1>2 DEF Fields
    <3>2. QED
      BY <3>1, NumberFits
  <2>3. {"Status", "Plan"} \subseteq Fields
    BY DEF Fields
  <2>4. QED
    BY <2>1, <2>2, <2>3, <2>5, Words
<1>4. LayoutOK(c) /\ CountsOK(c)
  BY DEF Sane
<1> HIDE DEF w
<1>5. Replaced(c, "Status", w, d)
  BY <1>3, <1>4, ReplaceKeeps
<1> HIDE DEF d
<1>6. Replaced(d, "Current Plan", <<1>>, a)
  <2>1. LayoutOK(d)
    BY <1>5 DEF Replaced
  <2>2. QED
    BY <1>3, <2>1, ReplaceKeeps
<1> HIDE DEF a
<1>7. PICK f : /\ f = b(n) /\ LayoutOK(f)
               /\ f.log = c.log /\ f.junk = c.junk /\ f.sections = c.sections
               /\ f.hand = c.hand
               /\ f.bold["Current Plan"] = IF c.bold["Current Plan"] # Absent THEN <<1>> ELSE Absent
               /\ f.bold["Total Plans in Phase"] =
                    IF c.bold["Total Plans in Phase"] # Absent /\ n # 0
                    THEN <<n>> ELSE c.bold["Total Plans in Phase"]
  <2>1. /\ LayoutOK(a) /\ a.log = c.log /\ a.junk = c.junk /\ a.sections = c.sections
        /\ a.hand = c.hand
        /\ a.bold["Current Plan"] = IF c.bold["Current Plan"] # Absent THEN <<1>> ELSE Absent
        /\ a.bold["Total Plans in Phase"] = c.bold["Total Plans in Phase"]
    BY <1>3, <1>5, <1>6 DEF Replaced
  <2>2. Replaced(a, "Total Plans in Phase", <<n>>, StateReplaceField(a, "Total Plans in Phase", <<n>>))
    BY <1>3, <2>1, ReplaceKeeps
  <2>3. CASE n = 0
    BY <2>1, <2>3
  <2>4. CASE n # 0
    BY <1>3, <2>1, <2>2, <2>4 DEF Replaced
  <2>5. QED
    BY <2>3, <2>4
<1> DEFINE g == [f EXCEPT !.hand = @ /\ n = 0,
                          !.plain["Plan"] = <<1, n>>,
                          !.plain["Status"] = IF @ = Absent THEN @ ELSE w]
<1>8. CASE ~c.sections
  <2>1. f.bold = NoFields /\ f.plain = NoFields
    BY <1>7, <1>8 DEF LayoutOK
  <2>2. Sane(f)
    BY <1>7, <2>1, NoFieldsOK DEF Sane, CountsOK, PlanOK, PositionOK, IsNumber, Fields
  <2>3. QED
    BY <1>1, <1>7, <1>8, <2>2, PlainEdit
<1>9. CASE c.sections
  <2>1. f \in Contents /\ f.plain \in [Fields -> Values] /\ w \in Values
    BY <1>3, <1>7 DEF LayoutOK, Contents, Values
  <2>2. <<1, n>> \in Values /\ <<1, n>> \in Seq(Int)
    BY <1>2, Texts DEF Values
  <2>3. /\ g \in Contents
        /\ g.log = f.log /\ g.junk = f.junk /\ g.sections = f.sections /\ g.bold = f.bold
        /\ g.hand = (c.hand /\ n = 0)
        /\ g.plain["Plan"] = <<1, n>>
        /\ g.plain["Status"] = IF f.plain["Status"] = Absent THEN Absent ELSE w
        /\ \A x \in Fields \ {"Status", "Plan"} : g.plain[x] = f.plain[x]
    <3> DEFINE h == [f EXCEPT !.hand = @ /\ n = 0]
               k == [h EXCEPT !.plain["Plan"] = <<1, n>>]
    <3>1. "Plan" \in Fields /\ "Status" \in Fields
      BY DEF Fields
    <3>2. /\ h \in Contents /\ h.plain = f.plain /\ h.hand = (f.hand /\ n = 0)
          /\ h.log = f.log /\ h.junk = f.junk /\ h.sections = f.sections /\ h.bold = f.bold
      BY <2>1 DEF Contents
    <3>3. g = [k EXCEPT !.plain["Status"] = IF @ = Absent THEN @ ELSE w]
      OBVIOUS
    <3> HIDE DEF h, g
    <3>4. /\ k \in Contents /\ k.plain = [f.plain EXCEPT !["Plan"] = <<1, n>>]
          /\ k.hand = h.hand /\ k.log = h.log /\ k.junk = h.junk
          /\ k.sections = h.sections /\ k.bold = h.bold
      BY <2>1, <2>2, <3>1, <3>2 DEF Contents
    <3> HIDE DEF k
    <3>5. /\ k.plain \in [Fields -> Values] /\ k.plain["Plan"] = <<1, n>>
          /\ \A x \in Fields \ {"Plan"} : k.plain[x] = f.plain[x]
      BY <2>1, <2>2, <3>1, <3>4
    <3>6. /\ g \in Contents
          /\ g.plain = [k.plain EXCEPT !["Status"] = IF @ = Absent THEN @ ELSE w]
          /\ g.hand = k.hand /\ g.log = k.log /\ g.junk = k.junk
          /\ g.sections = k.sections /\ g.bold = k.bold
      BY <2>1, <3>1, <3>3, <3>4, <3>5 DEF Contents
    <3>7. /\ g.plain["Plan"] = <<1, n>>
          /\ g.plain["Status"] = IF f.plain["Status"] = Absent THEN Absent ELSE w
          /\ \A x \in Fields \ {"Status", "Plan"} : g.plain[x] = f.plain[x]
      BY <3>1, <3>5, <3>6
    <3>8. g.hand = (c.hand /\ n = 0)
      BY <1>7, <3>2, <3>4, <3>6
    <3>9. QED
      BY <3>2, <3>4, <3>6, <3>7, <3>8
  <2>4. e = Edit(g)
    BY <1>1, <1>7, <1>9
  <2> HIDE DEF g
  <2>5. LayoutOK(g)
    <3>1. PlainOK(g.plain)
      <4>1. PlainOK(f.plain)
        BY <1>7 DEF LayoutOK
      <4>2. /\ g.plain["Progress"] = f.plain["Progress"]
            /\ g.plain["Current Plan"] = f.plain["Current Plan"]
            /\ g.plain["Total Plans in Phase"] = f.plain["Total Plans in Phase"]
            /\ g.plain["Completed Phases"] = f.plain["Completed Phases"]
            /\ g.plain["Total Phases"] = f.plain["Total Phases"]
            /\ g.plain["Paused At"] = f.plain["Paused At"]
        BY <2>3 DEF Fields
      <4>3. g.plain["Status"] \in Statuses
        BY <1>3, <2>3, Texts
      <4>4. QED
        BY <4>1, <4>2, <4>3 DEF PlainOK
    <3>2. g.bold["Status"] # Absent \/ g.plain["Status"] # Absent
      BY <1>3, <1>7, <1>9, <2>3 DEF LayoutOK
    <3>3. QED
      BY <1>7, <1>9, <2>3, <3>1, <3>2 DEF LayoutOK
  <2>6. PlanOK(g.bold["Current Plan"], g.bold["Total Plans in Phase"], g.hand)
    <3>1. CASE c.bold["Current Plan"] = Absent /\ c.bold["Total Plans in Phase"] = Absent
      BY <1>7, <2>3, <3>1 DEF PlanOK
    <3>2. CASE \E i, k \in Nat : /\ c.bold["Current Plan"] = <<i>>
                                 /\ c.bold["Total Plans in Phase"] = <<k>> /\ (c.hand \/ k > 0)
      <4>1. PICK i \in Nat, k \in Nat :
               /\ c.bold["Current Plan"] = <<i>>
               /\ c.bold["Total Plans in Phase"] = <<k>> /\ (c.hand \/ k > 0)
        BY <3>2
      <4>2. <<i>> # Absent /\ <<k>> # Absent
        BY One
      <4>3. PICK m \in Nat : (g.hand \/ m > 0) /\ m = IF n # 0 THEN n ELSE k
        <5>1. CASE n = 0
          BY <2>3, <4>1, <5>1
        <5>2. CASE n # 0
          BY <1>2, <5>2
        <5>3. QED
          BY <5>1, <5>2
      <4>4. g.bold["Current Plan"] = <<1>> /\ g.bold["Total Plans in Phase"] = <<m>>
        BY <1>7, <2>3, <4>1, <4>2, <4>3
      <4>5. PlanOK(<<1>>, <<m>>, g.hand)
        BY <4>3 DEF PlanOK
      <4>6. QED
        BY <4>4, <4>5
    <3>3. QED
      BY <1>4, <3>1, <3>2 DEF CountsOK, PlanOK
  <2>7. PositionOK(<<1, n>>, g.bold["Current Plan"], g.bold["Total Plans in Phase"], g.hand)
    <3>1. n # 0 /\ g.bold["Current Plan"] # Absent =>
             g.bold["Current Plan"] = <<1>> /\ g.bold["Total Plans in Phase"] = <<n>>
      <4> SUFFICES ASSUME n # 0, g.bold["Current Plan"] # Absent
                   PROVE  g.bold["Current Plan"] = <<1>> /\ g.bold["Total Plans in Phase"] = <<n>>
        OBVIOUS
      <4>1. c.bold["Current Plan"] # Absent /\ g.bold["Current Plan"] = <<1>>
        BY <1>7, <2>3
      <4>2. c.bold["Total Plans in Phase"] # Absent
        BY <1>4, <4>1, One DEF CountsOK, PlanOK
      <4>3. QED
        BY <1>7, <2>3, <4>1, <4>2
    <3>2. 1 \in Nat /\ (n # 0 => 1 <= n)
      BY <1>2
    <3>3. QED
      BY <1>2, <3>1, <3>2, Zenon DEF PositionOK
  <2>8. Sane(g)
    BY <2>3, <2>5, <2>6, <2>7 DEF Sane, CountsOK
  <2>9. QED
    BY <1>7, <2>3, <2>4, <2>8, PlainEdit
<1>10. QED
  BY <1>8, <1>9

LEMMA Rounded ==
  ASSUME NEW i \in Int, NEW k \in Int, k > 0
  PROVE  (200 * i + k) \div (2 * k) \in Int
<1>1. 200 * i + k \in Int /\ 2 * k \in Int /\ 2 * k > 0
  OBVIOUS
<1>2. QED
  BY <1>1

\* "phase complete" counts the phase that is done.
Counted(d) ==
  LET done == d.bold["Completed Phases"][1] + 1
      all == d.bold["Total Phases"]
      e == StateReplaceField(d, "Completed Phases", <<done>>)
  IN  IF all = Absent \/ all[1] <= 0 THEN e
      ELSE StateReplaceField(e, "Progress", <<(200 * done + all[1]) \div (2 * all[1])>>)

LEMMA CountedIsOK ==
  ASSUME NEW d, Sane(d), d.bold["Completed Phases"] # Absent
  PROVE  Sane(Counted(d)) /\ Counted(d).log = d.log /\ Counted(d).junk = d.junk
<1> DEFINE all == d.bold["Total Phases"]
<1>1. PICK i \in Int : d.bold["Completed Phases"] = <<i>>
  BY DEF Sane, LayoutOK, BoldOK, IsNumber
<1>2. d.bold["Completed Phases"][1] = i
  BY ONLY <1>1, One
<1>3. PICK done \in Int : done = d.bold["Completed Phases"][1] + 1
  <2>1. i + 1 \in Int
    BY ONLY i \in Int
  <2>2. QED
    BY <1>2, <2>1, Zenon
<1> DEFINE e == StateReplaceField(d, "Completed Phases", <<done>>)
<1>4. Sane(e) /\ Replaced(d, "Completed Phases", <<done>>, e)
  <2>1. "Completed Phases" \in Fields \ {"Status"}
    BY DEF Fields
  <2>2. FitsIn("Completed Phases", <<done>>)
    BY <2>1, NumberFits
  <2>3. QED
    BY <2>1, <2>2, ReplaceIsSane
<1>5. CASE all = Absent \/ all[1] <= 0
  BY <1>3, <1>4, <1>5 DEF Counted, Replaced
<1>6. CASE ~(all = Absent \/ all[1] <= 0)
  <2>1. PICK k \in Int : all = <<k>>
    BY <1>6 DEF Sane, LayoutOK, BoldOK, IsNumber
  <2>2. all[1] = k
    BY ONLY <2>1, One
  <2>3. ~(k <= 0)
    BY <1>6, <2>2, Zenon
  <2>4. PICK p \in Int : p = (200 * done + all[1]) \div (2 * all[1])
    <3>1. k > 0
      BY ONLY <2>3, k \in Int
    <3>2. (200 * done + k) \div (2 * k) \in Int
      BY <3>1, Rounded
    <3>3. QED
      BY <2>2, <3>2, Zenon
  <2> DEFINE f == StateReplaceField(e, "Progress", <<p>>)
  <2>5. Counted(d) = f
    BY <1>3, <1>6, <2>4 DEF Counted
  <2> HIDE DEF e
  <2>6. Sane(f) /\ Replaced(e, "Progress", <<p>>, f)
    <3>1. "Progress" \in Fields \ {"Status"}
      BY DEF Fields
    <3>2. FitsIn("Progress", <<p>>)
      BY <3>1, NumberFits
    <3>3. QED
      BY <1>4, <3>1, <3>2, ReplaceIsSane
  <2> HIDE DEF f
  <2>7. QED
    BY <1>4, <2>5, <2>6 DEF Replaced
<1>7. QED
  BY <1>5, <1>6

\* ... and the plan goes back to none.
LEMMA ZeroIsOK ==
  ASSUME NEW d, Sane(d)
  PROVE  \E f : /\ f = StateReplaceFieldWithFallback(d, "Current Plan", "Plan", <<0>>)
               /\ Sane(f) /\ f.log = d.log /\ f.junk = d.junk
               /\ f.bold["Completed Phases"] = d.bold["Completed Phases"]
<1> DEFINE n == d.bold["Current Plan"]
           t == d.bold["Total Plans in Phase"]
           pos == d.plain["Plan"]
<1>1. LayoutOK(d) /\ PlanOK(n, t, d.hand) /\ PositionOK(pos, n, t, d.hand)
  BY DEF Sane, CountsOK
<1>2. HasField(d, "Current Plan") <=> n # Absent
  BY <1>1 DEF LayoutOK, HasField, PlainOK, InFrontmatter
<1>3. {"Current Plan", "Plan", "Total Plans in Phase", "Completed Phases"} \subseteq Fields
  BY DEF Fields
<1>4. FitsIn("Current Plan", <<0>>)
  <2>1. "Current Plan" \in Fields \ {"Status"} /\ 0 \in Int
    BY DEF Fields
  <2>2. QED
    BY <2>1, NumberFits
<1>5. FitsIn("Plan", <<0>>)
  <2>1. "Plan" \in Fields \ {"Status"} /\ 0 \in Int
    BY DEF Fields
  <2>2. QED
    BY <2>1, NumberFits
<1>6. CASE n # Absent
  <2> DEFINE f == StateReplaceField(d, "Current Plan", <<0>>)
  <2>1. Replaced(d, "Current Plan", <<0>>, f)
    BY <1>1, <1>3, <1>4, ReplaceKeeps
  <2>2. f = StateReplaceFieldWithFallback(d, "Current Plan", "Plan", <<0>>)
    BY <1>2, <1>6 DEF StateReplaceFieldWithFallback
  <2> HIDE DEF f
  <2>3. /\ f.bold["Current Plan"] = <<0>> /\ f.bold["Total Plans in Phase"] = t
        /\ f.plain["Plan"] = pos /\ f.bold["Completed Phases"] = d.bold["Completed Phases"]
        /\ f.hand = d.hand
    BY <1>6, <2>1 DEF Replaced, Fields
  <2>4. PlanOK(<<0>>, t, d.hand)
    <3>1. PICK k \in Nat : t = <<k>> /\ (d.hand \/ k > 0)
      BY <1>1, <1>6 DEF PlanOK
    <3>2. 0 \in Nat /\ 0 <= k
      OBVIOUS
    <3>3. QED
      BY <3>1, <3>2, Zenon DEF PlanOK
  <2>5. PositionOK(pos, <<0>>, t, d.hand)
    BY <1>1 DEF PositionOK
  <2>6. Sane(f)
    BY <2>1, <2>3, <2>4, <2>5 DEF Sane, CountsOK, Replaced
  <2>7. QED
    BY <2>1, <2>2, <2>3, <2>6 DEF Replaced
<1>7. CASE n = Absent
  <2> DEFINE f == StateReplaceField(d, "Plan", <<0>>)
  <2>1. Replaced(d, "Plan", <<0>>, f)
    BY <1>1, <1>3, <1>5, ReplaceKeeps
  <2>2. f = StateReplaceFieldWithFallback(d, "Current Plan", "Plan", <<0>>)
    BY <1>2, <1>7 DEF StateReplaceFieldWithFallback
  <2> HIDE DEF f
  <2>3. /\ f.bold["Current Plan"] = n /\ f.bold["Total Plans in Phase"] = t
        /\ f.plain["Plan"] \in {<<0>>, Absent}
        /\ f.bold["Completed Phases"] = d.bold["Completed Phases"] /\ f.hand = d.hand
    BY <2>1 DEF Replaced, Fields
  <2>4. PositionOK(f.plain["Plan"], n, t, d.hand)
    <3>1. 0 \in Int
      OBVIOUS
    <3>2. QED
      BY <2>3, <3>1, Zenon DEF PositionOK, IsNumber
  <2>5. Sane(f)
    BY <1>1, <2>1, <2>3, <2>4 DEF Sane, CountsOK, Replaced
  <2>6. QED
    BY <2>1, <2>2, <2>3, <2>5 DEF Replaced
<1>8. QED
  BY <1>6, <1>7

LEMMA CompleteIsOK ==
  ASSUME NEW c, Sane(c), NEW e \in PhaseComplete(c)
  PROVE  EditOK(c, e)
<1> DEFINE w(last) == IF last THEN <<"Milestone complete">> ELSE <<"Ready to plan">>
           d(last) == StateReplaceField(c, "Status", w(last))
           m(last) == StateReplaceFieldWithFallback(d(last), "Current Plan", "Plan", <<0>>)
<1>1. PICK last \in BOOLEAN :
        e = Edit(IF c.bold["Completed Phases"] = Absent THEN m(last) ELSE Counted(m(last)))
  BY Zenon DEF PhaseComplete, Counted
<1>2. FitsIn("Status", w(last)) /\ "Status" \in Fields
  BY Words DEF Fields
<1>3. Sane(d(last)) /\ Replaced(c, "Status", w(last), d(last))
  <2> HIDE DEF w
  <2>1. QED
    BY <1>2, ReplaceIsSane
<1> HIDE DEF d, w
<1>4. PICK f : /\ f = m(last) /\ Sane(f) /\ f.log = d(last).log /\ f.junk = d(last).junk
               /\ f.bold["Completed Phases"] = d(last).bold["Completed Phases"]
  BY <1>3, ZeroIsOK
<1>5. /\ f.log = c.log /\ f.junk = c.junk
      /\ f.bold["Completed Phases"] = c.bold["Completed Phases"]
  BY <1>3, <1>4 DEF Replaced, Fields
<1> HIDE DEF m
<1>6. CASE c.bold["Completed Phases"] = Absent
  BY <1>1, <1>4, <1>5, <1>6, PlainEdit
<1>7. CASE c.bold["Completed Phases"] # Absent
  <2>1. Sane(Counted(f)) /\ Counted(f).log = f.log /\ Counted(f).junk = f.junk
    BY <1>4, <1>5, <1>7, CountedIsOK
  <2>2. EditOK(c, Edit(Counted(f)))
    BY <1>5, <2>1, PlainEdit
  <2>3. QED
    BY <1>1, <1>4, <1>7, <2>2
<1>8. QED
  BY <1>6, <1>7

\* Whatever command makes it, an edit of a sane text is one.
LEMMA EditsAreOK ==
  ASSUME NEW c, Sane(c), NEW op \in Ops, NEW d, d.plans \in Nat, d.sums \in Nat,
         NEW e \in EditsOf(op, c, d)
  PROVE  EditOK(c, e)
<1>1. /\ Metrics \in SUBSET Entries /\ Decisions \in SUBSET Entries
      /\ Blockers \in SUBSET Entries
  BY DEF Entries
<1>2. CASE op = "advance-plan"
  BY <1>2, AdvanceIsOK DEF EditsOf
<1>3. CASE op = "record-metric"
  BY <1>1, <1>3, AppendIsOK DEF EditsOf, RecordMetric
<1>4. CASE op = "update-progress"
  BY <1>4, ProgressIsOK DEF EditsOf
<1>5. CASE op = "add-decision"
  BY <1>1, <1>5, AppendIsOK DEF EditsOf, AddDecision
<1>6. CASE op = "add-blocker"
  BY <1>1, <1>6, AppendIsOK DEF EditsOf, AddBlocker
<1>7. CASE op = "resolve-blocker"
  BY <1>7, ResolveIsOK DEF EditsOf
<1>8. CASE op \in {"record-session", "milestone complete"}
  BY <1>8, StatusIsOK DEF EditsOf
<1>9. CASE op \in {"patch", "update"}
  BY <1>9, PatchIsOK DEF EditsOf
<1>10. CASE op = "begin-phase"
  BY <1>10, BeginIsOK DEF EditsOf
<1>11. CASE op = "phase complete"
  BY <1>11, CompleteIsOK DEF EditsOf
<1>12. CASE op = "phase remove"
  BY <1>12, RemoveIsOK DEF EditsOf
<1>13. QED
  BY <1>2, <1>3, <1>4, <1>5, <1>6, <1>7, <1>8, <1>9, <1>10, <1>11, <1>12 DEF Ops

----------------------------------------------------------------------------
(* The frontmatter.                                                          *)

\* What the fields of the body come to, and what a frontmatter tells of them.
BodyStatus(c) == IF c.bold["Status"] # Absent THEN c.bold["Status"] ELSE c.plain["Status"]
FmTells(c) == (c.sections /\ c.fm.present) =>
  /\ c.fm.Status = NormalizedStatus(IF c.bold["Status"] # Absent THEN c.bold["Status"] ELSE c.fm.Status,
                                    c.bold["Paused At"])
  /\ c.fm.plan = c.bold["Current Plan"] /\ c.fm.paused = c.bold["Paused At"]

LEMMA Normalized ==
  ASSUME NEW s \in Statuses, NEW paused
  PROVE  /\ NormalizedStatus(s, paused) \in Statuses \cup FmStatuses
         /\ NormalizedStatus(NormalizedStatus(s, paused), paused) = NormalizedStatus(s, paused)
         /\ s # Absent => NormalizedStatus(s, paused) # Absent
<1>1. \A x : <<x>> # Absent
  BY DEF Absent
<1>2. CASE paused # Absent
  <2>1. \A x : NormalizedStatus(x, paused) = <<"paused">>
    BY <1>2 DEF NormalizedStatus
  <2>2. QED
    BY <1>1, <2>1 DEF FmStatuses
<1>3. CASE paused = Absent
  <2>1. NormalizedStatus(s, paused) \in Statuses \cup FmStatuses
    BY <1>3 DEF NormalizedStatus, FmStatuses
  <2>2. NormalizedStatus(NormalizedStatus(s, paused), paused) = NormalizedStatus(s, paused)
    BY <1>3 DEF NormalizedStatus
  <2>3. s # Absent => NormalizedStatus(s, paused) # Absent
    BY <1>1, <1>3 DEF NormalizedStatus
  <2>4. QED
    BY <2>1, <2>2, <2>3
<1>4. QED
  BY <1>2, <1>3

\* What a write derives.
LEMMA FrontmatterIs ==
  ASSUME NEW c, Sane(c), NEW d
  PROVE  /\ BuildStateFrontmatter(c, d) =
              [present |-> TRUE, Status |-> NormalizedStatus(BodyStatus(c), c.bold["Paused At"]),
               Progress |-> IF c.bold["Progress"] # Absent THEN c.bold["Progress"] ELSE c.plain["Progress"],
               plan |-> c.bold["Current Plan"], paused |-> c.bold["Paused At"],
               plans |-> d.plans, sums |-> d.sums]
         /\ BodyStatus(c) \in Statuses /\ (c.sections => BodyStatus(c) # Absent)
<1>1. c \in Contents /\ BoldOK(c.bold) /\ PlainOK(c.plain) /\ LayoutOK(c)
  BY DEF Sane, LayoutOK
<1>2. c.plain["Current Plan"] = Absent /\ c.plain["Paused At"] = Absent
  BY <1>1 DEF PlainOK
<1>3. \A f \in Fields : StateExtractField([c EXCEPT !.fm = NoFm], f)
                          = IF c.bold[f] # Absent THEN c.bold[f] ELSE c.plain[f]
  BY <1>1 DEF StateExtractField, InFrontmatter, NoFm, Contents
<1>4. {"Status", "Progress", "Current Plan", "Paused At"} \subseteq Fields
  BY DEF Fields
<1>5. BodyStatus(c) \in Statuses /\ (c.sections => BodyStatus(c) # Absent)
  BY <1>1 DEF BodyStatus, BoldOK, PlainOK, LayoutOK
<1>6. QED
  BY <1>2, <1>3, <1>4, <1>5 DEF BuildStateFrontmatter, BodyStatus

LEMMA SyncIsSane ==
  ASSUME NEW c, Sane(c), NEW d, d.plans \in Int, d.sums \in Int
  PROVE  /\ Sane(SyncStateFrontmatter(c, d)) /\ FmTells(SyncStateFrontmatter(c, d))
         /\ SyncStateFrontmatter(c, d).log = c.log /\ SyncStateFrontmatter(c, d).junk = c.junk
<1>1. c \in Contents /\ BoldOK(c.bold) /\ PlainOK(c.plain)
  BY DEF Sane, LayoutOK
<1>2. PICK s, z : s = BodyStatus(c) /\ z = c.bold["Paused At"]
  OBVIOUS
<1>3. s \in Statuses /\ (c.sections => s # Absent)
  BY <1>2, FrontmatterIs
<1>4. PICK new : new = BuildStateFrontmatter(c, d)
  OBVIOUS
<1>5. /\ new \in Frontmatters /\ new.present /\ new.Status = NormalizedStatus(s, z)
      /\ new.plan = c.bold["Current Plan"] /\ new.paused = z
  <2>1. PICK x : x = IF c.bold["Progress"] # Absent THEN c.bold["Progress"] ELSE c.plain["Progress"]
    OBVIOUS
  <2>2. x \in Seq(Int) /\ z \in Seq(Int)
    BY <1>1, <1>2, <2>1, NumberIsSeq DEF BoldOK, PlainOK
  <2>3. c.bold["Current Plan"] \in Seq(Int)
    BY PlanIsSeq DEF Sane, CountsOK
  <2>4. new = [present |-> TRUE, Status |-> NormalizedStatus(s, z), Progress |-> x,
               plan |-> c.bold["Current Plan"], paused |-> z, plans |-> d.plans, sums |-> d.sums]
    BY <1>2, <1>4, <2>1, FrontmatterIs
  <2>5. NormalizedStatus(s, z) \in Statuses \cup FmStatuses
    BY <1>3, Normalized
  <2>6. QED
    BY <2>2, <2>3, <2>4, <2>5 DEF Frontmatters
<1>6. PICK fm \in Frontmatters :
        /\ fm = IF new.Status = Absent THEN [new EXCEPT !.Status = c.fm.Status] ELSE new
        /\ fm.plan = new.plan /\ fm.paused = new.paused
  <2>1. new.Status # Absent => new \in Frontmatters
    BY <1>5
  <2>2. /\ [new EXCEPT !.Status = c.fm.Status] \in Frontmatters
        /\ [new EXCEPT !.Status = c.fm.Status].plan = new.plan
        /\ [new EXCEPT !.Status = c.fm.Status].paused = new.paused
    BY <1>1, <1>5 DEF Frontmatters, Contents
  <2>3. QED
    BY <2>1, <2>2
<1>7. SyncStateFrontmatter(c, d) = [c EXCEPT !.fm = fm]
  BY <1>4, <1>6 DEF SyncStateFrontmatter
<1>8. PICK e : e = [c EXCEPT !.fm = fm]
  OBVIOUS
<1>9. /\ e \in Contents /\ e.fm = fm /\ e.bold = c.bold /\ e.plain = c.plain
      /\ e.sections = c.sections /\ e.log = c.log /\ e.junk = c.junk /\ e.hand = c.hand
  BY <1>1, <1>6, <1>8 DEF Contents
<1>10. Sane(e)
  BY <1>9 DEF Sane, LayoutOK, CountsOK
<1>11. FmTells(e)
  <2> SUFFICES ASSUME c.sections
               PROVE  fm.Status = NormalizedStatus(IF c.bold["Status"] # Absent
                                                   THEN c.bold["Status"] ELSE fm.Status, z)
    BY <1>2, <1>5, <1>6, <1>9 DEF FmTells
  <2>1. fm.Status = NormalizedStatus(s, z)
    BY <1>3, <1>5, <1>6, Normalized
  <2>2. QED
    BY <1>2, <1>3, <2>1, Normalized DEF BodyStatus
<1>12. QED
  BY <1>7, <1>8, <1>9, <1>10, <1>11

\* The two readers of a text whose frontmatter tells.
LEMMA ReadersOf ==
  ASSUME NEW c, Sane(c), FmTells(c), c.sections, NEW d
  PROVE  /\ StateJson(c, d).Status = NormalizedStatus(StateSnapshot(c).status, StateSnapshot(c).paused)
         /\ StateJson(c, d).plan = StateSnapshot(c).plan
         /\ StateJson(c, d).paused = StateSnapshot(c).paused
<1>1. /\ StateSnapshot(c).status = StateExtractField(c, "Status")
      /\ StateSnapshot(c).plan = StateExtractField(c, "Current Plan")
      /\ StateSnapshot(c).paused = StateExtractField(c, "Paused At")
  BY DEF StateSnapshot
<1>2. /\ StateExtractField(c, "Current Plan") = c.bold["Current Plan"]
      /\ StateExtractField(c, "Paused At") = c.bold["Paused At"]
  BY DEF StateExtractField, InFrontmatter, Sane, LayoutOK, PlainOK
<1>3. CASE c.fm.present
  BY <1>1, <1>2, <1>3 DEF StateJson, StateExtractField, InFrontmatter, FmTells
<1>4. CASE ~c.fm.present
  <2>1. PICK b : b = BuildStateFrontmatter(c, d)
    OBVIOUS
  <2>2. /\ b.Status = NormalizedStatus(BodyStatus(c), c.bold["Paused At"])
        /\ b.plan = c.bold["Current Plan"] /\ b.paused = c.bold["Paused At"]
    <3>1. PICK x : x = IF c.bold["Progress"] # Absent THEN c.bold["Progress"] ELSE c.plain["Progress"]
      OBVIOUS
    <3>2. b = [present |-> TRUE, Status |-> NormalizedStatus(BodyStatus(c), c.bold["Paused At"]),
               Progress |-> x, plan |-> c.bold["Current Plan"], paused |-> c.bold["Paused At"],
               plans |-> d.plans, sums |-> d.sums]
      BY <2>1, <3>1, FrontmatterIs
    <3>3. QED
      BY <3>2
  <2>3. StateJson(c, d) = b
    BY <1>4, <2>1 DEF StateJson
  <2>4. StateExtractField(c, "Status") = BodyStatus(c)
    BY <1>4 DEF StateExtractField, InFrontmatter, BodyStatus
  <2>5. QED
    BY <1>1, <1>2, <2>2, <2>3, <2>4
<1>5. QED
  BY <1>3, <1>4

----------------------------------------------------------------------------
(* The lock.                                                                 *)

ProcFields == {"pc", "edit", "out", "prev", "tries"}

\* What the fields of the processes and the lock are.
Shape == /\ DOMAIN proc = Procs
         /\ \A p \in Procs : /\ DOMAIN proc[p] = ProcFields
                             /\ proc[p].pc \in Pcs
         /\ lock \in [owner : SUBSET Procs, old : BOOLEAN]
         /\ disk \in Disks
         /\ forced \in BOOLEAN

\* Who is in the section made the lock that is there.
Owned == ~forced => \A p \in Procs : proc[p].pc \in Section => lock.owner = {p}

LockInv == Shape /\ Owned

USE DEF IdleProc, Free

LEMMA InitLock == Init => LockInv
<1> SUFFICES ASSUME Init PROVE LockInv
    OBVIOUS
<1> USE DEF Init
<1>1. \A p \in Procs : proc[p] = IdleProc
    OBVIOUS
<1>2. disk \in Disks
    BY PlansAssumption, FileAssumption DEF Disks
<1>3. Shape
    BY <1>1, <1>2 DEF Shape, ProcFields, Pcs
<1>4. Owned
    BY <1>1 DEF Owned, Section
<1>5. QED
    BY <1>3, <1>4 DEF LockInv

\* A process that only moves to another place keeps the shape.
LEMMA ShapeStep == LockInv /\ [Next]_vars => Shape'
<1> SUFFICES ASSUME LockInv, [Next]_vars PROVE Shape'
    OBVIOUS
<1> USE DEF LockInv, Shape, ProcFields, Pcs, Section
<1>1. ASSUME NEW p \in Procs, Read(p) PROVE Shape'
    BY <1>1 DEF Read
<1>2. ASSUME NEW p \in Procs, Sync(p) PROVE Shape'
    BY <1>2 DEF Sync
<1>3. ASSUME NEW p \in Procs, Acquire(p) PROVE Shape'
    BY <1>3 DEF Acquire, To
<1>4. ASSUME NEW p \in Procs, Contend(p) PROVE Shape'
    BY <1>4 DEF Contend, To, Retry
<1>5. ASSUME NEW p \in Procs, Reap(p) PROVE Shape'
    BY <1>5, ZenonT(60) DEF Reap, To, Retry, Live
<1>6. ASSUME NEW p \in Procs, Steal(p) PROVE Shape'
    BY <1>6 DEF Steal, To
<1>7. ASSUME NEW p \in Procs, Truncate(p) PROVE Shape'
    BY <1>7 DEF Truncate
<1>8. ASSUME NEW p \in Procs, Fill(p) PROVE Shape'
    BY <1>8 DEF Fill
<1>9. ASSUME NEW p \in Procs, Release(p) PROVE Shape'
    BY <1>9 DEF Release
<1>10. ASSUME NEW p \in Procs, Crash(p) PROVE Shape'
    BY <1>10 DEF Crash
<1>11. ASSUME NEW p \in Procs, OpenError(p) PROVE Shape'
    BY <1>11 DEF OpenError, To
<1>12. CASE WriteSummary
    BY <1>12, PlansAssumption, FileAssumption DEF WriteSummary, Disks
<1>13. CASE Age
    BY <1>13 DEF Age
<1>14. CASE UNCHANGED vars
    BY <1>14 DEF vars
<1>15. QED
    BY <1>1, <1>2, <1>3, <1>4, <1>5, <1>6, <1>7, <1>8, <1>9, <1>10, <1>11, <1>12, <1>13, <1>14
    DEF Next, Run

\* The section has one owner after every step, unless the step forced the lock.
LEMMA OwnedStep == LockInv /\ [Next]_vars => Owned'
<1> SUFFICES ASSUME LockInv, [Next]_vars PROVE Owned'
    OBVIOUS
<1> USE DEF LockInv, Shape, ProcFields, Owned, Section
<1>1. ASSUME NEW p \in Procs, Read(p) PROVE Owned'
    BY <1>1 DEF Read
<1>2. ASSUME NEW p \in Procs, Sync(p) PROVE Owned'
    BY <1>2 DEF Sync
<1>3. ASSUME NEW p \in Procs, Acquire(p) PROVE Owned'
    BY <1>3 DEF Acquire, To
<1>4. ASSUME NEW p \in Procs, Contend(p) PROVE Owned'
    BY <1>4 DEF Contend, To, Retry
<1>5. ASSUME NEW p \in Procs, Reap(p) PROVE Owned'
    <2>1. CASE forced'
        BY <2>1
    <2>2. CASE ~forced'
        <3>1. ~forced /\ ~Live
            <4>1. lock = Free => ~Live
                BY DEF Live
            <4>2. \/ forced' = (forced \/ Live)
                  \/ lock = Free /\ forced' = forced
                BY <1>5, <2>2 DEF Reap
            <4>3. QED
                BY <2>2, <4>1, <4>2
        <3>2. \A q \in Procs : proc[q].pc \notin Section
            BY <3>1 DEF Live
        <3>3. \A q \in Procs : proc'[q].pc \notin Section
            BY <1>5, <2>2, <3>2 DEF Reap, To, Retry
        <3>4. QED
            BY <3>3
    <2>3. QED
        BY <2>1, <2>2
<1>6. ASSUME NEW p \in Procs, Steal(p) PROVE Owned'
    BY <1>6 DEF Steal, To
<1>7. ASSUME NEW p \in Procs, Truncate(p) PROVE Owned'
    BY <1>7 DEF Truncate
<1>8. ASSUME NEW p \in Procs, Fill(p) PROVE Owned'
    BY <1>8 DEF Fill
<1>9. ASSUME NEW p \in Procs, Release(p) PROVE Owned'
    BY <1>9 DEF Release
<1>10. ASSUME NEW p \in Procs, Crash(p) PROVE Owned'
    BY <1>10 DEF Crash
<1>11. ASSUME NEW p \in Procs, OpenError(p) PROVE Owned'
    BY <1>11 DEF OpenError, To
<1>12. CASE WriteSummary
    BY <1>12 DEF WriteSummary
<1>13. CASE Age
    BY <1>13 DEF Age
<1>14. CASE UNCHANGED vars
    BY <1>14 DEF vars
<1>15. QED
    BY <1>1, <1>2, <1>3, <1>4, <1>5, <1>6, <1>7, <1>8, <1>9, <1>10, <1>11, <1>12, <1>13, <1>14
    DEF Next, Run

LEMMA LockInvariant == Spec => []LockInv
<1>1. LockInv /\ [Next]_vars => LockInv'
    BY ShapeStep, OwnedStep DEF LockInv
<1>2. QED
    BY InitLock, <1>1, PTL DEF Spec

\* However many processes write STATE.md, and whatever crashes, one at a time
\* is in the section of writeStateMd until a lock is forced.
THEOREM LockExcludes == Spec => []Exclusion
<1>1. LockInv => Exclusion
    BY DEF LockInv, Owned, Exclusion
<1>2. QED
    BY LockInvariant, <1>1, PTL

----------------------------------------------------------------------------
(* The refinement.                                                           *)

\* What a process is about to write is its edit, with a frontmatter.
Synced == {"lock", "reap", "steal", "truncate", "fill"}
Saved == \A p \in Procs : proc[p].pc \in Synced => proc[p].out \in AnySave(proc[p].edit.c)
\* Between the two halves of a write the file is empty.
Emptied == ~forced => \A p \in Filling : file = Blank

StoreInv == LockInv /\ Saved /\ Emptied

LEMMA InitStoreInv == Init => StoreInv
<1> SUFFICES ASSUME Init PROVE StoreInv
    OBVIOUS
<1>1. \A p \in Procs : proc[p].pc = "idle"
    BY DEF Init
<1>2. Saved /\ Emptied
    BY <1>1 DEF Saved, Synced, Emptied, Filling
<1>3. QED
    BY InitLock, <1>2 DEF StoreInv

LEMMA SavedStep == LockInv /\ Saved /\ [Next]_vars => Saved'
<1> SUFFICES ASSUME LockInv, Saved, [Next]_vars PROVE Saved'
    OBVIOUS
<1> USE DEF LockInv, Shape, ProcFields, Saved, Synced
<1>1. ASSUME NEW p \in Procs, Read(p) PROVE Saved'
    BY <1>1 DEF Read
<1>2. ASSUME NEW p \in Procs, Sync(p) PROVE Saved'
    BY <1>2 DEF Sync, AnySave
<1>3. ASSUME NEW p \in Procs, Acquire(p) PROVE Saved'
    BY <1>3 DEF Acquire, To
<1>4. ASSUME NEW p \in Procs, Contend(p) PROVE Saved'
    BY <1>4 DEF Contend, To, Retry
<1>5. ASSUME NEW p \in Procs, Reap(p) PROVE Saved'
    BY <1>5 DEF Reap, To, Retry
<1>6. ASSUME NEW p \in Procs, Steal(p) PROVE Saved'
    BY <1>6 DEF Steal, To
<1>7. ASSUME NEW p \in Procs, Truncate(p) PROVE Saved'
    BY <1>7 DEF Truncate
<1>8. ASSUME NEW p \in Procs, Fill(p) PROVE Saved'
    BY <1>8 DEF Fill
<1>9. ASSUME NEW p \in Procs, Release(p) PROVE Saved'
    BY <1>9 DEF Release
<1>10. ASSUME NEW p \in Procs, Crash(p) PROVE Saved'
    BY <1>10 DEF Crash
<1>11. ASSUME NEW p \in Procs, OpenError(p) PROVE Saved'
    BY <1>11 DEF OpenError, To
<1>12. CASE WriteSummary
    BY <1>12 DEF WriteSummary
<1>13. CASE Age
    BY <1>13 DEF Age
<1>14. CASE UNCHANGED vars
    BY <1>14 DEF vars
<1>15. QED
    BY <1>1, <1>2, <1>3, <1>4, <1>5, <1>6, <1>7, <1>8, <1>9, <1>10, <1>11, <1>12, <1>13, <1>14
    DEF Next, Run

LEMMA EmptiedStep == LockInv /\ Emptied /\ [Next]_vars => Emptied'
<1> SUFFICES ASSUME LockInv, Emptied, [Next]_vars PROVE Emptied'
    OBVIOUS
<1> USE DEF LockInv, Shape, ProcFields, Owned, Section, Emptied, Filling
<1>1. ASSUME NEW p \in Procs, Read(p) PROVE Emptied'
    BY <1>1 DEF Read
<1>2. ASSUME NEW p \in Procs, Sync(p) PROVE Emptied'
    BY <1>2 DEF Sync
<1>3. ASSUME NEW p \in Procs, Acquire(p) PROVE Emptied'
    BY <1>3 DEF Acquire, To
<1>4. ASSUME NEW p \in Procs, Contend(p) PROVE Emptied'
    BY <1>4 DEF Contend, To, Retry
<1>5. ASSUME NEW p \in Procs, Reap(p) PROVE Emptied'
    <2>1. forced => forced'
        BY <1>5 DEF Reap
    <2>2. file' = file /\ \A q \in Procs : proc'[q].pc = "fill" => proc[q].pc = "fill"
        BY <1>5 DEF Reap, To, Retry
    <2>3. QED
        BY <2>1, <2>2
<1>6. ASSUME NEW p \in Procs, Steal(p) PROVE Emptied'
    BY <1>6 DEF Steal, To
<1>7. ASSUME NEW p \in Procs, Truncate(p) PROVE Emptied'
    BY <1>7 DEF Truncate
<1>8. ASSUME NEW p \in Procs, Fill(p) PROVE Emptied'
    BY <1>8 DEF Fill
<1>9. ASSUME NEW p \in Procs, Release(p) PROVE Emptied'
    BY <1>9 DEF Release
<1>10. ASSUME NEW p \in Procs, Crash(p) PROVE Emptied'
    BY <1>10 DEF Crash
<1>11. ASSUME NEW p \in Procs, OpenError(p) PROVE Emptied'
    BY <1>11 DEF OpenError, To
<1>12. CASE WriteSummary
    BY <1>12 DEF WriteSummary
<1>13. CASE Age
    BY <1>13 DEF Age
<1>14. CASE UNCHANGED vars
    BY <1>14 DEF vars
<1>15. QED
    BY <1>1, <1>2, <1>3, <1>4, <1>5, <1>6, <1>7, <1>8, <1>9, <1>10, <1>11, <1>12, <1>13, <1>14
    DEF Next, Run

\* A step that leaves the pending edits, the filling processes and the last
\* version alone is a stutter of the store.
LEMMA Stutter ==
    ASSUME Filling' = Filling, file' = file, forced' = forced,
           \A q \in Procs : /\ proc'[q].prev = proc[q].prev
                            /\ proc'[q].pc = "idle" <=> proc[q].pc = "idle"
                            /\ proc'[q].edit = proc[q].edit
    PROVE  UNCHANGED Store!vars
<1>1. Pending' = Pending
    BY DEF Pending
<1>2. Current' = Current
    BY DEF Current, Filling
<1>3. QED
    BY <1>1, <1>2 DEF Store!vars

\* Nobody else fills while a process is in the section.
LEMMA FillsAlone ==
    ASSUME LockInv, ~forced, NEW p \in Procs, proc[p].pc \in Section
    PROVE  Filling = IF proc[p].pc = "fill" THEN {p} ELSE {}
  BY DEF LockInv, Owned, Section, Filling

\* What a reader meets is the last version, or the blank of a write.
LEMMA ReaderMeets == StoreInv /\ ~forced => file \in {Current, Blank}
  BY DEF StoreInv, Emptied, Current, Filling

LEMMA StoreStep == StoreInv /\ [Next]_vars => [Store!Next]_(Store!vars)
<1> SUFFICES ASSUME StoreInv, [Next]_vars PROVE Store!Next \/ UNCHANGED Store!vars
    OBVIOUS
<1> USE DEF StoreInv, LockInv, Shape, ProcFields, Filling
<1>f. CASE forced'
    <2>1. (~forced)' = FALSE
        BY <1>f
    <2>2. QED
        BY <2>1 DEF Store!Next, Store!Forced
<1>g. CASE ~forced'
    <2> USE <1>g
    <2>1. ASSUME NEW p \in Procs, Read(p) PROVE Store!Begin(p)
        <3>1. ~forced /\ Filling' = Filling /\ file' = file
            BY <2>1 DEF Read
        <3>2. PICK op \in Ops : \E e \in EditsOf(op, file, disk) :
                  proc' = [proc EXCEPT ![p] = [IdleProc EXCEPT !.pc = "sync", !.edit = e]]
            BY <2>1, FileAssumption DEF Read
        <3>3. PICK e \in EditsOf(op, file, disk) :
                  proc' = [proc EXCEPT ![p] = [IdleProc EXCEPT !.pc = "sync", !.edit = e]]
            BY <3>2
        <3>4. e \in Edits(file, disk)
            BY <3>3 DEF Edits
        <3>5. e.c \in AnyEdit(file)
            BY <3>4 DEF AnyEdit
        <3>6. Pending' = [Pending EXCEPT ![p] = {e.c}] /\ Pending[p] = {} /\ Pending'[p] # {}
            BY <2>1, <3>3 DEF Pending, Read
        <3>7. Current' = Current
            <4>1. \A q \in Filling : proc'[q].prev = proc[q].prev
                BY <2>1, <3>3 DEF Read
            <4>2. QED
                BY <3>1, <4>1 DEF Current
        <3>8. (~forced)' = ~forced
            BY <2>1 DEF Read
        <3>9. QED
            BY <3>1, <3>5, <3>6, <3>7, <3>8, ReaderMeets DEF Store!Begin
    <2>2. ASSUME NEW p \in Procs, Sync(p) PROVE UNCHANGED Store!vars
        BY <2>2, Stutter DEF Sync
    <2>3. ASSUME NEW p \in Procs, Acquire(p) PROVE UNCHANGED Store!vars
        BY <2>3, Stutter DEF Acquire, To
    <2>4. ASSUME NEW p \in Procs, Contend(p) PROVE UNCHANGED Store!vars
        BY <2>4, Stutter DEF Contend, To, Retry
    <2>5. ASSUME NEW p \in Procs, Reap(p) PROVE UNCHANGED Store!vars
        <3>1. forced' = forced
            BY <2>5 DEF Reap
        <3>2. QED
            BY <2>5, <3>1, Stutter DEF Reap, To, Retry
    <2>6. ASSUME NEW p \in Procs, Steal(p) PROVE FALSE
        BY <2>6 DEF Steal
    <2>7. ASSUME NEW p \in Procs, Truncate(p) PROVE UNCHANGED Store!vars
        <3>1. ~forced /\ Filling = {} /\ Filling' = {p} /\ proc'[p].prev = file
            BY <2>7, FillsAlone DEF Truncate, Section
        <3>2. Current' = Current
            BY <3>1 DEF Current
        <3>3. Pending' = Pending /\ (~forced)' = ~forced
            BY <2>7 DEF Truncate, Pending
        <3>4. QED
            BY <3>2, <3>3 DEF Store!vars
    <2>8. ASSUME NEW p \in Procs, Fill(p) PROVE Store!Commit(p)
        <3>1. ~forced /\ Filling = {p} /\ Filling' = {}
            BY <2>8, FillsAlone DEF Fill, Section
        <3>2. file = Blank /\ file' = proc[p].out
            BY <2>8, <3>1 DEF Fill, Emptied
        <3>3. Current' \in AnySave(proc[p].edit.c)
            BY <2>8, <3>1, <3>2 DEF Current, Fill, Saved, Synced
        <3>4. Pending[p] = {proc[p].edit.c} /\ Pending' = Pending /\ (~forced)' = ~forced
            BY <2>8 DEF Fill, Pending
        <3>5. QED
            BY <3>3, <3>4 DEF Store!Commit
    <2>9. ASSUME NEW p \in Procs, Release(p) PROVE Store!Finish(p)
        <3>1. ~forced /\ Filling = {} /\ Filling' = {} /\ file' = file
            BY <2>9, FillsAlone DEF Release, Section
        <3>2. Current' = Current
            BY <3>1 DEF Current
        <3>3. Pending' = [Pending EXCEPT ![p] = {}] /\ (~forced)' = ~forced
            BY <2>9 DEF Release, Pending
        <3>4. QED
            BY <3>2, <3>3 DEF Store!Finish
    <2>10. ASSUME NEW p \in Procs, Crash(p) PROVE Store!Finish(p) \/ Store!Die(p)
        <3>1. ~forced /\ file' = file /\ (~forced)' = ~forced
            BY <2>10 DEF Crash
        <3>2. Pending' = [Pending EXCEPT ![p] = {}] /\ Pending[p] # {}
            BY <2>10 DEF Crash, Pending
        <3>3. CASE proc[p].pc = "fill"
            <4>1. Filling = {p} /\ Filling' = {}
                BY <2>10, <3>1, <3>3, FillsAlone DEF Crash, Section
            <4>2. Current' = Blank
                BY <3>1, <4>1 DEF Current, Emptied
            <4>3. QED
                BY <3>1, <3>2, <4>2 DEF Store!Die
        <3>4. CASE proc[p].pc # "fill"
            <4>1. Filling' = Filling /\ \A q \in Filling : proc'[q].prev = proc[q].prev
                BY <2>10, <3>4 DEF Crash
            <4>2. Current' = Current
                BY <3>1, <4>1 DEF Current
            <4>3. QED
                BY <3>1, <3>2, <4>2 DEF Store!Finish
        <3>5. QED
            BY <3>3, <3>4
    <2>11. ASSUME NEW p \in Procs, OpenError(p) PROVE FALSE
        BY <2>11 DEF OpenError
    <2>12. CASE WriteSummary
        BY <2>12, Stutter DEF WriteSummary
    <2>13. CASE Age
        BY <2>13, Stutter DEF Age
    <2>14. CASE UNCHANGED vars
        BY <2>14, Stutter DEF vars
    <2>15. QED
        BY <2>1, <2>2, <2>3, <2>4, <2>5, <2>6, <2>7, <2>8, <2>9, <2>10, <2>11, <2>12, <2>13, <2>14
        DEF Next, Run, Store!Next
<1>h. QED
    BY <1>f, <1>g

\* Until a lock is forced STATE.md is a store of whole versions, each made by
\* one command from a version or a blank it read: the lock makes writes atomic,
\* for any number of processes, crashes and stalls included.
THEOREM StateFileRefines == Spec => AtomicStore
<1>1. Init => Store!Init
    <2> SUFFICES ASSUME Init PROVE Store!Init
        OBVIOUS
    <2>1. \A p \in Procs : proc[p].pc = "idle"
        BY DEF Init
    <2>2. Filling = {}
        BY <2>1 DEF Filling
    <2>3. Pending = [p \in Procs |-> {}]
        BY <2>1 DEF Pending
    <2>4. Current = file /\ (~forced) = TRUE
        BY <2>2 DEF Current, Init
    <2>5. QED
        BY <2>3, <2>4 DEF Store!Init, Init
<1>2. StoreInv /\ [Next]_vars => StoreInv'
    BY ShapeStep, OwnedStep, SavedStep, EmptiedStep DEF StoreInv, LockInv
<1>3. QED
    BY InitStoreInv, StoreStep, <1>1, <1>2, PTL DEF Spec, AtomicStore, Store!Spec

----------------------------------------------------------------------------
(* What the file and the processes hold.                                     *)

TextOK(c) == Sane(c) /\ FmTells(c)

\* Every text of a process is sane, and so is the file; the counters are bounded.
ProcTexts == \A p \in Procs : /\ Sane(proc[p].edit.c) /\ TextOK(proc[p].out)
                              /\ proc[p].edit.adds \subseteq Entries
                              /\ proc[p].tries \in 0 .. MaxTries - 1
Counts == /\ runs \in 0 .. MaxRuns /\ faults \in 0 .. MaxFaults
          /\ acked \subseteq Entries /\ beside \in BOOLEAN
Texted == TextOK(file) /\ ProcTexts /\ Counts
TextInv == LockInv /\ Texted

LEMMA BlankIsText == TextOK(Blank)
  BY BlankIsSane, BlankOK DEF TextOK, FmTells

LEMMA InitText == Init => TextInv
<1> SUFFICES ASSUME Init PROVE Texted
  BY InitLock DEF TextInv
<1> USE DEF Init
<1>1. TextOK(file)
  <2>1. Sane(file)
    BY InitialIsSane
  <2>2. ~file.fm.present
    <3>1. ~Blank.fm.present
      BY DEF Blank, NoFm
    <3>2. file.fm = Blank.fm
      BY BlankOK DEF InitialContents, PlainContent, PausedContent, BoldContent, Contents
    <3>3. QED
      BY <3>1, <3>2
  <2>3. QED
    BY <2>1, <2>2 DEF TextOK, FmTells
<1>2. \A p \in Procs : /\ proc[p].edit.c = Blank /\ proc[p].out = Blank /\ proc[p].tries = 0
                       /\ proc[p].edit.adds = {}
  BY DEF NoEdit, Edit
<1>3. 0 \in 0 .. MaxTries - 1
  BY FileAssumption
<1>4. ProcTexts
  BY <1>2, <1>3, BlankIsText, BlankIsSane DEF ProcTexts
<1>5. Counts
  BY FileAssumption DEF Counts
<1>6. QED
  BY <1>1, <1>4, <1>5 DEF Texted

\* What a command makes of the text it reads.
LEMMA ReadIsOK ==
  ASSUME TextInv, NEW p \in Procs, Read(p)
  PROVE  \E e : /\ proc' = [proc EXCEPT ![p] = [IdleProc EXCEPT !.pc = "sync", !.edit = e]]
               /\ EditOK(file, e)
<1>1. PICK op \in Ops : \E e \in EditsOf(op, file, disk) :
         proc' = [proc EXCEPT ![p] = [IdleProc EXCEPT !.pc = "sync", !.edit = e]]
  BY FileAssumption DEF Read
<1>2. PICK e \in EditsOf(op, file, disk) :
         proc' = [proc EXCEPT ![p] = [IdleProc EXCEPT !.pc = "sync", !.edit = e]]
  BY <1>1
<1>3. disk.plans \in Nat /\ disk.sums \in Nat
  BY PlansAssumption, FileAssumption DEF TextInv, LockInv, Shape, Disks
<1>4. EditOK(file, e)
  BY <1>3, EditsAreOK DEF TextInv, Texted, TextOK
<1>5. QED
  BY <1>2, <1>4

\* ... and what it will write.
LEMMA SyncIsOK ==
  ASSUME TextInv, NEW p \in Procs
  PROVE  /\ TextOK(SyncStateFrontmatter(proc[p].edit.c, disk))
         /\ SyncStateFrontmatter(proc[p].edit.c, disk).log = proc[p].edit.c.log
         /\ SyncStateFrontmatter(proc[p].edit.c, disk).junk = proc[p].edit.c.junk
<1>1. disk.plans \in Int /\ disk.sums \in Int
  BY PlansAssumption, FileAssumption DEF TextInv, LockInv, Shape, Disks
<1>2. Sane(proc[p].edit.c)
  BY DEF TextInv, Texted, ProcTexts
<1>3. QED
  BY <1>1, <1>2, SyncIsSane DEF TextOK

\* The end of a longer text changes nothing else.
LEMMA JunkKeeps ==
  ASSUME NEW c, TextOK(c)
  PROVE  /\ TextOK([c EXCEPT !.junk = TRUE])
         /\ [c EXCEPT !.junk = TRUE].log = c.log
  BY DEF TextOK, FmTells, Sane, LayoutOK, CountsOK, Contents

LEMMA TextStep == TextInv /\ [Next]_vars => TextInv'
<1> SUFFICES ASSUME TextInv, [Next]_vars PROVE Texted'
  BY ShapeStep, OwnedStep DEF TextInv, LockInv
<1> USE DEF TextInv, Texted, LockInv, Shape, ProcFields
<1>1. ASSUME NEW p \in Procs, Read(p) PROVE Texted'
  <2>1. PICK e : /\ proc' = [proc EXCEPT ![p] = [IdleProc EXCEPT !.pc = "sync", !.edit = e]]
                 /\ EditOK(file, e)
    BY <1>1, ReadIsOK
  <2>2. proc'[p] = [pc |-> "sync", edit |-> e, out |-> Blank, prev |-> Blank, tries |-> 0]
    BY <2>1
  <2>3. 0 \in 0 .. MaxTries - 1
    BY FileAssumption
  <2>4. ProcTexts'
    BY <2>1, <2>2, <2>3, BlankIsText DEF ProcTexts, EditOK
  <2>5. Counts'
    BY <1>1, FileAssumption DEF Counts, Read
  <2>6. QED
    BY <1>1, <2>4, <2>5 DEF Read
<1>2. ASSUME NEW p \in Procs, Sync(p) PROVE Texted'
  <2>1. PICK o : /\ o = SyncStateFrontmatter(proc[p].edit.c, disk) /\ TextOK(o)
    BY SyncIsOK
  <2>2. ProcTexts'
    BY <1>2, <2>1 DEF ProcTexts, Sync
  <2>3. QED
    BY <1>2, <2>2 DEF Sync, Counts
<1>3. ASSUME NEW p \in Procs, Acquire(p) PROVE Texted'
  <2>1. ProcTexts'
    BY <1>3 DEF ProcTexts, Acquire, To
  <2>2. QED
    BY <1>3, <2>1 DEF Acquire, Counts
<1>4. ASSUME NEW p \in Procs, Contend(p) PROVE Texted'
  <2>1. ProcTexts'
    BY <1>4, FileAssumption DEF ProcTexts, Contend, To, Retry, LastTry
  <2>2. QED
    BY <1>4, <2>1 DEF Contend, Counts
<1>5. ASSUME NEW p \in Procs, Reap(p) PROVE Texted'
  <2>1. ProcTexts'
    BY <1>5, FileAssumption DEF ProcTexts, Reap, To, Retry, LastTry
  <2>2. QED
    BY <1>5, <2>1 DEF Reap, Counts
<1>6. ASSUME NEW p \in Procs, Steal(p) PROVE Texted'
  <2>1. ProcTexts'
    BY <1>6 DEF ProcTexts, Steal, To
  <2>2. QED
    BY <1>6, <2>1 DEF Steal, Counts
<1>7. ASSUME NEW p \in Procs, Truncate(p) PROVE Texted'
  <2>1. ProcTexts'
    BY <1>7 DEF ProcTexts, Truncate
  <2>2. QED
    BY <1>7, <2>1, BlankIsText DEF Truncate, Counts
<1>8. ASSUME NEW p \in Procs, Fill(p) PROVE Texted'
  <2>1. ProcTexts'
    BY <1>8, BlankIsText DEF ProcTexts, Fill
  <2>2. TextOK(file')
    <3>1. TextOK(proc[p].out)
      BY DEF ProcTexts
    <3>2. file' \in {proc[p].out, [proc[p].out EXCEPT !.junk = TRUE]}
      BY <1>8 DEF Fill
    <3>3. QED
      BY <3>1, <3>2, JunkKeeps
  <2>3. QED
    BY <1>8, <2>1, <2>2 DEF Fill, Counts, TextOK, FmTells
<1>9. ASSUME NEW p \in Procs, Release(p) PROVE Texted'
  <2>1. proc' = [proc EXCEPT ![p] = IdleProc] /\ IdleProc.edit.c = Blank /\ IdleProc.edit.adds = {}
    BY <1>9 DEF Release, NoEdit, Edit
  <2>2. 0 \in 0 .. MaxTries - 1
    BY FileAssumption
  <2>3. ProcTexts'
    BY <2>1, <2>2, BlankIsText, BlankIsSane DEF ProcTexts
  <2>4. Counts'
    BY <1>9 DEF Release, Counts, ProcTexts
  <2>5. QED
    BY <1>9, <2>3, <2>4 DEF Release
<1>10. ASSUME NEW p \in Procs, Crash(p) PROVE Texted'
  <2>1. proc' = [proc EXCEPT ![p] = IdleProc] /\ IdleProc.edit.c = Blank /\ IdleProc.edit.adds = {}
    BY <1>10 DEF Crash, NoEdit, Edit
  <2>2. 0 \in 0 .. MaxTries - 1
    BY FileAssumption
  <2>3. ProcTexts'
    BY <2>1, <2>2, BlankIsText, BlankIsSane DEF ProcTexts
  <2>4. Counts'
    BY <1>10, FileAssumption DEF Crash, Counts, MayFail
  <2>5. QED
    BY <1>10, <2>3, <2>4 DEF Crash
<1>11. ASSUME NEW p \in Procs, OpenError(p) PROVE Texted'
  <2>1. ProcTexts'
    BY <1>11 DEF ProcTexts, OpenError, To
  <2>2. Counts'
    BY <1>11, FileAssumption DEF OpenError, Counts, MayFail
  <2>3. QED
    BY <1>11, <2>1, <2>2 DEF OpenError
<1>12. CASE WriteSummary
  BY <1>12 DEF WriteSummary, ProcTexts, Counts
<1>13. CASE Age
  <2>1. Counts'
    BY <1>13, FileAssumption DEF Age, Counts, MayFail
  <2>2. QED
    BY <1>13, <2>1 DEF Age, ProcTexts
<1>14. CASE UNCHANGED vars
  BY <1>14 DEF vars, ProcTexts, Counts
<1>15. QED
  BY <1>1, <1>2, <1>3, <1>4, <1>5, <1>6, <1>7, <1>8, <1>9, <1>10, <1>11, <1>12, <1>13, <1>14
  DEF Next, Run

----------------------------------------------------------------------------
(* No version mixes two writes until a lock is forced.                       *)

Clean == ~forced => /\ ~file.junk
                    /\ \A p \in Procs : ~proc[p].edit.c.junk /\ ~proc[p].out.junk
CleanInv == TextInv /\ Emptied /\ Clean

LEMMA BlankIsClean == ~Blank.junk
  BY DEF Blank

LEMMA InitClean == Init => Clean
<1> SUFFICES ASSUME Init PROVE ~file.junk /\ \A p \in Procs : ~proc[p].edit.c.junk /\ ~proc[p].out.junk
  BY DEF Clean
<1>1. file.junk = Blank.junk
  BY BlankOK DEF Init, InitialContents, PlainContent, PausedContent, BoldContent, Contents
<1>2. \A p \in Procs : proc[p].edit.c = Blank /\ proc[p].out = Blank
  BY DEF Init, NoEdit, Edit
<1>3. QED
  BY <1>1, <1>2, BlankIsClean

LEMMA CleanStep == CleanInv /\ [Next]_vars => Clean'
<1> SUFFICES ASSUME CleanInv, [Next]_vars PROVE Clean'
  OBVIOUS
<1> USE DEF CleanInv, TextInv, LockInv, Shape, ProcFields, Clean
<1>0. IdleProc.edit.c = Blank /\ IdleProc.out = Blank
  BY DEF NoEdit, Edit
<1>1. ASSUME NEW p \in Procs, Read(p) PROVE Clean'
  <2>1. PICK e : /\ proc' = [proc EXCEPT ![p] = [IdleProc EXCEPT !.pc = "sync", !.edit = e]]
                 /\ EditOK(file, e)
    BY <1>1, ReadIsOK
  <2>2. proc'[p] = [pc |-> "sync", edit |-> e, out |-> Blank, prev |-> Blank, tries |-> 0]
    BY <2>1
  <2>3. e.c.junk = file.junk
    BY <2>1 DEF EditOK
  <2>4. QED
    BY <1>1, <2>1, <2>2, <2>3, BlankIsClean DEF Read
<1>2. ASSUME NEW p \in Procs, Sync(p) PROVE Clean'
  <2>1. PICK o : o = SyncStateFrontmatter(proc[p].edit.c, disk) /\ o.junk = proc[p].edit.c.junk
    BY SyncIsOK
  <2>2. QED
    BY <1>2, <2>1 DEF Sync
<1>3. ASSUME NEW p \in Procs, Acquire(p) PROVE Clean'
  BY <1>3 DEF Acquire, To
<1>4. ASSUME NEW p \in Procs, Contend(p) PROVE Clean'
  BY <1>4 DEF Contend, To, Retry
<1>5. ASSUME NEW p \in Procs, Reap(p) PROVE Clean'
  <2>1. forced => forced'
    BY <1>5 DEF Reap
  <2>2. \A q \in Procs : proc'[q].edit = proc[q].edit /\ proc'[q].out = proc[q].out
    BY <1>5 DEF Reap, To, Retry
  <2>3. QED
    BY <1>5, <2>1, <2>2 DEF Reap
<1>6. ASSUME NEW p \in Procs, Steal(p) PROVE Clean'
  BY <1>6 DEF Steal, To
<1>7. ASSUME NEW p \in Procs, Truncate(p) PROVE Clean'
  BY <1>7, BlankIsClean DEF Truncate
<1>8. ASSUME NEW p \in Procs, Fill(p) PROVE Clean'
  <2> SUFFICES ASSUME ~forced
               PROVE  /\ ~file'.junk
                      /\ \A q \in Procs : ~proc'[q].edit.c.junk /\ ~proc'[q].out.junk
    BY <1>8 DEF Fill
  <2>1. file = Blank
    BY <1>8 DEF Fill, Emptied, Filling
  <2>2. file' = proc[p].out
    BY <1>8, <2>1 DEF Fill
  <2>3. \A q \in Procs : ~proc'[q].edit.c.junk /\ ~proc'[q].out.junk
    BY <1>8, BlankIsClean DEF Fill
  <2>4. QED
    BY <2>2, <2>3
<1>9. ASSUME NEW p \in Procs, Release(p) PROVE Clean'
  BY <1>0, <1>9, BlankIsClean DEF Release
<1>10. ASSUME NEW p \in Procs, Crash(p) PROVE Clean'
  BY <1>0, <1>10, BlankIsClean DEF Crash
<1>11. ASSUME NEW p \in Procs, OpenError(p) PROVE Clean'
  BY <1>11 DEF OpenError
<1>12. CASE WriteSummary
  BY <1>12 DEF WriteSummary
<1>13. CASE Age
  BY <1>13 DEF Age
<1>14. CASE UNCHANGED vars
  BY <1>14 DEF vars
<1>15. QED
  BY <1>1, <1>2, <1>3, <1>4, <1>5, <1>6, <1>7, <1>8, <1>9, <1>10, <1>11, <1>12, <1>13, <1>14
  DEF Next, Run

----------------------------------------------------------------------------
(* Commands that run one after the other.                                    *)

\* What the list of reported entries becomes when p ends.
Result(p) == (acked \ proc[p].edit.drops) \cup proc[p].edit.adds

\* One process at a time runs, and the text it carries has the entries it will
\* report, at each of its steps.
InTurn == ~beside =>
  /\ \A p, q \in Procs : proc[p].pc # "idle" /\ proc[q].pc # "idle" => p = q
  /\ (\A p \in Procs : proc[p].pc = "idle") => acked = file.log
  /\ \A p \in Procs :
       /\ proc[p].pc = "sync" => proc[p].edit.c.log = Result(p)
       /\ proc[p].pc \in Synced => proc[p].out.log = Result(p)
       /\ proc[p].pc = "release" => file.log = Result(p)
TurnInv == TextInv /\ InTurn

LEMMA InitTurn == Init => InTurn
<1> SUFFICES ASSUME Init PROVE InTurn
  OBVIOUS
<1>1. file.log = {} /\ acked = {}
  <2>1. Blank.log = {}
    BY DEF Blank
  <2>2. file.log = Blank.log
    BY BlankOK DEF Init, InitialContents, PlainContent, PausedContent, BoldContent, Contents
  <2>3. QED
    BY <2>1, <2>2 DEF Init
<1>2. \A p \in Procs : proc[p].pc = "idle"
  BY DEF Init
<1>3. QED
  BY <1>1, <1>2 DEF InTurn, Synced

\* A process that moves on among the steps of a write keeps its turn.
LEMMA TurnMoves ==
  ASSUME TurnInv, NEW p \in Procs, proc[p].pc \in Synced, acked' = acked, beside' = beside,
         file' = file \/ file' = Blank,
         \A q \in Procs : proc'[q].edit = proc[q].edit /\ proc'[q].out = proc[q].out,
         proc'[p].pc \in Synced, \A q \in Procs \ {p} : proc'[q].pc = proc[q].pc
  PROVE  InTurn'
<1> SUFFICES ASSUME ~beside
             PROVE  /\ \A r, q \in Procs : proc'[r].pc # "idle" /\ proc'[q].pc # "idle" => r = q
                    /\ (\A q \in Procs : proc'[q].pc = "idle") => acked' = file'.log
                    /\ \A q \in Procs :
                         /\ proc'[q].pc = "sync" => proc'[q].edit.c.log = Result(q)'
                         /\ proc'[q].pc \in Synced => proc'[q].out.log = Result(q)'
                         /\ proc'[q].pc = "release" => file'.log = Result(q)'
  BY DEF InTurn
<1>1. \A q \in Procs \ {p} : proc[q].pc = "idle"
  BY DEF TurnInv, InTurn, Synced
<1>2. \A q \in Procs : Result(q)' = Result(q)
  BY DEF Result
<1>3. proc[p].out.log = Result(p)
  BY DEF TurnInv, InTurn
<1>4. QED
  BY <1>1, <1>2, <1>3 DEF Synced

LEMMA TurnStep == TurnInv /\ [Next]_vars => InTurn'
<1> SUFFICES ASSUME TurnInv, [Next]_vars PROVE InTurn'
  OBVIOUS
<1> USE DEF LockInv, Shape, ProcFields
<1>0. LockInv /\ InTurn /\ TextInv
  BY DEF TurnInv, TextInv
<1>1. ASSUME NEW p \in Procs, Read(p) PROVE InTurn'
  <2>1. PICK e : /\ proc' = [proc EXCEPT ![p] = [IdleProc EXCEPT !.pc = "sync", !.edit = e]]
                 /\ EditOK(file, e)
    BY <1>0, <1>1, ReadIsOK
  <2>2. proc'[p] = [pc |-> "sync", edit |-> e, out |-> Blank, prev |-> Blank, tries |-> 0]
    BY <1>0, <2>1
  <2>3. file' = file /\ acked' = acked /\ beside' = beside /\ (beside \/ Running = {})
    BY <1>1 DEF Read
  <2> SUFFICES ASSUME ~beside PROVE InTurn'
    BY <2>3 DEF InTurn
  <2>4. \A q \in Procs : proc[q].pc = "idle"
    BY <2>3 DEF Running
  <2>5. \A q \in Procs \ {p} : proc'[q].pc = "idle"
    BY <1>0, <2>1, <2>4
  <2>6. acked = file.log
    BY <1>0, <2>4 DEF InTurn
  <2>7. e.c.log = Result(p)'
    BY <2>1, <2>2, <2>3, <2>6 DEF EditOK, Result
  <2>8. proc'[p].pc = "sync" /\ proc'[p].edit.c.log = Result(p)'
    BY <2>2, <2>7
  <2>9. QED
    BY <2>5, <2>8 DEF InTurn, Synced
<1>2. ASSUME NEW p \in Procs, Sync(p) PROVE InTurn'
  <2>1. PICK o : o = SyncStateFrontmatter(proc[p].edit.c, disk) /\ o.log = proc[p].edit.c.log
    BY <1>0, SyncIsOK
  <2>2. /\ proc'[p].pc = "lock" /\ proc'[p].out = o
        /\ \A q \in Procs : proc'[q].edit = proc[q].edit
        /\ \A q \in Procs \ {p} : proc'[q].pc = proc[q].pc
        /\ acked' = acked /\ beside' = beside /\ proc[p].pc = "sync"
    BY <1>0, <1>2, <2>1 DEF Sync
  <2> SUFFICES ASSUME ~beside PROVE InTurn'
    BY <2>2 DEF InTurn
  <2>3. \A q \in Procs \ {p} : proc'[q].pc = "idle"
    BY <1>0, <2>2 DEF InTurn
  <2>4. \A q \in Procs : Result(q)' = Result(q)
    BY <2>2 DEF Result
  <2>5. proc'[p].out.log = Result(p)'
    BY <1>0, <2>1, <2>2, <2>4 DEF InTurn
  <2>6. QED
    BY <2>2, <2>3, <2>5 DEF InTurn, Synced
<1>3. ASSUME NEW p \in Procs, Acquire(p) PROVE InTurn'
  BY <1>0, <1>3, TurnMoves DEF Acquire, To, Synced
<1>4. ASSUME NEW p \in Procs, Contend(p) PROVE InTurn'
  BY <1>0, <1>4, TurnMoves DEF Contend, To, Retry, Synced
<1>5. ASSUME NEW p \in Procs, Reap(p) PROVE InTurn'
  <2>1. /\ \A q \in Procs : proc'[q].edit = proc[q].edit /\ proc'[q].out = proc[q].out
        /\ \A q \in Procs \ {p} : proc'[q].pc = proc[q].pc
        /\ proc[p].pc \in Synced /\ proc'[p].pc \in Synced
    BY <1>0, <1>5 DEF Reap, To, Retry, Synced
  <2>2. file' = file /\ acked' = acked /\ beside' = beside
    BY <1>5 DEF Reap
  <2>3. QED
    BY <2>1, <2>2, TurnMoves
<1>6. ASSUME NEW p \in Procs, Steal(p) PROVE InTurn'
  BY <1>0, <1>6, TurnMoves DEF Steal, To, Synced
<1>7. ASSUME NEW p \in Procs, Truncate(p) PROVE InTurn'
  BY <1>0, <1>7, TurnMoves DEF Truncate, Synced
<1>8. ASSUME NEW p \in Procs, Fill(p) PROVE InTurn'
  <2>1. /\ proc'[p].pc = "release" /\ proc[p].pc = "fill"
        /\ \A q \in Procs : proc'[q].edit = proc[q].edit
        /\ \A q \in Procs \ {p} : proc'[q].pc = proc[q].pc
        /\ acked' = acked /\ beside' = beside
    BY <1>0, <1>8 DEF Fill
  <2> SUFFICES ASSUME ~beside PROVE InTurn'
    BY <2>1 DEF InTurn
  <2>2. \A q \in Procs \ {p} : proc'[q].pc = "idle"
    BY <1>0, <2>1 DEF InTurn
  <2>3. \A q \in Procs : Result(q)' = Result(q)
    BY <2>1 DEF Result
  <2>4. proc[p].out.log = Result(p)
    BY <1>0, <2>1 DEF InTurn, Synced
  <2>5. file'.log = proc[p].out.log
    <3>1. TextOK(proc[p].out)
      BY <1>0 DEF TextInv, Texted, ProcTexts
    <3>2. file' \in {proc[p].out, [proc[p].out EXCEPT !.junk = TRUE]}
      BY <1>8 DEF Fill
    <3>3. QED
      BY <3>1, <3>2, JunkKeeps
  <2>6. file'.log = Result(p)'
    BY <2>3, <2>4, <2>5
  <2>7. QED
    BY <2>1, <2>2, <2>6 DEF InTurn, Synced
<1>9. ASSUME NEW p \in Procs, Release(p) PROVE InTurn'
  <2>1. /\ proc[p].pc = "release" /\ proc'[p].pc = "idle"
        /\ \A q \in Procs \ {p} : proc'[q].pc = proc[q].pc
        /\ acked' = Result(p) /\ beside' = beside /\ file' = file
    BY <1>0, <1>9 DEF Release, Result
  <2> SUFFICES ASSUME ~beside PROVE InTurn'
    BY <2>1 DEF InTurn
  <2>2. \A q \in Procs : proc'[q].pc = "idle"
    BY <1>0, <2>1 DEF InTurn
  <2>3. file.log = Result(p)
    BY <1>0, <2>1 DEF InTurn
  <2>4. QED
    BY <2>1, <2>2, <2>3 DEF InTurn, Synced
<1>10. ASSUME NEW p \in Procs, Crash(p) PROVE InTurn'
  BY <1>10 DEF Crash, MayFail, InTurn
<1>11. ASSUME NEW p \in Procs, OpenError(p) PROVE InTurn'
  BY <1>11 DEF OpenError, MayFail, InTurn
<1>12. CASE WriteSummary
  BY <1>0, <1>12 DEF WriteSummary, InTurn, Result
<1>13. CASE Age
  BY <1>0, <1>13 DEF Age, InTurn, Result
<1>14. CASE UNCHANGED vars
  BY <1>0, <1>14 DEF vars, InTurn, Result
<1>15. QED
  BY <1>1, <1>2, <1>3, <1>4, <1>5, <1>6, <1>7, <1>8, <1>9, <1>10, <1>11, <1>12, <1>13, <1>14
  DEF Next, Run

----------------------------------------------------------------------------
(* What follows.                                                             *)

LEMMA TextInvariant == Spec => []TextInv
  BY InitText, TextStep, PTL DEF Spec

\* Whatever order the commands, crashes and stalls come in, the lock, the
\* processes and every text have their types, and no process tries past MaxTries.
THEOREM StateTypes == Spec => []TypeOK
<1>1. TextInv => TypeOK
  <2> SUFFICES ASSUME TextInv PROVE TypeOK
    OBVIOUS
  <2>1. LockOK
    BY DEF TextInv, LockInv, Shape, LockOK
  <2>2. ProcOK
    BY SaneIsOK DEF TextInv, LockInv, Shape, Texted, ProcTexts, TextOK, ProcOK
  <2>3. ContentOK(file)
    BY SaneIsOK DEF TextInv, Texted, TextOK
  <2>4. QED
    BY <2>1, <2>2, <2>3 DEF TypeOK, TextInv, Texted, Counts, LockInv, Shape
<1>2. QED
  BY TextInvariant, <1>1, PTL

\* No version of STATE.md counts a plan past the total, whichever of the commands
\* wrote it over whichever other (cmdStateAdvancePlan, cmdStateBeginPhase), until
\* "state update" or "state patch" is given one of the counts.
THEOREM CountsStayWithin == Spec => []PlanWithinTotal
<1>1. TextInv => PlanWithinTotal
  <2> SUFFICES ASSUME TextInv, ~file.hand PROVE PlanWithinTotal
    BY DEF PlanWithinTotal
  <2>1. CountsOK(file)
    BY DEF TextInv, Texted, TextOK, Sane
  <2>2. PICK n, t, pos : /\ n = file.bold["Current Plan"] /\ t = file.bold["Total Plans in Phase"]
                         /\ pos = file.plain["Plan"]
    OBVIOUS
  <2>3. n # Absent /\ t # Absent => n[1] <= t[1]
    <3> SUFFICES ASSUME n # Absent PROVE n[1] <= t[1]
      OBVIOUS
    <3>1. PICK i \in Nat, k \in Nat : n = <<i>> /\ t = <<k>> /\ i <= k
      BY <2>1, <2>2 DEF CountsOK, PlanOK
    <3>2. n[1] = i /\ t[1] = k
      BY ONLY <3>1, One
    <3>3. QED
      BY <3>1, <3>2
  <2>4. Len(pos) = 2 => pos[1] <= pos[2] \/ pos[2] = 0
    <3> SUFFICES ASSUME Len(pos) = 2 PROVE pos[1] <= pos[2] \/ pos[2] = 0
      OBVIOUS
    <3>1. ~IsNumber(pos)
      BY Texts DEF IsNumber
    <3>2. PICK i \in Nat, k \in Nat : pos = <<i, k>> /\ (k = 0 \/ i <= k)
      BY <2>1, <2>2, <3>1 DEF CountsOK, PositionOK
    <3>3. pos[1] = i /\ pos[2] = k
      BY ONLY <3>2, Two
    <3>4. QED
      BY <3>2, <3>3
  <2>5. QED
    BY <2>2, <2>3, <2>4 DEF PlanWithinTotal
<1>2. QED
  BY TextInvariant, <1>1, PTL

\* Current Position tells the plan that the bold fields tell: the commands that
\* write the one write the other (updateCurrentPositionFields), but for "state
\* update" and "state patch", which write what they are given.
THEOREM PositionFollows == Spec => []PositionAgrees
<1>1. TextInv => PositionAgrees
  <2> SUFFICES ASSUME TextInv, ~file.hand PROVE PositionAgrees
    BY DEF PositionAgrees
  <2>1. CountsOK(file)
    BY DEF TextInv, Texted, TextOK, Sane
  <2>2. PICK n, t, pos : /\ n = file.bold["Current Plan"] /\ t = file.bold["Total Plans in Phase"]
                         /\ pos = file.plain["Plan"]
    OBVIOUS
  <2> SUFFICES n \notin {Absent, <<0>>} /\ Len(pos) = 2 /\ pos[2] # 0 => pos = n \o t
    BY <2>2 DEF PositionAgrees
  <2> HAVE n \notin {Absent, <<0>>} /\ Len(pos) = 2 /\ pos[2] # 0
  <2>3. ~IsNumber(pos)
    BY Texts DEF IsNumber
  <2>4. PICK i \in Nat, k \in Nat : /\ pos = <<i, k>>
                                    /\ k = 0 \/ (n = <<i>> /\ t = <<k>>)
    BY <2>1, <2>2, <2>3 DEF CountsOK, PositionOK
  <2>5. pos[2] = k
    BY ONLY <2>4, Two
  <2>6. n = <<i>> /\ t = <<k>>
    BY <2>4, <2>5
  <2>7. <<i>> \o <<k>> = <<i, k>>
    BY Texts
  <2>8. QED
    BY <2>4, <2>6, <2>7
<1>2. QED
  BY TextInvariant, <1>1, PTL

\* state json, from the frontmatter, and state-snapshot, from the text, report
\* one plan, one pause, and one status or what the pause makes of it, in every
\* version with sections, whatever was typed (syncStateFrontmatter).
THEOREM ReadersMeet == Spec => []ReadersAgree
<1>1. TextInv => ReadersAgree
  BY ReadersOf DEF TextInv, Texted, TextOK, ReadersAgree
<1>2. QED
  BY TextInvariant, <1>1, PTL

\* Until a lock is forced no version has the end of another writer's text: the
\* lock keeps a second writer out between O_TRUNC and the write.
THEOREM VersionsAreWhole == Spec => []WholeFile
<1>1. CleanInv /\ [Next]_vars => CleanInv'
  BY TextStep, EmptiedStep, CleanStep DEF CleanInv, TextInv
<1>2. Init => CleanInv
  BY InitText, InitStoreInv, InitClean DEF CleanInv, StoreInv
<1>3. CleanInv => WholeFile
  BY DEF CleanInv, Clean, WholeFile
<1>4. QED
  BY <1>1, <1>2, <1>3, PTL DEF Spec

\* Commands that run one after the other lose no entry they reported and bring
\* none back, through any sequence of the thirteen.
THEOREM TurnsAreExact == Spec => []SequentialIsExact
<1>1. TurnInv /\ [Next]_vars => TurnInv'
  BY TextStep, TurnStep DEF TurnInv
<1>2. Init => TurnInv
  BY InitText, InitTurn DEF TurnInv
<1>3. TurnInv => SequentialIsExact
  BY DEF TurnInv, InTurn, SequentialIsExact, Running
<1>4. QED
  BY <1>1, <1>2, <1>3, PTL DEF Spec
=============================================================================
