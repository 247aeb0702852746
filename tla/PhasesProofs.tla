---------------------------- MODULE PhasesProofs ----------------------------
EXTENDS Phases, SequenceTheorems, FiniteSetTheorems, TLAPS

(* The safety properties of Phases, for every set of names and executors and *)
(* every bound.  A command is a queue of operations, and any of them may be   *)
(* the last, so the invariant says of every queue and every text an agent     *)
(* holds what carrying out the rest of it will leave behind: Typing and       *)
(* Queued (Shaped) say what an operation may hold and where it may stand,     *)
(* Kept that a text was made by adding to the one it came from, Gathering     *)
(* what milestone complete has still to move, Added and Agreeing which        *)
(* directories belong to which sections, DirsFiled and JobsFiled where the    *)
(* summaries are.                                                            *)

(* The inductive invariant.                                                  *)

\* The sections that come with a list of phases have integers.
Entries == {s \in Sections : s.listed => ~IsDecimal(s.num)}
Texts == Seq(Entries)
Paths == Numbers \X Names
PathsOf(ds) == {Path(d) : d \in ds}

MkdirJobs == [op : {"mkdir"}, dir : Dirs]
SaveJobs == [op : {"save"}, text : Texts, base : Texts]
RewriteJobs == [op : {"rewrite"}, text : Texts, base : Texts]
RmJobs == [op : {"rm"}, dir : Dirs, force : BOOLEAN]
RenameJobs == [op : {"rename"}, left : SUBSET Paths, ref : Refs]
ExciseJobs == [op : {"excise"}, ref : Refs]
TellJobs == [op : {"tell"}, num : Numbers]
MoveJobs == [op : {"move"}, left : SUBSET Paths]
ShipJobs == [op : {"ship"}]
Jobs == MkdirJobs \cup SaveJobs \cup RewriteJobs \cup RmJobs \cup RenameJobs
          \cup ExciseJobs \cup TellJobs \cup MoveJobs \cup ShipJobs

HeldJobs == {NoJob} \cup [pc : {"update"}, ref : Refs]
                    \cup [pc : {"save"}, base : Texts, text : Texts]

\* What the numbers are that phase remove moves down.
After(num, removed) == IF IsDecimal(removed) THEN num[1] = removed[1] /\ num[2] > removed[2]
                                             ELSE num[1] > removed[1]

\* Where in its command an operation stands.
Placed(i) ==
    /\ todo[i].op = "mkdir" => i = 1
    /\ todo[i].op = "save" => i = 1 \/ (i = 2 /\ todo[1].op = "mkdir")
    /\ todo[i].op = "rm" => i = 1
    /\ todo[i].op = "rename" => /\ i = 1 \/ (i = 2 /\ todo[1].op = "rm"
                                               /\ \A path \in todo[i].left : path[1] # todo[1].dir.num)
                                /\ todo[i].left # {} /\ todo[i].left \subseteq PathsOf(dirs)
                                /\ \A path \in todo[i].left : After(path[1], todo[i].ref.num)
    /\ todo[i].op = "excise" => i = Len(todo) /\ \A j \in 1 .. (i - 1) : todo[j].op \in {"rm", "rename"}
    /\ todo[i].op = "rewrite" => i = 1 /\ Len(todo) = 1
    /\ todo[i].op = "move" => /\ i = 1 /\ Len(todo) = 2 /\ todo[2].op = "ship"
                              /\ todo[i].left # {} /\ todo[i].left \subseteq PathsOf(dirs)
    /\ todo[i].op = "ship" => i = Len(todo) /\ \A j \in 1 .. (i - 1) : todo[j].op = "move"

Typing == /\ roadmap \in Texts
          /\ dirs \subseteq Dirs /\ archive \subseteq Dirs
          /\ todo \in Seq(Jobs)
          /\ held \in [Executors -> HeldJobs]
          /\ said.last \in BOOLEAN
          /\ shipped \in BOOLEAN
          /\ ops \in 0 .. MaxOps /\ work \in 0 .. MaxWork /\ faults \in 0 .. MaxFaults
          /\ marred \subseteq {"renumber", "stale", "race", "cut", "crash"}
          /\ shipped => todo = <<>>
Queued == \A i \in DOMAIN todo : Placed(i)

\* A text that keeps the sections and the checked boxes of another; one that also
\* has no more sections than it.
Keeps(R, T) == \A i \in DOMAIN R : \E j \in DOMAIN T :
    /\ T[j].num = R[i].num /\ T[j].name = R[i].name
    /\ R[i].box = "done" => T[j].box = "done"
Headed(R, T) == /\ DOMAIN T = DOMAIN R
                /\ \A i \in DOMAIN R : /\ T[i].num = R[i].num /\ T[i].name = R[i].name
                                       /\ T[i].listed = R[i].listed
Kept == /\ \A i \in DOMAIN todo : todo[i].op = "save" => Keeps(todo[i].base, todo[i].text)
        /\ \A e \in Executors : held[e].pc = "save" => /\ Keeps(held[e].base, held[e].text)
                                                       /\ Headed(held[e].base, held[e].text)

Gathered == \/ \A d \in dirs : ~InMilestone(roadmap, d)
            \/ \E d \in dirs : At(archive, d) # {}
Leaving(d) == Path(d) \in todo[1].left \/ At(archive, d) # {}
Gathering == "stale" \notin marred =>
    /\ shipped => Gathered
    /\ todo # <<>> => /\ todo[1].op = "ship" => Gathered
                      /\ todo[1].op = "move" => \A d \in dirs : InMilestone(roadmap, d) => Leaving(d)

PathOf(s) == <<s.num, s.name>>
Everywhere == PathsOf(dirs \cup archive)
\* Integers name one section each, which comes before those of their decimals.
Orderly(R) == \A i, j \in DOMAIN R : ~IsDecimal(R[i].num) /\ R[j].num[1] = R[i].num[1] => i <= j
\* Of the sections of one number, those after the first have such a path.
Firsts(R, ps) == \A i, j \in DOMAIN R : j < i /\ R[j].num = R[i].num => PathOf(R[i]) \in ps
\* So have all that were added or inserted.
Has(R, ps) == \A i \in DOMAIN R : R[i].listed \/ PathOf(R[i]) \in ps
Leading(R, i) == \A j \in DOMAIN R : R[j].num = R[i].num => i <= j
HasBut(R, ps, num) == \A i \in DOMAIN R :
    R[i].listed \/ PathOf(R[i]) \in ps \/ (R[i].num = num /\ Leading(R, i))
\* Phase remove renumbers nothing.
Tidy(R, ref) == ref = Written(ref.num) /\ \A n \in Numbered(R) : ~After(n, ref.num)

\* What is made by the time the i-th operation runs.
Made(i) == IF i = 1 THEN {} ELSE {Path(todo[1].dir)}
Sound(R) == Orderly(R) /\ Firsts(R, PathsOf(archive))
SavesAdd == \A i \in DOMAIN todo : todo[i].op = "save" =>
    Sound(todo[i].text) /\ Has(todo[i].text, Everywhere \cup Made(i))
RemovesClean == \A i \in DOMAIN todo :
    /\ todo[i].op # "rename"
    /\ todo[i].op = "rm" => /\ i = 1 /\ Len(todo) = 2 /\ todo[2].op = "excise"
                            /\ todo[i].dir.num = todo[2].ref.num
    /\ todo[i].op = "excise" =>
         /\ Tidy(roadmap, todo[i].ref)
         /\ IF i = 1 THEN HasBut(roadmap, Everywhere, todo[i].ref.num) ELSE Has(roadmap, Everywhere)
    /\ todo[i].op = "rewrite" => Sound(todo[i].text) /\ Has(todo[i].text, Everywhere)
Added == marred \subseteq {"crash"} =>
    /\ Sound(roadmap)
    /\ Removing \/ Has(roadmap, Everywhere)
    /\ SavesAdd /\ RemovesClean

Distinct(R) == \A i, j \in DOMAIN R : R[i].num = R[j].num => i = j
Covers(R, ps) == \A path \in ps : \E i \in DOMAIN R : PathOf(R[i]) = path
Agree(R, ps) == Distinct(R) /\ Covers(R, ps)
Saving == todo # <<>> /\ todo[1].op = "save"
Moving == todo # <<>> /\ todo[1].op \in {"move", "ship"}
QueueAgrees == \A i \in DOMAIN todo :
    /\ todo[i].op = "save" => Agree(todo[i].text, Everywhere \cup Made(i))
    /\ todo[i].op = "mkdir" => 2 \in DOMAIN todo /\ todo[2].op = "save"
    /\ todo[i].op = "excise" => \A path \in Everywhere :
         path[1] = todo[i].ref.num => i = 2 /\ path = Path(todo[1].dir)
    /\ todo[i].op = "rewrite" => Agree(todo[i].text, Everywhere)
Agreeing == marred = {} =>
    /\ Saving \/ Agree(roadmap, Everywhere)
    /\ archive # {} => shipped \/ Moving
    /\ QueueAgrees

----------------------------------------------------------------------------
(* The operators of Roadmap.                                                 *)

\* A set of naturals has a least member, and Min is it.
LEMMA MinIs ==
  ASSUME NEW S \in SUBSET Nat, S # {}
  PROVE  Min(S) \in S /\ \A x \in S : Min(S) <= x
<1>1. PICK x \in S : \A y \in S : ~(<<y, x>> \in OpToRel(<, Nat))
  <2>1. S \subseteq Nat /\ S # {}
    OBVIOUS
  <2> HIDE DEF OpToRel
  <2>2. QED
    BY <2>1, NatLessThanWellFounded, WFMin, Zenon
<1>2. ASSUME NEW y \in S PROVE x <= y
  <2>1. y \in Nat /\ x \in Nat
    OBVIOUS
  <2>2. y < x => <<y, x>> \in OpToRel(<, Nat)
    BY <2>1, Zenon DEF OpToRel
  <2>3. ~(y < x)
    BY <1>1, <2>2, Zenon
  <2>4. QED
    BY <2>1, <2>3
<1>3. QED
  BY <1>2 DEF Min

\* A set of numbers up to n has a greatest member, and Max is it.
LEMMA MaxIs ==
  ASSUME NEW n \in Nat, NEW S \in SUBSET (0 .. n), S # {}
  PROVE  Max(S) \in S /\ \A x \in S : x <= Max(S)
<1> DEFINE T == {n - x : x \in S}
<1> \A x \in S : x \in Nat /\ x <= n
  OBVIOUS
<1>1. T \in SUBSET Nat /\ T # {}
  <2>1. \A x \in S : n - x \in Nat
    OBVIOUS
  <2>2. QED
    BY <2>1
<1>2. Min(T) \in T /\ \A y \in T : Min(T) <= y
  BY <1>1, MinIs
<1>3. PICK m \in S : Min(T) = n - m
  BY <1>2
<1>4. ASSUME NEW x \in S PROVE x <= m
  <2>1. n - x \in T
    OBVIOUS
  <2>2. n - m <= n - x
    BY <2>1, <1>2, <1>3
  <2>3. QED
    BY <2>2
<1>5. QED
  BY <1>4 DEF Max

LEMMA NumberParts ==
  ASSUME NEW num \in Numbers
  PROVE  /\ num[1] \in 1 .. MaxInt /\ num[2] \in 0 .. MaxDec
         /\ num = <<num[1], num[2]>>
         /\ num[1] \in Nat /\ num[2] \in Nat /\ num[1] <= 9 /\ num[2] <= 9
BY RoadmapAssumption DEF Numbers

\* The order of the numbers is lexicographic: a set of directories has a first one.
LEMMA FirstSortedIs ==
  ASSUME NEW ds \in SUBSET Dirs, ds # {}
  PROVE  FirstSorted(ds) \in ds /\ \A d \in ds : ~Below(d.num, FirstSorted(ds).num)
<1>1. \A d \in ds : d.num \in Numbers
  BY DEF Dirs
<1>2. \A d \in ds : d.num[1] \in Nat /\ d.num[2] \in Nat
  BY <1>1, NumberParts
<1> DEFINE ints == {d.num[1] : d \in ds}
<1>3. PICK n \in ints : \A x \in ints : n <= x
  <2>1. ints \in SUBSET Nat /\ ints # {}
    BY <1>2
  <2> HIDE DEF ints
  <2>2. QED
    BY <2>1, MinIs
<1> DEFINE decs == {d.num[2] : d \in {e \in ds : e.num[1] = n}}
<1>4. PICK k \in decs : \A x \in decs : k <= x
  <2>1. decs \in SUBSET Nat /\ decs # {}
    BY <1>2, <1>3
  <2> HIDE DEF decs
  <2>2. QED
    BY <2>1, MinIs
<1>5. PICK f \in ds : f.num[1] = n /\ f.num[2] = k
  BY <1>4
<1>6. ASSUME NEW d \in ds PROVE ~Below(d.num, f.num)
  <2>1. n <= d.num[1]
    BY <1>3
  <2>2. d.num[1] = n => k <= d.num[2]
    BY <1>4
  <2>3. QED
    BY <2>1, <2>2, <1>2, <1>5 DEF Below
<1>7. QED
  BY <1>5, <1>6 DEF FirstSorted

\* Two sections with the same heading.
LEMMA TextIs ==
  ASSUME NEW R \in Texts
  PROVE  /\ Len(R) \in Nat /\ DOMAIN R = 1 .. Len(R)
         /\ \A i \in DOMAIN R : R[i] \in Entries /\ R[i].num \in Numbers
BY DEF Texts, Entries, Sections

LEMMA BoxSet ==
  ASSUME NEW s \in Entries, NEW b \in {"none", "open", "done"}
  PROVE  LET t == [s EXCEPT !.box = b]
         IN  /\ t \in Entries /\ t.num = s.num /\ t.name = s.name
             /\ t.listed = s.listed /\ t.box = b
BY DEF Entries, Sections

\* Checking a box keeps the sections and the boxes that are checked.
LEMMA TickIs ==
  ASSUME NEW R \in Texts, NEW ref
  PROVE  Tick(R, ref) \in Texts /\ Keeps(R, Tick(R, ref)) /\ Headed(R, Tick(R, ref))
<1> DEFINE open == {i \in Boxes(R, ref) : R[i].box = "open"}
<1>1. CASE open = {}
  BY <1>1 DEF Tick, Keeps, Headed
<1>2. CASE open # {}
  <2>1. open \in SUBSET (DOMAIN R) /\ open \in SUBSET Nat
    BY TextIs DEF Boxes
  <2>2. Min(open) \in DOMAIN R
    <3> HIDE DEF open
    <3>1. QED
      BY <2>1, <1>2, MinIs
  <2> DEFINE k == Min(open)
  <2>3. Tick(R, ref) = [R EXCEPT ![k] = [R[k] EXCEPT !.box = "done"]]
    BY <1>2 DEF Tick
  <2> HIDE DEF k
  <2>4. k \in DOMAIN R
    BY <2>2 DEF k
  <2>5. Tick(R, ref) \in Texts
    <3> DEFINE t == [R[k] EXCEPT !.box = "done"]
    <3>1. R \in Seq(Entries) /\ k \in 1 .. Len(R) /\ t \in Entries
      BY <2>4, TextIs, BoxSet DEF Texts
    <3> HIDE DEF t
    <3>2. [R EXCEPT ![k] = t] \in Seq(Entries)
      BY <3>1, ExceptSeq
    <3>3. QED
      BY <2>3, <3>2 DEF Texts, t
  <2>6. \A i \in DOMAIN R : /\ Tick(R, ref)[i].num = R[i].num
                            /\ Tick(R, ref)[i].name = R[i].name
                            /\ Tick(R, ref)[i].listed = R[i].listed
                            /\ R[i].box = "done" => Tick(R, ref)[i].box = "done"
    BY <2>3, <2>4, TextIs, BoxSet
  <2>7. DOMAIN Tick(R, ref) = DOMAIN R
    BY <2>3
  <2>8. QED
    BY <2>5, <2>6, <2>7 DEF Keeps, Headed
<1>3. QED
  BY <1>1, <1>2

LEMMA InsertAtIs ==
  ASSUME NEW S, NEW R \in Seq(S), NEW k \in 1 .. (Len(R) + 1), NEW e \in S
  PROVE  /\ InsertAt(R, k, e) \in Seq(S)
         /\ Len(InsertAt(R, k, e)) = Len(R) + 1
         /\ \A i \in 1 .. (k - 1) : InsertAt(R, k, e)[i] = R[i]
         /\ InsertAt(R, k, e)[k] = e
         /\ \A i \in k .. Len(R) : InsertAt(R, k, e)[i + 1] = R[i]
<1> DEFINE l == SubSeq(R, 1, k - 1)
           m == <<e>>
           r == SubSeq(R, k, Len(R))
<1>1. Len(R) \in Nat /\ \A i \in 1 .. Len(R) : R[i] \in S
  OBVIOUS
<1>2. /\ l \in Seq(S) /\ Len(l) = k - 1 /\ \A i \in 1 .. (k - 1) : l[i] = R[i]
  <2>1. \A i \in 1 .. (k - 1) : R[i] \in S
    BY <1>1
  <2>2. QED
    BY <2>1, SubSeqProperties
<1>3. /\ r \in Seq(S) /\ Len(r) = Len(R) - k + 1 /\ \A i \in 1 .. (Len(R) - k + 1) : r[i] = R[k + i - 1]
  <2>1. \A i \in k .. Len(R) : R[i] \in S
    BY <1>1
  <2>2. QED
    BY <1>1, <2>1, SubSeqProperties
<1>4. m \in Seq(S) /\ Len(m) = 1 /\ m[1] = e
  OBVIOUS
<1> HIDE DEF l, m, r
<1>5. /\ l \o m \in Seq(S) /\ Len(l \o m) = k
      /\ \A i \in 1 .. k : (l \o m)[i] = IF i <= k - 1 THEN l[i] ELSE m[i - (k - 1)]
  <2>1. /\ l \o m \in Seq(S) /\ Len(l \o m) = Len(l) + Len(m)
        /\ \A i \in 1 .. (Len(l) + Len(m)) : (l \o m)[i] = IF i <= Len(l) THEN l[i] ELSE m[i - Len(l)]
    BY <1>2, <1>4, ConcatProperties
  <2>2. Len(l) = k - 1 /\ Len(l) + Len(m) = k
    BY <1>2, <1>4
  <2>3. QED
    BY <2>1, <2>2
<1>6. /\ (l \o m) \o r \in Seq(S) /\ Len((l \o m) \o r) = Len(R) + 1
      /\ \A i \in 1 .. (Len(R) + 1) :
           ((l \o m) \o r)[i] = IF i <= k THEN (l \o m)[i] ELSE r[i - k]
  <2>1. l \o m \in Seq(S) /\ r \in Seq(S)
    BY <1>3, <1>5
  <2> DEFINE lm == l \o m
  <2> HIDE DEF lm
  <2>2. /\ lm \o r \in Seq(S) /\ Len(lm \o r) = Len(lm) + Len(r)
        /\ \A i \in 1 .. (Len(lm) + Len(r)) : (lm \o r)[i] = IF i <= Len(lm) THEN lm[i] ELSE r[i - Len(lm)]
    BY <2>1, ConcatProperties DEF lm
  <2>3. Len(lm) = k /\ Len(lm) + Len(r) = Len(R) + 1
    BY <1>1, <1>3, <1>5 DEF lm
  <2>4. QED
    BY <2>2, <2>3 DEF lm
<1>7. InsertAt(R, k, e) = (l \o m) \o r
  BY DEF InsertAt, l, m, r
<1> DEFINE lm == l \o m
           T == lm \o r
<1> HIDE DEF lm, T
<1>8. /\ \A i \in 1 .. k : lm[i] = IF i <= k - 1 THEN l[i] ELSE m[i - (k - 1)]
      /\ \A i \in 1 .. (Len(R) + 1) : T[i] = IF i <= k THEN lm[i] ELSE r[i - k]
  BY <1>5, <1>6 DEF lm, T
<1>9. ASSUME NEW i \in 1 .. (k - 1) PROVE T[i] = R[i]
  <2>1. T[i] = lm[i] /\ lm[i] = l[i]
    BY <1>1, <1>8
  <2>2. QED
    BY <1>2, <2>1
<1>10. T[k] = e
  <2>1. T[k] = lm[k] /\ lm[k] = m[1]
    BY <1>1, <1>8
  <2>2. QED
    BY <1>4, <2>1
<1>11. ASSUME NEW i \in k .. Len(R) PROVE T[i + 1] = R[i]
  <2>1. T[i + 1] = r[i + 1 - k]
    BY <1>1, <1>8
  <2>2. i + 1 - k \in 1 .. (Len(R) - k + 1) /\ k + (i + 1 - k) - 1 = i
    BY <1>1
  <2>3. QED
    BY <1>3, <2>1, <2>2
<1>12. QED
  BY <1>6, <1>7, <1>9, <1>10, <1>11 DEF T, lm

LEMMA RemoveAtIs ==
  ASSUME NEW S, NEW R \in Seq(S), NEW k \in 1 .. Len(R)
  PROVE  /\ RemoveAt(R, k) \in Seq(S)
         /\ Len(RemoveAt(R, k)) = Len(R) - 1
         /\ \A i \in 1 .. (Len(R) - 1) : RemoveAt(R, k)[i] = R[IF i < k THEN i ELSE i + 1]
<1> DEFINE l == SubSeq(R, 1, k - 1)
           r == SubSeq(R, k + 1, Len(R))
<1>1. Len(R) \in Nat /\ \A i \in 1 .. Len(R) : R[i] \in S
  OBVIOUS
<1>2. /\ l \in Seq(S) /\ Len(l) = k - 1 /\ \A i \in 1 .. (k - 1) : l[i] = R[i]
  <2>1. \A i \in 1 .. (k - 1) : R[i] \in S
    BY <1>1
  <2>2. QED
    BY <2>1, SubSeqProperties
<1>3. /\ r \in Seq(S) /\ Len(r) = Len(R) - k /\ \A i \in 1 .. (Len(R) - k) : r[i] = R[k + i]
  <2>1. \A i \in (k + 1) .. Len(R) : R[i] \in S
    BY <1>1
  <2>2. QED
    BY <1>1, <2>1, SubSeqProperties
<1> HIDE DEF l, r
<1>4. /\ l \o r \in Seq(S) /\ Len(l \o r) = Len(R) - 1
      /\ \A i \in 1 .. (Len(R) - 1) : (l \o r)[i] = IF i <= k - 1 THEN l[i] ELSE r[i - (k - 1)]
  <2>1. /\ l \o r \in Seq(S) /\ Len(l \o r) = Len(l) + Len(r)
        /\ \A i \in 1 .. (Len(l) + Len(r)) : (l \o r)[i] = IF i <= Len(l) THEN l[i] ELSE r[i - Len(l)]
    BY <1>2, <1>3, ConcatProperties
  <2>2. Len(l) = k - 1 /\ Len(l) + Len(r) = Len(R) - 1
    BY <1>1, <1>2, <1>3
  <2>3. QED
    BY <2>1, <2>2
<1>5. RemoveAt(R, k) = l \o r
  BY DEF RemoveAt, l, r
<1>6. \A i \in 1 .. (Len(R) - 1) : (l \o r)[i] = R[IF i < k THEN i ELSE i + 1]
  BY <1>1, <1>2, <1>3, <1>4
<1>7. QED
  BY <1>4, <1>5, <1>6

\* The next integer is above those of all sections.
LEMMA NextIntegerIs ==
  ASSUME NEW R \in Texts
  PROVE  NextInteger(R) \in Nat \ {0} /\ \A i \in DOMAIN R : R[i].num[1] < NextInteger(R)
<1> DEFINE S == {0} \cup {n[1] : n \in Numbered(R)}
<1>1. \A i \in DOMAIN R : R[i].num[1] \in S
  BY DEF Numbered
<1>2. S \in SUBSET (0 .. 9) /\ S # {}
  BY TextIs, NumberParts DEF Numbered
<1>3. NextInteger(R) = 1 + Max(S)
  BY DEF NextInteger
<1> HIDE DEF S
<1>4. Max(S) \in S /\ \A x \in S : x <= Max(S)
  BY <1>2, MaxIs
<1>5. Max(S) \in Nat /\ \A x \in S : x \in Nat
  <2>1. \A x \in 0 .. 9 : x \in Nat
    OBVIOUS
  <2>2. \A x \in S : x \in Nat
    BY <1>2, <2>1, Zenon
  <2>3. QED
    BY <1>4, <2>2, Zenon
<1>6. \A x \in S : x < NextInteger(R)
  BY <1>3, <1>4, <1>5
<1>7. QED
  BY <1>1, <1>3, <1>5, <1>6

\* The next decimal is above those of the directories of its integer.
LEMMA NextDecimalIs ==
  ASSUME NEW ds \in SUBSET Dirs, NEW n \in 1 .. MaxInt
  PROVE  /\ NextDecimal(ds, n) \in Nat \ {0}
         /\ \A d \in ds : d.num[1] = n => d.num[2] < NextDecimal(ds, n)
<1> DEFINE S == {0} \cup {d.num[2] : d \in {d \in ds : d.num[1] = n}}
<1>1. \A d \in ds : d.num[1] = n => d.num[2] \in S
  OBVIOUS
<1>2. S \in SUBSET (0 .. 9) /\ S # {}
  BY NumberParts DEF Dirs
<1>3. NextDecimal(ds, n) = 1 + Max(S)
  BY DEF NextDecimal
<1> HIDE DEF S
<1>4. Max(S) \in S /\ \A x \in S : x <= Max(S)
  BY <1>2, MaxIs
<1>5. Max(S) \in Nat /\ \A x \in S : x \in Nat
  <2>1. \A x \in 0 .. 9 : x \in Nat
    OBVIOUS
  <2>2. \A x \in S : x \in Nat
    BY <1>2, <2>1, Zenon
  <2>3. QED
    BY <1>4, <2>2, Zenon
<1>6. \A x \in S : x < NextDecimal(ds, n)
  BY <1>3, <1>4, <1>5
<1>7. QED
  BY <1>1, <1>3, <1>5, <1>6

LEMMA AddSectionIs ==
  ASSUME NEW R \in Texts, NEW name \in Names, NextInteger(R) <= MaxInt
  PROVE  /\ <<NextInteger(R), 0>> \in Numbers
         /\ AddSection(R, name) \in Texts
         /\ Len(AddSection(R, name)) = Len(R) + 1
         /\ \A i \in DOMAIN R : AddSection(R, name)[i] = R[i]
         /\ LET s == AddSection(R, name)[Len(R) + 1]
            IN  /\ s.num = <<NextInteger(R), 0>> /\ s.name = name /\ s.listed = FALSE
                /\ s.dep.num = <<NextInteger(R) - 1, 0>>
<1> DEFINE n == NextInteger(R)
           s == NewSection(<<n, 0>>, name, [num |-> <<n - 1, 0>>, pad |-> FALSE], FALSE)
<1>1. n \in 1 .. MaxInt
  BY NextIntegerIs, RoadmapAssumption
<1> HIDE DEF n
<1>2. <<n, 0>> \in Numbers /\ <<n - 1, 0>> \in (0 .. MaxInt) \X (0 .. MaxDec)
  BY <1>1, RoadmapAssumption DEF Numbers
<1>3. /\ s \in Entries /\ s.num = <<n, 0>> /\ s.name = name /\ s.listed = FALSE
      /\ s.dep.num = <<n - 1, 0>>
  BY <1>2 DEF Entries, Sections, NewSection
<1>4. AddSection(R, name) = Append(R, s)
  BY DEF AddSection, n
<1> HIDE DEF s
<1>5. /\ Append(R, s) \in Texts /\ Len(Append(R, s)) = Len(R) + 1
      /\ \A i \in DOMAIN R : Append(R, s)[i] = R[i]
      /\ Append(R, s)[Len(R) + 1] = s
  BY <1>3 DEF Texts
<1>6. QED
  BY <1>2, <1>3, <1>4, <1>5 DEF n

\* T is R with a section after the k-th.
Inserted(R, T, k, num, name) ==
    /\ T \in Texts /\ Len(T) = Len(R) + 1
    /\ \A i \in 1 .. k : T[i] = R[i]
    /\ T[k + 1].num = num /\ T[k + 1].name = name /\ T[k + 1].listed = FALSE
    /\ \A i \in (k + 1) .. Len(R) : T[i + 1] = R[i]

LEMMA InsertSectionIs ==
  ASSUME NEW R \in Texts, NEW ref \in Refs, NEW num \in Numbers, NEW name \in Names,
         ref.num \in Numbered(R)
  PROVE  \E k \in DOMAIN R : /\ R[k].num = ref.num
                             /\ Inserted(R, InsertSection(R, ref, num, name), k, num, name)
                             /\ InsertSection(R, ref, num, name)[k + 1].dep = ref
<1> DEFINE S == {i \in DOMAIN R : R[i].num = ref.num}
           s == NewSection(num, name, ref, FALSE)
<1>1. S \in SUBSET Nat /\ S # {}
  BY TextIs DEF Numbered
<1>2. Min(S) \in S
  <2> HIDE DEF S
  <2>1. QED
    BY <1>1, MinIs
<1>3. PICK k \in DOMAIN R : k = Min(S) /\ R[k].num = ref.num
  BY <1>2
<1>4. InsertSection(R, ref, num, name) = InsertAt(R, k + 1, s)
  BY <1>3 DEF InsertSection
<1>5. s \in Entries /\ s.num = num /\ s.name = name /\ s.listed = FALSE /\ s.dep = ref
  <2>1. ref \in [num : (0 .. MaxInt) \X (0 .. MaxDec), pad : BOOLEAN]
    BY DEF Refs, Numbers
  <2>2. QED
    BY <2>1 DEF Entries, Sections, NewSection
<1> HIDE DEF s
<1>6. R \in Seq(Entries) /\ k + 1 \in 1 .. (Len(R) + 1) /\ k \in Nat
  BY TextIs DEF Texts
<1> DEFINE T == InsertAt(R, k + 1, s)
<1>7. /\ T \in Seq(Entries) /\ Len(T) = Len(R) + 1
      /\ \A i \in 1 .. ((k + 1) - 1) : T[i] = R[i]
      /\ T[k + 1] = s
      /\ \A i \in (k + 1) .. Len(R) : T[i + 1] = R[i]
  BY <1>5, <1>6, InsertAtIs
<1> HIDE DEF T
<1>8. \A i \in 1 .. k : T[i] = R[i]
  BY <1>6, <1>7
<1>9. QED
  BY <1>3, <1>4, <1>5, <1>7, <1>8 DEF T, Texts, Inserted

\* Renumbering keeps the form of the numbers, and the text unless an integer is later.
LEMMA CollapseIs ==
  ASSUME NEW n \in 1 .. MaxInt
  PROVE  /\ \A num \in Numbers : /\ Collapse(num, n) \in Numbers
                                 /\ IsDecimal(Collapse(num, n)) <=> IsDecimal(num)
                                 /\ num[1] <= n => Collapse(num, n) = num
         /\ \A num \in (0 .. MaxInt) \X (0 .. MaxDec) :
              Collapse(num, n) \in (0 .. MaxInt) \X (0 .. MaxDec)
<1>1. <<n, 0>> \in Numbers /\ <<n, 0>> \in (0 .. MaxInt) \X (0 .. MaxDec) /\ ~IsDecimal(<<n, 0>>)
  BY RoadmapAssumption DEF Numbers, IsDecimal
<1>2. ASSUME NEW num \in Numbers PROVE num[1] <= n => ~(num[1] > n)
  BY NumberParts, RoadmapAssumption
<1>3. QED
  BY <1>1, <1>2 DEF Collapse

LEMMA RenumberIs ==
  ASSUME NEW R \in Texts, NEW n \in 1 .. MaxInt
  PROVE  /\ RenumberAfter(R, n) \in Texts
         /\ (\A i \in DOMAIN R : R[i].num[1] <= n) => Headed(R, RenumberAfter(R, n))
<1> DEFINE New(i) == [R[i] EXCEPT !.num = Collapse(@, n),
                           !.tick = IF R[i].listed THEN Collapse(@, n) ELSE @,
                           !.dep.num = IF R[i].dep.pad THEN @ ELSE Collapse(@, n)]
<1>1. RenumberAfter(R, n) = [i \in DOMAIN R |-> New(i)]
  BY DEF RenumberAfter
<1>2. ASSUME NEW i \in DOMAIN R
      PROVE  /\ New(i) \in Entries
             /\ New(i).num = Collapse(R[i].num, n)
             /\ New(i).name = R[i].name /\ New(i).listed = R[i].listed
  <2>1. R[i] \in Sections /\ (R[i].listed => ~IsDecimal(R[i].num))
    BY TextIs DEF Entries
  <2>2. R[i].num \in Numbers /\ R[i].tick \in Numbers
        /\ R[i].dep \in [num : (0 .. MaxInt) \X (0 .. MaxDec), pad : BOOLEAN]
    BY <2>1 DEF Sections
  <2>3. /\ Collapse(R[i].num, n) \in Numbers /\ Collapse(R[i].tick, n) \in Numbers
        /\ IsDecimal(Collapse(R[i].num, n)) <=> IsDecimal(R[i].num)
        /\ Collapse(R[i].dep.num, n) \in (0 .. MaxInt) \X (0 .. MaxDec)
    BY <2>2, CollapseIs
  <2>4. New(i) \in Sections /\ New(i).num = Collapse(R[i].num, n)
        /\ New(i).name = R[i].name /\ New(i).listed = R[i].listed
    BY <2>1, <2>2, <2>3 DEF Sections
  <2>5. QED
    BY <2>1, <2>3, <2>4 DEF Entries
<1> HIDE DEF New
<1>3. DOMAIN R = 1 .. Len(R) /\ Len(R) \in Nat
  BY TextIs
<1>4. RenumberAfter(R, n) \in Texts
  <2>1. [i \in 1 .. Len(R) |-> New(i)] \in Seq(Entries)
    BY <1>2, <1>3
  <2>2. QED
    BY <1>1, <1>3, <2>1 DEF Texts
<1>5. ASSUME \A i \in DOMAIN R : R[i].num[1] <= n PROVE Headed(R, RenumberAfter(R, n))
  <2>1. \A i \in DOMAIN R : Collapse(R[i].num, n) = R[i].num
    BY <1>5, TextIs, CollapseIs
  <2>2. QED
    BY <1>1, <1>2, <2>1 DEF Headed
<1>6. QED
  BY <1>4, <1>5

LEMMA HeadedAgain ==
  ASSUME NEW R, NEW S, NEW T, Headed(R, S), Headed(S, T)
  PROVE  Headed(R, T)
BY DEF Headed

\* What phase remove takes out of the text: the first section of the number, if there
\* is one, and nothing else when no number is later.
LEMMA RemoveSectionIs ==
  ASSUME NEW R \in Texts, NEW ref \in Refs
  PROVE  LET T == RemoveSection(R, ref)
         IN  /\ T \in Texts
             /\ Tidy(R, ref) =>
                  \/ ref.num \notin Numbered(R) /\ Headed(R, T)
                  \/ \E k \in DOMAIN R : R[k].num = ref.num /\ Leading(R, k) /\ Headed(RemoveAt(R, k), T)
<1> DEFINE unticked == [i \in DOMAIN R |->
                          IF i \in Boxes(R, ref) THEN [R[i] EXCEPT !.box = "none"] ELSE R[i]]
           named == Heading(R, ref)
           rest == IF named = {} THEN unticked ELSE RemoveAt(unticked, Min(named))
<1>1. DOMAIN R = 1 .. Len(R) /\ Len(R) \in Nat
  BY TextIs
<1>2. unticked \in Texts /\ Headed(R, unticked) /\ Len(unticked) = Len(R)
  <2> DEFINE New(i) == IF i \in Boxes(R, ref) THEN [R[i] EXCEPT !.box = "none"] ELSE R[i]
  <2>1. ASSUME NEW i \in DOMAIN R
        PROVE  /\ New(i) \in Entries /\ New(i).num = R[i].num
               /\ New(i).name = R[i].name /\ New(i).listed = R[i].listed
    BY TextIs, BoxSet
  <2>2. unticked = [i \in 1 .. Len(R) |-> New(i)]
    BY <1>1
  <2> HIDE DEF New
  <2>3. unticked \in Seq(Entries) /\ Len(unticked) = Len(R)
    <3>1. [i \in 1 .. Len(R) |-> New(i)] \in Seq(Entries) /\ Len([i \in 1 .. Len(R) |-> New(i)]) = Len(R)
      BY <1>1, <2>1
    <3>2. QED
      BY <2>2, <3>1
  <2>4. \A i \in DOMAIN R : unticked[i] = New(i)
    BY <2>2, <1>1
  <2>5. DOMAIN unticked = DOMAIN R
    OBVIOUS
  <2> HIDE DEF unticked
  <2>6. Headed(R, unticked)
    BY <2>1, <2>4, <2>5 DEF Headed
  <2>7. QED
    BY <2>3, <2>6 DEF Texts
<1> HIDE DEF unticked
<1>3. named # {} => Min(named) \in named /\ \A i \in named : Min(named) <= i
  <2>1. named \in SUBSET Nat
    BY <1>1 DEF Heading
  <2> HIDE DEF named
  <2>2. QED
    BY <2>1, MinIs
<1>4. named \subseteq DOMAIN R
  BY DEF Heading
<1>5. named # {} => /\ RemoveAt(unticked, Min(named)) \in Texts
                    /\ Headed(RemoveAt(R, Min(named)), RemoveAt(unticked, Min(named)))
  <2> SUFFICES ASSUME NEW k \in 1 .. Len(R)
               PROVE  RemoveAt(unticked, k) \in Texts /\ Headed(RemoveAt(R, k), RemoveAt(unticked, k))
    BY <1>1, <1>3, <1>4
  <2> DEFINE U == RemoveAt(unticked, k)
             V == RemoveAt(R, k)
  <2>1. /\ U \in Seq(Entries) /\ Len(U) = Len(R) - 1
        /\ \A i \in 1 .. (Len(R) - 1) : U[i] = unticked[IF i < k THEN i ELSE i + 1]
    BY <1>2, RemoveAtIs DEF Texts
  <2>2. /\ V \in Seq(Entries) /\ Len(V) = Len(R) - 1
        /\ \A i \in 1 .. (Len(R) - 1) : V[i] = R[IF i < k THEN i ELSE i + 1]
    BY RemoveAtIs DEF Texts
  <2> HIDE DEF U, V
  <2>3. DOMAIN U = 1 .. (Len(R) - 1) /\ DOMAIN V = 1 .. (Len(R) - 1)
    BY <2>1, <2>2
  <2>4. \A i \in 1 .. (Len(R) - 1) : (IF i < k THEN i ELSE i + 1) \in DOMAIN R
    BY <1>1
  <2>5. Headed(V, U)
    <3>1. ASSUME NEW i \in DOMAIN V
          PROVE  U[i].num = V[i].num /\ U[i].name = V[i].name /\ U[i].listed = V[i].listed
      <4> DEFINE j == IF i < k THEN i ELSE i + 1
      <4>1. i \in 1 .. (Len(R) - 1) /\ j \in DOMAIN R
        BY <2>3, <2>4
      <4>2. U[i] = unticked[j] /\ V[i] = R[j]
        BY <2>1, <2>2, <4>1
      <4> HIDE DEF j
      <4>3. QED
        BY <1>2, <4>1, <4>2 DEF Headed
    <3>2. QED
      BY <2>3, <3>1 DEF Headed
  <2>6. QED
    BY <2>1, <2>5 DEF U, V, Texts
<1>6. rest \in Texts
  BY <1>2, <1>5
<1>7. RemoveSection(R, ref) = IF IsDecimal(ref.num) THEN rest ELSE RenumberAfter(rest, ref.num[1])
  BY DEF RemoveSection, unticked
<1>8. ref.num \in Numbers /\ ref.num[1] \in 1 .. MaxInt
  BY NumberParts DEF Refs
<1>9. RemoveSection(R, ref) \in Texts
  BY <1>6, <1>7, <1>8, RenumberIs
<1>10. ASSUME Tidy(R, ref)
       PROVE  \/ ref.num \notin Numbered(R) /\ Headed(R, RemoveSection(R, ref))
              \/ \E k \in DOMAIN R : /\ R[k].num = ref.num /\ Leading(R, k)
                                     /\ Headed(RemoveAt(R, k), RemoveSection(R, ref))
  <2>1. \A i \in DOMAIN R : i \in named <=> R[i].num = ref.num
    BY <1>10 DEF Tidy, Heading, Written
  <2>2. Headed(rest, RemoveSection(R, ref))
    <3>1. CASE IsDecimal(ref.num)
      BY <1>7, <3>1 DEF Headed
    <3>2. CASE ~IsDecimal(ref.num)
      <4>1. \A i \in DOMAIN R : R[i].num[1] <= ref.num[1]
        <5>1. ASSUME NEW i \in DOMAIN R PROVE R[i].num[1] <= ref.num[1]
          <6>1. ~(R[i].num[1] > ref.num[1])
            BY <1>10, <3>2 DEF Tidy, After, Numbered
          <6>2. R[i].num[1] \in Nat /\ ref.num[1] \in Nat
            BY <1>8, TextIs, NumberParts
          <6>3. QED
            BY <6>1, <6>2
        <5>2. QED
          BY <5>1
      <4>2. \A i \in DOMAIN rest : rest[i].num[1] <= ref.num[1]
        <5>1. CASE named = {}
          BY <4>1, <5>1, <1>2 DEF Headed
        <5>2. CASE named # {}
          <6> DEFINE V == RemoveAt(R, Min(named))
          <6>1. PICK k \in 1 .. Len(R) : k = Min(named)
            BY <5>2, <1>1, <1>3, <1>4
          <6>2. /\ V \in Seq(Entries) /\ Len(V) = Len(R) - 1
                /\ \A i \in 1 .. (Len(R) - 1) : V[i] = R[IF i < k THEN i ELSE i + 1]
            BY <6>1, RemoveAtIs DEF Texts
          <6> HIDE DEF V
          <6>3. \A i \in DOMAIN V : V[i].num[1] <= ref.num[1]
            <7>1. DOMAIN V = 1 .. (Len(R) - 1)
              BY <6>2
            <7>2. \A i \in 1 .. (Len(R) - 1) : (IF i < k THEN i ELSE i + 1) \in DOMAIN R
              BY <1>1
            <7>3. QED
              BY <6>2, <7>1, <7>2, <4>1
          <6>4. Headed(V, rest)
            BY <5>2, <1>5 DEF V
          <6>5. QED
            BY <6>3, <6>4 DEF Headed
        <5>3. QED
          BY <5>1, <5>2
      <4>3. QED
        BY <1>6, <1>7, <1>8, <3>2, <4>2, RenumberIs
    <3>3. QED
      BY <3>1, <3>2
  <2>3. CASE named = {}
    <3>1. ref.num \notin Numbered(R)
      BY <2>1, <2>3 DEF Numbered
    <3>2. Headed(R, rest)
      BY <1>2, <2>3
    <3> HIDE DEF rest
    <3>3. QED
      BY <2>2, <3>1, <3>2, HeadedAgain
  <2>4. CASE named # {}
    <3> DEFINE k == Min(named)
    <3>1. k \in DOMAIN R /\ R[k].num = ref.num
      BY <1>3, <1>4, <2>1, <2>4
    <3>2. Leading(R, k)
      BY <1>3, <2>1, <2>4, <3>1 DEF Leading
    <3>3. Headed(RemoveAt(R, k), rest)
      BY <1>5, <2>4
    <3> HIDE DEF rest, k
    <3>4. QED
      BY <2>2, <3>1, <3>2, <3>3, HeadedAgain
  <2>5. QED
    BY <2>3, <2>4
<1> HIDE DEF rest
<1>11. QED
  BY <1>9, <1>10

----------------------------------------------------------------------------
(* The queue of operations.                                                  *)

LEMMA JobKinds ==
  ASSUME NEW job \in Jobs
  PROVE  /\ job.op \in {"mkdir", "save", "rewrite", "rm", "rename", "excise", "tell", "move", "ship"}
         /\ job.op = "mkdir" => job \in MkdirJobs
         /\ job.op = "save" => job \in SaveJobs
         /\ job.op = "rewrite" => job \in RewriteJobs
         /\ job.op = "rm" => job \in RmJobs
         /\ job.op = "rename" => job \in RenameJobs
         /\ job.op = "excise" => job \in ExciseJobs
         /\ job.op = "tell" => job \in TellJobs
         /\ job.op = "move" => job \in MoveJobs
BY DEF Jobs, MkdirJobs, SaveJobs, RewriteJobs, RmJobs, RenameJobs, ExciseJobs, TellJobs, MoveJobs,
       ShipJobs

LEMMA QueueIs ==
  ASSUME NEW q \in Seq(Jobs)
  PROVE  /\ Len(q) \in Nat /\ DOMAIN q = 1 .. Len(q)
         /\ \A i \in DOMAIN q : q[i] \in Jobs
         /\ q # <<>> => /\ 1 \in DOMAIN q /\ Head(q) = q[1]
                        /\ Tail(q) \in Seq(Jobs) /\ Len(Tail(q)) = Len(q) - 1
                        /\ DOMAIN Tail(q) = 1 .. (Len(q) - 1)
                        /\ \A i \in 1 .. (Len(q) - 1) : i + 1 \in DOMAIN q /\ Tail(q)[i] = q[i + 1]
<1>1. Len(q) \in Nat /\ DOMAIN q = 1 .. Len(q) /\ \A i \in DOMAIN q : q[i] \in Jobs
  OBVIOUS
<1>2. ASSUME q # <<>>
      PROVE  /\ 1 \in DOMAIN q /\ Head(q) = q[1]
             /\ Tail(q) \in Seq(Jobs) /\ Len(Tail(q)) = Len(q) - 1
  BY <1>2
<1>3. ASSUME q # <<>>
      PROVE  /\ DOMAIN Tail(q) = 1 .. (Len(q) - 1)
             /\ \A i \in 1 .. (Len(q) - 1) : i + 1 \in DOMAIN q /\ Tail(q)[i] = q[i + 1]
  <2>1. /\ Tail(q) \in Seq(Jobs) /\ Len(Tail(q)) = Len(q) - 1
        /\ \A i \in 1 .. Len(Tail(q)) : Tail(q)[i] = q[i + 1]
    BY <1>3, HeadTailProperties
  <2>2. QED
    BY <1>1, <2>1
<1>4. QED
  BY <1>1, <1>2, <1>3

\* When the first operation is over, the others stand where they should.
LEMMA AdvanceQueued ==
  ASSUME Typing, Queued, todo # <<>>, Advance,
         \A i \in DOMAIN todo : i # 1 /\ todo[i].op = "rename" => todo[i].left \subseteq PathsOf(dirs')
  PROVE  todo' \in Seq(Jobs) /\ Queued'
<1>1. todo \in Seq(Jobs) /\ todo' = Tail(todo)
  BY DEF Typing, Advance
<1>2. /\ Len(todo) \in Nat /\ DOMAIN todo = 1 .. Len(todo)
      /\ todo' \in Seq(Jobs) /\ Len(todo') = Len(todo) - 1
      /\ DOMAIN todo' = 1 .. (Len(todo) - 1)
      /\ \A i \in 1 .. (Len(todo) - 1) : i + 1 \in DOMAIN todo /\ todo'[i] = todo[i + 1]
  BY <1>1, QueueIs
<1>3. ASSUME NEW i \in DOMAIN todo' PROVE Placed(i)'
  <2>1. i \in Nat /\ i >= 1 /\ i + 1 # 1 /\ i + 1 \in DOMAIN todo /\ todo'[i] = todo[i + 1]
        /\ i <= Len(todo) - 1
    BY <1>2
  <2>2. Placed(i + 1)
    BY <2>1 DEF Queued
  <2> DEFINE job == todo[i + 1]
  <2>3. /\ job.op # "mkdir" /\ job.op # "rm" /\ job.op # "rewrite" /\ job.op # "move"
    BY <2>1, <2>2 DEF Placed
  <2>4. job.op = "save" => i = 1
    BY <2>1, <2>2 DEF Placed
  <2>5. job.op = "rename" => /\ i = 1 /\ job.left # {} /\ job.left \subseteq PathsOf(dirs')
                             /\ \A path \in job.left : After(path[1], job.ref.num)
    BY <2>1, <2>2 DEF Placed
  <2>6. \A j \in 1 .. (i - 1) : j + 1 \in 1 .. (i + 1 - 1) /\ todo'[j] = todo[j + 1]
    BY <1>2, <2>1
  <2>7. job.op = "excise" => i = Len(todo') /\ \A j \in 1 .. (i - 1) : todo'[j].op \in {"rm", "rename"}
    <3>1. job.op = "excise" => i + 1 = Len(todo) /\ \A j \in 1 .. (i + 1 - 1) : todo[j].op \in {"rm", "rename"}
      BY <2>1, <2>2, SMTT(30) DEF Placed
    <3>2. QED
      BY <3>1, <2>1, <2>6, <1>2
  <2>8. job.op = "ship" => i = Len(todo') /\ \A j \in 1 .. (i - 1) : todo'[j].op = "move"
    <3>1. job.op = "ship" => i + 1 = Len(todo) /\ \A j \in 1 .. (i + 1 - 1) : todo[j].op = "move"
      BY <2>1, <2>2, SMTT(30) DEF Placed
    <3>2. QED
      BY <3>1, <2>1, <2>6, <1>2
  <2>9. todo'[i] = job
    BY <2>1
  <2> HIDE DEF job
  <2>10. QED
    BY <2>3, <2>4, <2>5, <2>7, <2>8, <2>9 DEF Placed
<1>4. QED
  BY <1>2, <1>3 DEF Queued

\* The queue stands when no path of a directory goes.
LEMMA SameQueued ==
  ASSUME Queued, UNCHANGED todo, PathsOf(dirs) \subseteq PathsOf(dirs')
  PROVE  Queued'
BY DEF Queued, Placed

LEMMA EmptyQueued ==
  ASSUME todo' = <<>>
  PROVE  todo' \in Seq(Jobs) /\ Queued'
BY DEF Queued

\* Queues of one, two and three operations.
LEMMA OneQueued ==
  ASSUME NEW a \in Jobs, todo' = <<a>>, a.op \in {"excise", "rewrite", "ship"}
  PROVE  todo' \in Seq(Jobs) /\ Queued'
<1>1. todo' \in Seq(Jobs) /\ Len(todo') = 1 /\ DOMAIN todo' = 1 .. 1 /\ todo'[1] = a
  OBVIOUS
<1>2. QED
  BY <1>1 DEF Queued, Placed

LEMMA TwoQueued ==
  ASSUME NEW a \in Jobs, NEW b \in Jobs, todo' = <<a, b>>,
         \/ a.op = "mkdir" /\ b.op = "save"
         \/ a.op = "save" /\ b.op = "tell"
         \/ a.op = "rm" /\ b.op = "excise"
         \/ /\ a.op = "rename" /\ b.op = "excise"
            /\ a.left # {} /\ a.left \subseteq PathsOf(dirs')
            /\ \A path \in a.left : After(path[1], a.ref.num)
         \/ a.op = "move" /\ b.op = "ship" /\ a.left # {} /\ a.left \subseteq PathsOf(dirs')
  PROVE  todo' \in Seq(Jobs) /\ Queued'
<1>1. /\ todo' \in Seq(Jobs) /\ Len(todo') = 2 /\ DOMAIN todo' = 1 .. 2
      /\ todo'[1] = a /\ todo'[2] = b
  OBVIOUS
<1>2. Placed(1)'
  BY <1>1 DEF Placed
<1>3. Placed(2)'
  <2>1. \A j \in 1 .. (2 - 1) : j = 1
    OBVIOUS
  <2>2. QED
    BY <1>1, <2>1 DEF Placed
<1>4. QED
  BY <1>1, <1>2, <1>3 DEF Queued

LEMMA ThreeQueued ==
  ASSUME NEW a \in Jobs, NEW b \in Jobs, NEW c \in Jobs, todo' = <<a, b, c>>,
         a.op = "rm", b.op = "rename", c.op = "excise",
         b.left # {}, b.left \subseteq PathsOf(dirs'),
         \A path \in b.left : After(path[1], b.ref.num) /\ path[1] # a.dir.num
  PROVE  todo' \in Seq(Jobs) /\ Queued'
<1>1. /\ todo' \in Seq(Jobs) /\ Len(todo') = 3 /\ DOMAIN todo' = 1 .. 3
      /\ todo'[1] = a /\ todo'[2] = b /\ todo'[3] = c
  OBVIOUS
<1>2. Placed(1)'
  BY <1>1 DEF Placed
<1>3. Placed(2)'
  BY <1>1 DEF Placed
<1>4. Placed(3)'
  <2>1. \A j \in 1 .. (3 - 1) : j = 1 \/ j = 2
    OBVIOUS
  <2>2. QED
    BY <1>1, <2>1 DEF Placed
<1>5. QED
  BY <1>1, <1>2, <1>3, <1>4 DEF Queued

\* Concatenations of single operations.
LEMMA ConcatNothing ==
  ASSUME NEW a
  PROVE  <<a>> \o <<>> = <<a>> /\ <<>> \o <<a>> = <<a>> /\ <<>> \o <<>> = <<>>
<1>1. <<a>> \in Seq({a}) /\ <<>> \in Seq({a})
  OBVIOUS
<1>2. QED
  BY <1>1, ConcatEmptySeq

LEMMA ConcatPair ==
  ASSUME NEW a, NEW b
  PROVE  <<a>> \o <<b>> = <<a, b>>
<1> DEFINE S == {a, b}
           u == <<a>>
           v == <<b>>
           w == <<a, b>>
<1>1. u \in Seq(S) /\ v \in Seq(S) /\ w \in Seq(S) /\ Len(u) = 1 /\ Len(v) = 1 /\ Len(w) = 2
      /\ u[1] = a /\ v[1] = b /\ w[1] = a /\ w[2] = b
  OBVIOUS
<1> HIDE DEF u, v, w
<1>2. /\ u \o v \in Seq(S) /\ Len(u \o v) = Len(u) + Len(v)
      /\ \A i \in 1 .. (Len(u) + Len(v)) : (u \o v)[i] = IF i <= Len(u) THEN u[i] ELSE v[i - Len(u)]
  BY <1>1, ConcatProperties
<1>3. Len(u \o v) = 2 /\ (u \o v)[1] = a /\ (u \o v)[2] = b
  BY <1>1, <1>2
<1>4. \A i \in 1 .. Len(w) : (u \o v)[i] = w[i]
  <2>1. \A i \in 1 .. Len(w) : i = 1 \/ i = 2
    BY <1>1
  <2>2. QED
    BY <1>1, <1>3, <2>1
<1>5. u \o v = w
  BY <1>1, <1>2, <1>3, <1>4, SeqEqual
<1>6. QED
  BY <1>5 DEF u, v, w

LEMMA ConcatTriple ==
  ASSUME NEW a, NEW b, NEW c
  PROVE  <<a>> \o <<b>> \o <<c>> = <<a, b, c>>
<1> DEFINE S == {a, b, c}
           u == <<a, b>>
           v == <<c>>
           w == <<a, b, c>>
<1>1. u \in Seq(S) /\ v \in Seq(S) /\ w \in Seq(S) /\ Len(u) = 2 /\ Len(v) = 1 /\ Len(w) = 3
      /\ u[1] = a /\ u[2] = b /\ v[1] = c /\ w[1] = a /\ w[2] = b /\ w[3] = c
  OBVIOUS
<1> HIDE DEF u, v, w
<1>2. /\ u \o v \in Seq(S) /\ Len(u \o v) = Len(u) + Len(v)
      /\ \A i \in 1 .. (Len(u) + Len(v)) : (u \o v)[i] = IF i <= Len(u) THEN u[i] ELSE v[i - Len(u)]
  BY <1>1, ConcatProperties
<1>3. Len(u \o v) = 3 /\ (u \o v)[1] = a /\ (u \o v)[2] = b /\ (u \o v)[3] = c
  BY <1>1, <1>2
<1>4. \A i \in 1 .. Len(w) : (u \o v)[i] = w[i]
  <2>1. \A i \in 1 .. Len(w) : i = 1 \/ i = 2 \/ i = 3
    BY <1>1
  <2>2. QED
    BY <1>1, <1>3, <2>1
<1>5. u \o v = w
  BY <1>1, <1>2, <1>3, <1>4, SeqEqual
<1>6. <<a>> \o <<b>> = u
  BY ConcatPair DEF u
<1>7. QED
  BY <1>5, <1>6 DEF v, w

\* The operations of phase remove.
RmOf(ref, force) == [op |-> "rm", dir |-> FirstSorted(ExactDirs(dirs, ref.num)), force |-> force]
RenameOf(ref) == [op |-> "rename", left |-> PathsOf(Later(dirs, ref.num)), ref |-> ref]
ExciseOf(ref) == [op |-> "excise", ref |-> ref]

LEMMA RemovalStepsAre ==
  ASSUME NEW ref, NEW force
  PROVE  LET exact == ExactDirs(dirs, ref.num)
             later == Later(dirs, ref.num)
             q == RemovalSteps(ref, force)
         IN  /\ exact = {} /\ later = {} => q = <<ExciseOf(ref)>>
             /\ exact # {} /\ later = {} => q = <<RmOf(ref, force), ExciseOf(ref)>>
             /\ exact = {} /\ later # {} => q = <<RenameOf(ref), ExciseOf(ref)>>
             /\ exact # {} /\ later # {} => q = <<RmOf(ref, force), RenameOf(ref), ExciseOf(ref)>>
<1> DEFINE exact == ExactDirs(dirs, ref.num)
           later == Later(dirs, ref.num)
           q == RemovalSteps(ref, force)
           rm == IF exact = {} THEN <<>> ELSE <<RmOf(ref, force)>>
           ren == IF later = {} THEN <<>> ELSE <<RenameOf(ref)>>
           exc == <<ExciseOf(ref)>>
<1>1. q = rm \o ren \o exc
  <2>1. Target(ref.num) = {} <=> exact = {}
    BY DEF Target, FirstOf
  <2>2. PathsOf(later) = {} <=> later = {}
    BY DEF PathsOf
  <2>3. {Path(d) : d \in Later(dirs, ref.num)} = PathsOf(later)
    BY DEF PathsOf
  <2>4. QED
    BY <2>1, <2>2, <2>3 DEF RemovalSteps, RmOf, RenameOf, ExciseOf
<1>2. exact = {} => rm = <<>>
  OBVIOUS
<1>3. exact # {} => rm = <<RmOf(ref, force)>>
  OBVIOUS
<1>4. later = {} => ren = <<>>
  OBVIOUS
<1>5. later # {} => ren = <<RenameOf(ref)>>
  OBVIOUS
<1> HIDE DEF q, rm, ren, exact, later, RmOf, RenameOf, ExciseOf
<1>6. \A a, b, c : /\ <<a>> \o <<b>> \o <<c>> = <<a, b, c>>
                   /\ <<a>> \o <<>> \o <<b>> = <<a, b>>
                   /\ <<>> \o <<a>> \o <<b>> = <<a, b>>
                   /\ <<>> \o <<>> \o <<a>> = <<a>>
  BY ConcatPair, ConcatTriple, ConcatNothing
<1>7. exact = {} /\ later = {} => q = <<ExciseOf(ref)>>
  BY <1>1, <1>2, <1>4, <1>6 DEF exc
<1>8. exact # {} /\ later = {} => q = <<RmOf(ref, force), ExciseOf(ref)>>
  BY <1>1, <1>3, <1>4, <1>6 DEF exc
<1>9. exact = {} /\ later # {} => q = <<RenameOf(ref), ExciseOf(ref)>>
  BY <1>1, <1>2, <1>5, <1>6 DEF exc
<1>10. exact # {} /\ later # {} => q = <<RmOf(ref, force), RenameOf(ref), ExciseOf(ref)>>
  BY <1>1, <1>3, <1>5, <1>6 DEF exc
<1>11. QED
  BY <1>7, <1>8, <1>9, <1>10 DEF exact, later, q

\* What they take is there.
LEMMA RemovalJobs ==
  ASSUME dirs \subseteq Dirs, NEW ref \in Refs, NEW force \in BOOLEAN
  PROVE  /\ ExciseOf(ref) \in Jobs
         /\ ExactDirs(dirs, ref.num) # {} =>
              /\ RmOf(ref, force) \in Jobs /\ RmOf(ref, force).dir \in dirs
              /\ RmOf(ref, force).dir.num = ref.num
         /\ RenameOf(ref) \in Jobs
         /\ RenameOf(ref).left \subseteq PathsOf(dirs)
         /\ \A path \in RenameOf(ref).left : After(path[1], ref.num) /\ path[1] # ref.num
<1>1. ExciseOf(ref) \in Jobs
  BY DEF ExciseOf, Jobs, ExciseJobs
<1>2. ASSUME ExactDirs(dirs, ref.num) # {}
      PROVE  /\ RmOf(ref, force) \in Jobs /\ RmOf(ref, force).dir \in dirs
             /\ RmOf(ref, force).dir.num = ref.num
  <2>1. ExactDirs(dirs, ref.num) \in SUBSET Dirs
    BY DEF ExactDirs
  <2>2. FirstSorted(ExactDirs(dirs, ref.num)) \in ExactDirs(dirs, ref.num)
    BY <1>2, <2>1, FirstSortedIs
  <2>3. FirstSorted(ExactDirs(dirs, ref.num)) \in dirs
        /\ FirstSorted(ExactDirs(dirs, ref.num)).num = ref.num
    BY <2>2 DEF ExactDirs
  <2>4. RmOf(ref, force) \in RmJobs
    BY <2>3 DEF RmOf, RmJobs
  <2>5. QED
    BY <2>3, <2>4 DEF RmOf, Jobs
<1>3. Later(dirs, ref.num) \subseteq dirs
  BY DEF Later
<1>4. PathsOf(Later(dirs, ref.num)) \subseteq PathsOf(dirs) /\ PathsOf(dirs) \subseteq Paths
  BY <1>3 DEF PathsOf, Path, Paths, Dirs
<1>5. RenameOf(ref) \in RenameJobs
  BY <1>4 DEF RenameOf, RenameJobs
<1>6. ASSUME NEW path \in RenameOf(ref).left PROVE After(path[1], ref.num) /\ path[1] # ref.num
  <2>1. PICK d \in Later(dirs, ref.num) : path = Path(d)
    BY DEF RenameOf, PathsOf
  <2>2. path[1] = d.num
    BY <2>1 DEF Path
  <2>3. After(d.num, ref.num)
    BY <2>1 DEF Later, After
  <2>4. d.num \in Numbers /\ ref.num \in Numbers
    BY <1>3, <2>1 DEF Dirs, Refs
  <2>5. After(d.num, ref.num) => d.num # ref.num
    BY <2>4, NumberParts DEF After
  <2>6. QED
    BY <2>2, <2>3, <2>5
<1>7. QED
  BY <1>1, <1>2, <1>4, <1>5, <1>6 DEF RenameOf, Jobs

----------------------------------------------------------------------------
(* Types.                                                                    *)

Shaped == Typing /\ Queued

LEMMA ShapedInit == Init => Shaped
<1> SUFFICES ASSUME Init PROVE Shaped
  OBVIOUS
<1>1. Len(Outline) \in Nat /\ Len(Outline) <= MaxInt /\ DOMAIN Outline = 1 .. Len(Outline)
      /\ \A i \in 1 .. Len(Outline) : Outline[i] \in Names
  BY PhasesAssumption
<1>2. \A i \in 1 .. Len(Outline) : <<i, 0>> \in Numbers /\ <<i - 1, 0>> \in (0 .. MaxInt) \X (0 .. MaxDec)
  BY <1>1, RoadmapAssumption DEF Numbers
<1>3. roadmap \in Texts
  <2> DEFINE Sec(i) == NewSection(<<i, 0>>, Outline[i],
                         IF i = 1 THEN NoDep ELSE [num |-> <<i - 1, 0>>, pad |-> FALSE], TRUE)
  <2>1. ASSUME NEW i \in 1 .. Len(Outline) PROVE Sec(i) \in Entries
    <3>1. (IF i = 1 THEN NoDep ELSE [num |-> <<i - 1, 0>>, pad |-> FALSE])
            \in [num : (0 .. MaxInt) \X (0 .. MaxDec), pad : BOOLEAN]
      <4>1. <<0, 0>> \in (0 .. MaxInt) \X (0 .. MaxDec)
        BY RoadmapAssumption
      <4>2. NoDep \in [num : (0 .. MaxInt) \X (0 .. MaxDec), pad : BOOLEAN]
        BY <4>1 DEF NoDep
      <4>3. [num |-> <<i - 1, 0>>, pad |-> FALSE] \in [num : (0 .. MaxInt) \X (0 .. MaxDec), pad : BOOLEAN]
        BY <1>2
      <4>4. QED
        BY <4>2, <4>3
    <3>2. QED
      BY <1>1, <1>2, <3>1 DEF Entries, Sections, NewSection, IsDecimal
  <2>2. roadmap = [i \in 1 .. Len(Outline) |-> Sec(i)]
    BY <1>1 DEF Init, FromTemplate
  <2> HIDE DEF Sec
  <2>3. [i \in 1 .. Len(Outline) |-> Sec(i)] \in Seq(Entries)
    BY <1>1, <2>1
  <2>4. QED
    BY <2>2, <2>3 DEF Texts
<1>4. dirs \subseteq Dirs
  <2>1. PICK k \in 0 .. Len(Outline), planned \in 0 .. 1 :
          dirs = {[NewDir(<<i, 0>>, Outline[i]) EXCEPT !.plans = planned] : i \in 1 .. k}
    BY DEF Init
  <2>2. ASSUME NEW i \in 1 .. k PROVE [NewDir(<<i, 0>>, Outline[i]) EXCEPT !.plans = planned] \in Dirs
    <3>1. i \in 1 .. Len(Outline) /\ planned \in 0 .. MaxPlans /\ 0 \in 0 .. MaxPlans
      BY <1>1, RoadmapAssumption
    <3>2. QED
      BY <1>1, <1>2, <3>1 DEF Dirs, NewDir, Prep
  <2>3. QED
    BY <2>1, <2>2
<1>5. archive = {} /\ todo = <<>> /\ todo \in Seq(Jobs) /\ said.last \in BOOLEAN /\ shipped = FALSE
      /\ marred = {}
  BY DEF Init, Unsaid
<1>6. ops \in 0 .. MaxOps /\ work \in 0 .. MaxWork /\ faults \in 0 .. MaxFaults
  BY PhasesAssumption DEF Init
<1>7. held \in [Executors -> HeldJobs]
  BY DEF Init, HeldJobs
<1>8. Typing
  BY <1>3, <1>4, <1>5, <1>6, <1>7 DEF Typing
<1>9. Queued
  BY <1>5 DEF Queued
<1>10. QED
  BY <1>8, <1>9 DEF Shaped

\* A command begins.
LEMMA TypingBegin ==
  ASSUME Typing, NEW queue, Begin(queue), ops < MaxOps, Idle, todo' \in Seq(Jobs),
         marred' \subseteq marred \cup {"renumber"}
  PROVE  Typing'
<1>1. ops' \in 0 .. MaxOps
  BY PhasesAssumption DEF Typing, Begin
<1>2. shipped' => todo' = <<>>
  BY DEF Begin, Idle
<1>3. marred' \subseteq {"renumber", "stale", "race", "cut", "crash"}
  BY DEF Typing
<1>4. QED
  BY <1>1, <1>2, <1>3 DEF Typing, Begin

LEMMA SaveJobIs ==
  ASSUME NEW text \in Texts, roadmap \in Texts
  PROVE  /\ Save(text) \in SaveJobs /\ Save(text) \in Jobs /\ Save(text).op = "save"
         /\ Save(text).text = text /\ Save(text).base = roadmap
BY DEF Save, SaveJobs, Jobs

LEMMA MkdirJobIs ==
  ASSUME NEW num \in Numbers, NEW name \in Names
  PROVE  /\ Mkdir(num, name) \in MkdirJobs /\ Mkdir(num, name) \in Jobs
         /\ Mkdir(num, name).op = "mkdir" /\ Path(Mkdir(num, name).dir) = <<num, name>>
         /\ Mkdir(num, name).dir.num = num
<1>1. NewDir(num, name) \in Dirs
  BY RoadmapAssumption DEF NewDir, Dirs, Prep
<1>2. QED
  BY <1>1 DEF Mkdir, MkdirJobs, Jobs, Path, NewDir

LEMMA ShapedPhaseAdd ==
  ASSUME Shaped, Idle, ops < MaxOps, NEW name \in Names, PhaseAdd(name)
  PROVE  Shaped'
<1>1. <<NextInteger(roadmap), 0>> \in Numbers /\ AddSection(roadmap, name) \in Texts
  BY AddSectionIs DEF Shaped, Typing, PhaseAdd
<1>2. /\ Mkdir(<<NextInteger(roadmap), 0>>, name) \in Jobs
      /\ Mkdir(<<NextInteger(roadmap), 0>>, name).op = "mkdir"
      /\ Save(AddSection(roadmap, name)) \in Jobs /\ Save(AddSection(roadmap, name)).op = "save"
  BY <1>1, SaveJobIs, MkdirJobIs DEF Shaped, Typing
<1>3. todo' = <<Mkdir(<<NextInteger(roadmap), 0>>, name), Save(AddSection(roadmap, name))>>
  BY DEF PhaseAdd, Begin
<1>4. todo' \in Seq(Jobs) /\ Queued'
  BY <1>2, <1>3, TwoQueued
<1>5. QED
  BY <1>4, TypingBegin DEF PhaseAdd, Shaped

LEMMA ShapedPhaseInsert ==
  ASSUME Shaped, Idle, ops < MaxOps, NEW ref \in Refs, NEW name \in Names, PhaseInsert(ref, name)
  PROVE  Shaped'
<1> DEFINE num == <<ref.num[1], NextDecimal(dirs, ref.num[1])>>
<1>1. num \in Numbers /\ ref.num \in Numbered(roadmap)
  <2>1. ref.num[1] \in 1 .. MaxInt
    BY NumberParts DEF Refs
  <2>2. NextDecimal(dirs, ref.num[1]) \in Nat \ {0}
    BY <2>1, NextDecimalIs DEF Shaped, Typing
  <2>3. NextDecimal(dirs, ref.num[1]) <= MaxDec
    BY DEF PhaseInsert
  <2>4. QED
    BY <2>1, <2>2, <2>3, RoadmapAssumption DEF Numbers, PhaseInsert
<1>2. Begin(<<Mkdir(num, name), Save(InsertSection(roadmap, ref, num, name))>>) /\ UNCHANGED marred
  BY DEF PhaseInsert
<1> HIDE DEF num
<1>3. InsertSection(roadmap, ref, num, name) \in Texts
  BY <1>1, InsertSectionIs DEF Shaped, Typing, Inserted
<1>4. /\ Mkdir(num, name) \in Jobs /\ Mkdir(num, name).op = "mkdir"
      /\ Save(InsertSection(roadmap, ref, num, name)) \in Jobs
      /\ Save(InsertSection(roadmap, ref, num, name)).op = "save"
  BY <1>1, <1>3, SaveJobIs, MkdirJobIs DEF Shaped, Typing
<1>5. todo' = <<Mkdir(num, name), Save(InsertSection(roadmap, ref, num, name))>>
  BY <1>2 DEF Begin
<1>6. todo' \in Seq(Jobs) /\ Queued'
  BY <1>4, <1>5, TwoQueued
<1>7. QED
  BY <1>2, <1>6, TypingBegin DEF Shaped

LEMMA ShapedPhaseRemove ==
  ASSUME Shaped, Idle, ops < MaxOps, NEW ref \in Refs, NEW force \in BOOLEAN, PhaseRemove(ref, force)
  PROVE  Shaped'
<1> DEFINE exact == ExactDirs(dirs, ref.num)
           later == Later(dirs, ref.num)
<1>1. todo' = RemovalSteps(ref, force) /\ Begin(RemovalSteps(ref, force))
  BY DEF PhaseRemove, Begin
<1>2. /\ ExciseOf(ref) \in Jobs
      /\ exact # {} => RmOf(ref, force) \in Jobs /\ RmOf(ref, force).dir.num = ref.num
      /\ RenameOf(ref) \in Jobs /\ RenameOf(ref).left \subseteq PathsOf(dirs)
      /\ \A path \in RenameOf(ref).left : After(path[1], ref.num) /\ path[1] # ref.num
  BY RemovalJobs DEF Shaped, Typing
<1>3. later # {} => RenameOf(ref).left # {}
  BY DEF RenameOf, PathsOf
<1>4. /\ ExciseOf(ref).op = "excise" /\ RmOf(ref, force).op = "rm" /\ RenameOf(ref).op = "rename"
      /\ RenameOf(ref).ref = ref
  BY DEF ExciseOf, RmOf, RenameOf
<1>5. UNCHANGED dirs
  BY <1>1 DEF Begin
<1>6. /\ exact = {} /\ later = {} => todo' = <<ExciseOf(ref)>>
      /\ exact # {} /\ later = {} => todo' = <<RmOf(ref, force), ExciseOf(ref)>>
      /\ exact = {} /\ later # {} => todo' = <<RenameOf(ref), ExciseOf(ref)>>
      /\ exact # {} /\ later # {} => todo' = <<RmOf(ref, force), RenameOf(ref), ExciseOf(ref)>>
  BY <1>1, RemovalStepsAre
<1> HIDE DEF exact, later
<1>7. todo' \in Seq(Jobs) /\ Queued'
  <2>1. CASE exact = {} /\ later = {}
    BY <2>1, <1>2, <1>4, <1>6, OneQueued
  <2>2. CASE exact # {} /\ later = {}
    BY <2>2, <1>2, <1>4, <1>6, TwoQueued
  <2>3. CASE exact = {} /\ later # {}
    BY <2>3, <1>2, <1>3, <1>4, <1>5, <1>6, TwoQueued
  <2>4. CASE exact # {} /\ later # {}
    BY <2>4, <1>2, <1>3, <1>4, <1>5, <1>6, ThreeQueued
  <2>5. QED
    BY <2>1, <2>2, <2>3, <2>4
<1>8. marred' \subseteq marred \cup {"renumber"}
  BY DEF PhaseRemove
<1>9. QED
  BY <1>1, <1>7, <1>8, TypingBegin DEF Shaped

LEMMA ShapedPhaseComplete ==
  ASSUME Shaped, Idle, ops < MaxOps, NEW ref \in Refs, PhaseComplete(ref)
  PROVE  Shaped'
<1> DEFINE a == Save(Tick(roadmap, ref))
           b == [op |-> "tell", num |-> ref.num]
<1>1. todo' = <<a, b>> /\ Begin(<<a, b>>) /\ UNCHANGED marred
  BY DEF PhaseComplete, Begin
<1>2. a \in Jobs /\ a.op = "save"
  BY TickIs, SaveJobIs DEF Shaped, Typing
<1>3. b \in Jobs /\ b.op = "tell"
  BY DEF Jobs, TellJobs, Refs
<1> HIDE DEF a, b
<1>4. todo' \in Seq(Jobs) /\ Queued'
  BY <1>1, <1>2, <1>3, TwoQueued
<1>5. QED
  BY <1>1, <1>4, TypingBegin DEF Shaped

LEMMA ShapedMilestone ==
  ASSUME Shaped, Idle, ops < MaxOps, MilestoneComplete
  PROVE  Shaped'
<1> DEFINE a == [op |-> "move", left |-> PathsOf(Mine)]
           b == [op |-> "ship"]
<1>1. /\ Begin(todo') /\ UNCHANGED marred /\ UNCHANGED dirs
      /\ todo' = <<>> \/ todo' = Shipping(Mine)
  BY DEF MilestoneComplete, Begin
<1>2. todo' = <<>> \/ todo' = IF Mine = {} THEN <<b>> ELSE <<a, b>>
  BY <1>1, ConcatNothing, ConcatPair DEF Shipping, PathsOf
<1>3. b \in Jobs /\ b.op = "ship"
  BY DEF Jobs, ShipJobs
<1>4. a \in Jobs /\ a.op = "move" /\ (Mine # {} => a.left # {}) /\ a.left \subseteq PathsOf(dirs)
  <2>1. Mine \subseteq dirs
    BY DEF Mine
  <2>2. PathsOf(Mine) \subseteq PathsOf(dirs) /\ PathsOf(dirs) \subseteq Paths /\ (Mine # {} => PathsOf(Mine) # {})
    <3>1. PathsOf(Mine) \subseteq PathsOf(dirs) /\ (Mine # {} => PathsOf(Mine) # {})
      BY <2>1 DEF PathsOf
    <3>2. \A d \in dirs : d.num \in Numbers /\ d.name \in Names
      BY DEF Dirs, Shaped, Typing
    <3>3. PathsOf(dirs) \subseteq Paths
      BY <3>2 DEF PathsOf, Path, Paths
    <3>4. QED
      BY <3>1, <3>3
  <2>3. QED
    BY <2>2 DEF Jobs, MoveJobs
<1> HIDE DEF a, b
<1>5. todo' \in Seq(Jobs) /\ Queued'
  <2>1. CASE todo' = <<>>
    BY <2>1 DEF Queued
  <2>2. CASE todo' = <<b>>
    BY <2>2, <1>3, OneQueued
  <2>3. CASE Mine # {} /\ todo' = <<a, b>>
    BY <2>3, <1>1, <1>3, <1>4, TwoQueued
  <2>4. QED
    BY <1>2, <2>1, <2>2, <2>3
<1>6. QED
  BY <1>1, <1>5, TypingBegin DEF Shaped

LEMMA ShapedCommand == Shaped /\ Command => Shaped'
<1> SUFFICES ASSUME Shaped, Command PROVE Shaped'
  OBVIOUS
<1>1. Idle /\ ops < MaxOps
  BY DEF Command
<1>2. CASE \E name \in Names : PhaseAdd(name)
  BY <1>1, <1>2, ShapedPhaseAdd
<1>3. CASE \E ref \in Refs, name \in Names : PhaseInsert(ref, name)
  BY <1>1, <1>3, ShapedPhaseInsert
<1>4. CASE \E ref \in Refs, force \in BOOLEAN : PhaseRemove(ref, force)
  BY <1>1, <1>4, ShapedPhaseRemove
<1>5. CASE \E ref \in Refs : PhaseComplete(ref)
  BY <1>1, <1>5, ShapedPhaseComplete
<1>6. CASE MilestoneComplete
  BY <1>1, <1>6, ShapedMilestone
<1>7. QED
  BY <1>2, <1>3, <1>4, <1>5, <1>6 DEF Command

\* An operation on several directories takes one: the others are still there.
LEMMA AdvancePastQueued ==
  ASSUME Typing, Queued, todo # <<>>, todo[1].op \in {"rename", "move"},
         NEW path \in todo[1].left, AdvancePast(path),
         todo[1].left \ {path} \subseteq PathsOf(dirs')
  PROVE  todo' \in Seq(Jobs) /\ Queued'
<1>1. /\ todo \in Seq(Jobs) /\ Len(todo) \in Nat /\ DOMAIN todo = 1 .. Len(todo)
      /\ 1 \in DOMAIN todo /\ Head(todo) = todo[1] /\ todo[1] \in Jobs
  BY QueueIs DEF Typing
<1>2. Placed(1)
  BY <1>1 DEF Queued
<1>3. ASSUME NEW i \in DOMAIN todo, i # 1 PROVE todo[i].op # "rename" /\ todo[i].op # "move"
  BY <1>1, <1>3 DEF Queued, Placed
<1>4. CASE todo[1].left = {path}
  <2>1. Advance
    BY <1>1, <1>4 DEF AdvancePast, Advance, Now
  <2>2. QED
    BY <1>3, <2>1, AdvanceQueued
<1>5. CASE todo[1].left # {path}
  <2> DEFINE job == [todo[1] EXCEPT !.left = todo[1].left \ {path}]
  <2>1. todo' = [todo EXCEPT ![1] = job]
    BY <1>1, <1>5 DEF AdvancePast, Now
  <2>2. /\ job \in Jobs /\ job.op = todo[1].op /\ job.left = todo[1].left \ {path}
        /\ job.op = "rename" => job.ref = todo[1].ref
    <3>1. CASE todo[1].op = "rename"
      <4>1. todo[1] \in RenameJobs
        BY <3>1, <1>1, JobKinds
      <4>2. job \in RenameJobs
        BY <4>1 DEF RenameJobs
      <4>3. QED
        BY <4>1, <4>2 DEF RenameJobs, Jobs
    <3>2. CASE todo[1].op = "move"
      <4>1. todo[1] \in MoveJobs
        BY <3>2, <1>1, JobKinds
      <4>2. job \in MoveJobs
        BY <4>1 DEF MoveJobs
      <4>3. QED
        BY <4>1, <4>2, <3>2 DEF MoveJobs, Jobs
    <3>3. QED
      BY <3>1, <3>2
  <2> HIDE DEF job
  <2>3. /\ todo' \in Seq(Jobs) /\ Len(todo') = Len(todo) /\ DOMAIN todo' = DOMAIN todo
        /\ todo'[1] = job
        /\ \A i \in DOMAIN todo : i # 1 => todo'[i] = todo[i]
    BY <1>1, <2>1, <2>2
  <2>4. job.left # {} /\ job.left \subseteq PathsOf(dirs')
    BY <1>5, <2>2
  <2>5. ASSUME NEW i \in DOMAIN todo' PROVE todo'[i].op = todo[i].op
    BY <2>2, <2>3
  <2>6. \A j \in 1 .. (Len(todo) - 1) : j \in DOMAIN todo'
    BY <1>1, <2>3
  <2>7. ASSUME NEW i \in DOMAIN todo' PROVE Placed(i)'
    <3>1. Placed(i) /\ i \in 1 .. Len(todo)
      BY <1>1, <2>3 DEF Queued
    <3>2. todo'[i].op = "rename" => i = 1 /\ \A p \in todo'[i].left : After(p[1], todo'[i].ref.num)
      <4>1. todo'[i].op = "rename" => i = 1
        BY <2>3, <2>5, <1>3
      <4>2. i = 1 /\ job.op = "rename" => \A p \in todo[1].left : After(p[1], todo[1].ref.num)
        BY <1>2, <2>2 DEF Placed
      <4>3. QED
        BY <4>1, <4>2, <2>2, <2>3
    <3>3. todo'[i].op = "move" => i = 1 /\ Len(todo') = 2 /\ todo'[2].op = "ship"
      <4>1. todo'[i].op = "move" => i = 1 /\ Len(todo) = 2 /\ todo[2].op = "ship"
        BY <3>1, <2>5 DEF Placed
      <4>2. Len(todo) = 2 => 2 \in DOMAIN todo'
        BY <1>1, <2>3
      <4>3. QED
        BY <4>1, <4>2, <2>3, <2>5
    <3>4. \A j \in 1 .. (i - 1) : j \in DOMAIN todo' /\ todo'[j].op = todo[j].op
      BY <3>1, <2>6, <2>5, <1>1
    <3>5. todo'[i].op = "mkdir" \/ todo'[i].op = "rm" => i = 1
      BY <3>1, <2>5 DEF Placed
    <3>6. todo'[i].op = "save" => i = 1
      <4>1. todo[i].op = "save" => i = 1 \/ todo[1].op = "mkdir"
        BY <3>1 DEF Placed
      <4>2. QED
        BY <4>1, <2>5
    <3>7. /\ todo'[i].op = "excise" => i = Len(todo') /\ \A j \in 1 .. (i - 1) : todo'[j].op \in {"rm", "rename"}
          /\ todo'[i].op = "rewrite" => i = 1 /\ Len(todo') = 1
          /\ todo'[i].op = "ship" => i = Len(todo') /\ \A j \in 1 .. (i - 1) : todo'[j].op = "move"
      <4>1. /\ todo[i].op = "excise" => i = Len(todo) /\ \A j \in 1 .. (i - 1) : todo[j].op \in {"rm", "rename"}
            /\ todo[i].op = "rewrite" => i = 1 /\ Len(todo) = 1
            /\ todo[i].op = "ship" => i = Len(todo) /\ \A j \in 1 .. (i - 1) : todo[j].op = "move"
        BY <3>1, SMTT(30) DEF Placed
      <4>2. QED
        BY <4>1, <3>4, <2>3, <2>5
    <3>8. todo'[i].op \in {"rename", "move"} => todo'[i].left # {} /\ todo'[i].left \subseteq PathsOf(dirs')
      BY <3>2, <3>3, <2>3, <2>4
    <3>9. QED
      BY <3>2, <3>3, <3>5, <3>6, <3>7, <3>8 DEF Placed
  <2>8. QED
    BY <2>3, <2>7 DEF Queued
<1>6. QED
  BY <1>4, <1>5

\* A directory that a path names.
LEMMA NamedDir ==
  ASSUME NEW path \in PathsOf(dirs)
  PROVE  LET d == CHOOSE d \in dirs : Path(d) = path IN d \in dirs /\ Path(d) = path
BY DEF PathsOf

\* The first operation.
LEMMA NowIs ==
  ASSUME Shaped, todo # <<>>
  PROVE  /\ Now = todo[1] /\ todo[1] \in Jobs /\ Placed(1) /\ 1 \in DOMAIN todo
         /\ todo \in Seq(Jobs) /\ ~shipped /\ Len(todo) \in Nat /\ DOMAIN todo = 1 .. Len(todo)
<1>1. todo \in Seq(Jobs)
  BY DEF Shaped, Typing
<1>2. QED
  BY <1>1, QueueIs DEF Shaped, Typing, Queued, Now

LEMMA ShapedMkdir == Shaped /\ DoMkdir => Shaped'
<1> SUFFICES ASSUME Shaped, DoMkdir PROVE Shaped'
  OBVIOUS
<1>1. todo # <<>> /\ Now.op = "mkdir" /\ Advance
  BY DEF DoMkdir, Doing
<1>2. Now \in MkdirJobs /\ ~shipped
  BY <1>1, NowIs, JobKinds
<1>3. dirs \subseteq dirs' /\ dirs' \subseteq Dirs
  BY <1>2 DEF DoMkdir, MkdirJobs, Shaped, Typing
<1>4. PathsOf(dirs) \subseteq PathsOf(dirs')
  BY <1>3 DEF PathsOf
<1>5. todo' \in Seq(Jobs) /\ Queued'
  <2>1. \A i \in DOMAIN todo : todo[i].op = "rename" => todo[i].left \subseteq PathsOf(dirs')
    BY <1>4 DEF Shaped, Queued, Placed
  <2>2. QED
    BY <1>1, <2>1, AdvanceQueued DEF Shaped
<1>6. QED
  BY <1>2, <1>3, <1>5 DEF Shaped, Typing, DoMkdir, Same

\* An operation that leaves the directories alone.
LEMMA QuietQueued ==
  ASSUME Shaped, todo # <<>>, Advance, UNCHANGED dirs
  PROVE  todo' \in Seq(Jobs) /\ Queued'
<1>1. \A i \in DOMAIN todo : todo[i].op = "rename" => todo[i].left \subseteq PathsOf(dirs')
  BY DEF Shaped, Queued, Placed
<1>2. QED
  BY <1>1, AdvanceQueued DEF Shaped

LEMMA ShapedSave == Shaped /\ DoSave => Shaped'
<1> SUFFICES ASSUME Shaped, DoSave PROVE Shaped'
  OBVIOUS
<1>1. todo # <<>> /\ Now.op \in {"save", "rewrite"} /\ Advance
  BY DEF DoSave, Doing
<1>2. Now.text \in Texts /\ ~shipped
  BY <1>1, NowIs, JobKinds DEF SaveJobs, RewriteJobs
<1>3. todo' \in Seq(Jobs) /\ Queued'
  BY <1>1, QuietQueued DEF DoSave
<1>4. marred' \subseteq marred \cup {"stale"}
  BY DEF DoSave, Overwrites
<1>5. QED
  BY <1>2, <1>3, <1>4 DEF Shaped, Typing, DoSave, Same

LEMMA ShapedRm == Shaped /\ DoRm => Shaped'
<1> SUFFICES ASSUME Shaped, DoRm PROVE Shaped'
  OBVIOUS
<1>1. todo # <<>> /\ Now.op = "rm" /\ Advance
  BY DEF DoRm, Doing
<1>2. Now = todo[1] /\ ~shipped /\ dirs' = dirs \ At(dirs, Now.dir)
  BY <1>1, NowIs DEF DoRm
<1>3. ASSUME NEW i \in DOMAIN todo, i # 1, todo[i].op = "rename"
      PROVE  todo[i].left \subseteq PathsOf(dirs')
  <2>1. todo[i].left \subseteq PathsOf(dirs) /\ \A path \in todo[i].left : path[1] # todo[1].dir.num
    BY <1>3 DEF Shaped, Queued, Placed
  <2>2. ASSUME NEW path \in todo[i].left PROVE path \in PathsOf(dirs')
    <3>1. PICK d \in dirs : path = Path(d)
      BY <2>1 DEF PathsOf
    <3>2. d \notin At(dirs, Now.dir)
      BY <2>1, <3>1, <1>2 DEF At, Path
    <3>3. QED
      BY <1>2, <3>1, <3>2 DEF PathsOf
  <2>3. QED
    BY <2>2
<1>4. todo' \in Seq(Jobs) /\ Queued'
  BY <1>1, <1>3, AdvanceQueued DEF Shaped
<1>5. marred' \subseteq marred \cup {"race"}
  BY DEF DoRm
<1>6. QED
  BY <1>2, <1>4, <1>5 DEF Shaped, Typing, DoRm, Same

\* A number that goes down by one is a number still.
LEMMA LoweredIs ==
  ASSUME NEW num \in Numbers, NEW removed \in Numbers, After(num, removed)
  PROVE  Lowered(num, removed) \in Numbers
<1>1. /\ num[1] \in 1 .. MaxInt /\ num[2] \in 0 .. MaxDec
      /\ removed[1] \in 1 .. MaxInt /\ removed[2] \in 0 .. MaxDec
  BY NumberParts
<1>2. CASE IsDecimal(removed)
  <2>1. num[2] > removed[2] /\ Lowered(num, removed) = <<num[1], num[2] - 1>>
    BY <1>2 DEF After, Lowered
  <2>2. num[2] - 1 \in 0 .. MaxDec
    BY <1>1, <2>1, RoadmapAssumption
  <2>3. QED
    BY <1>1, <2>1, <2>2 DEF Numbers
<1>3. CASE ~IsDecimal(removed)
  <2>1. num[1] > removed[1] /\ Lowered(num, removed) = <<num[1] - 1, num[2]>>
    BY <1>3 DEF After, Lowered
  <2>2. num[1] - 1 \in 1 .. MaxInt
    BY <1>1, <2>1, RoadmapAssumption
  <2>3. QED
    BY <1>1, <2>1, <2>2 DEF Numbers
<1>4. QED
  BY <1>2, <1>3

LEMMA ShapedRename == Shaped /\ DoRename => Shaped'
<1> SUFFICES ASSUME Shaped, DoRename PROVE Shaped'
  OBVIOUS
<1>1. todo # <<>> /\ Now.op = "rename"
  BY DEF DoRename, Doing
<1>2. /\ Now = todo[1] /\ todo[1] \in RenameJobs /\ Placed(1) /\ ~shipped /\ todo[1].op = "rename"
      /\ dirs \subseteq Dirs
  BY <1>1, NowIs, JobKinds DEF Shaped, Typing
<1>3. /\ todo[1].left \subseteq PathsOf(dirs) /\ todo[1].ref \in Refs
      /\ \A path \in todo[1].left : After(path[1], todo[1].ref.num)
  BY <1>2 DEF Placed, RenameJobs
<1>4. PICK path \in todo[1].left :
        LET num == Lowered(path[1], todo[1].ref.num)
            from == CHOOSE d \in dirs : Path(d) = path
            there == {d \in dirs : Path(d) = <<num, path[2]>>}
        IN  \/ /\ dirs' = (dirs \ ({from} \cup there)) \cup {[from EXCEPT !.num = num]}
               /\ AdvancePast(path)
            \/ Advance /\ UNCHANGED dirs
  BY <1>2 DEF DoRename
<1> DEFINE num == Lowered(path[1], todo[1].ref.num)
           from == CHOOSE d \in dirs : Path(d) = path
           there == {d \in dirs : Path(d) = <<num, path[2]>>}
           to == [from EXCEPT !.num = num]
<1>5. from \in dirs /\ Path(from) = path
  BY <1>3, NamedDir
<1>6. \/ dirs' = (dirs \ ({from} \cup there)) \cup {to} /\ AdvancePast(path)
      \/ Advance /\ UNCHANGED dirs
  BY <1>4
<1>7. num \in Numbers
  <2>1. path[1] \in Numbers /\ todo[1].ref.num \in Numbers
    BY <1>2, <1>3, <1>5 DEF Path, Dirs, Refs
  <2>2. QED
    BY <1>3, <2>1, LoweredIs
<1> HIDE DEF num, from
<1>8. to \in Dirs /\ Path(to) = <<num, path[2]>>
  BY <1>2, <1>5, <1>7 DEF Dirs, Path
<1>9. dirs' \subseteq Dirs /\ todo' \in Seq(Jobs) /\ Queued'
  <2>1. CASE dirs' = (dirs \ ({from} \cup there)) \cup {to} /\ AdvancePast(path)
    <3>1. dirs' \subseteq Dirs
      BY <1>2, <1>8, <2>1
    <3>2. ASSUME NEW p \in todo[1].left \ {path} PROVE p \in PathsOf(dirs')
      <4>1. PICK d \in dirs : p = Path(d)
        BY <1>3 DEF PathsOf
      <4>2. d # from
        BY <1>5, <4>1
      <4>3. CASE d \in there
        BY <1>8, <2>1, <4>1, <4>3 DEF PathsOf
      <4>4. CASE d \notin there
        BY <2>1, <4>1, <4>2, <4>4 DEF PathsOf
      <4>5. QED
        BY <4>3, <4>4
    <3>3. todo[1].left \ {path} \subseteq PathsOf(dirs')
      BY <3>2
    <3>4. QED
      BY <1>1, <1>2, <2>1, <3>1, <3>3, AdvancePastQueued DEF Shaped
  <2>2. CASE Advance /\ UNCHANGED dirs
    BY <1>1, <1>2, <2>2, QuietQueued
  <2>3. QED
    BY <1>6, <2>1, <2>2
<1>10. QED
  BY <1>2, <1>9 DEF Shaped, Typing, DoRename, Same

LEMMA ShapedExcise == Shaped /\ DoExcise => Shaped'
<1> SUFFICES ASSUME Shaped, DoExcise PROVE Shaped'
  OBVIOUS
<1>1. todo # <<>> /\ Now.op = "excise"
  BY DEF DoExcise, Doing
<1>2. Now \in ExciseJobs /\ ~shipped
  BY <1>1, NowIs, JobKinds
<1> DEFINE job == [Save(RemoveSection(roadmap, Now.ref)) EXCEPT !.op = "rewrite"]
<1>3. RemoveSection(roadmap, Now.ref) \in Texts
  BY <1>2, RemoveSectionIs DEF Shaped, Typing, ExciseJobs
<1>4. job \in RewriteJobs
  BY <1>3, SaveJobIs DEF SaveJobs, RewriteJobs, Shaped, Typing
<1>5. todo' = <<job>>
  BY DEF DoExcise
<1> HIDE DEF job
<1>6. todo' \in Seq(Jobs) /\ Queued'
  BY <1>4, <1>5, OneQueued DEF RewriteJobs, Jobs
<1>7. QED
  BY <1>2, <1>6 DEF Shaped, Typing, DoExcise, Same

LEMMA ShapedTell == Shaped /\ DoTell => Shaped'
<1> SUFFICES ASSUME Shaped, DoTell PROVE Shaped'
  OBVIOUS
<1>1. todo # <<>> /\ Advance /\ UNCHANGED dirs /\ ~shipped
  BY NowIs DEF DoTell, Doing
<1>2. todo' \in Seq(Jobs) /\ Queued'
  BY <1>1, QuietQueued
<1>3. said'.last \in BOOLEAN
  BY DEF DoTell, TellNext
<1>4. QED
  BY <1>1, <1>2, <1>3 DEF Shaped, Typing, DoTell, Same

LEMMA ShapedMove == Shaped /\ DoMove => Shaped'
<1> SUFFICES ASSUME Shaped, DoMove PROVE Shaped'
  OBVIOUS
<1>1. todo # <<>> /\ Now.op = "move"
  BY DEF DoMove, Doing
<1>2. /\ Now = todo[1] /\ Placed(1) /\ ~shipped /\ todo[1].op = "move"
      /\ todo[1].left \subseteq PathsOf(dirs)
  BY <1>1, NowIs DEF Placed
<1>3. PICK path \in todo[1].left :
        LET from == CHOOSE d \in dirs : Path(d) = path
        IN  \/ dirs' = dirs \ {from} /\ archive' = archive \cup {from} /\ AdvancePast(path)
            \/ Advance /\ UNCHANGED <<dirs, archive>>
  BY <1>2 DEF DoMove
<1> DEFINE from == CHOOSE d \in dirs : Path(d) = path
<1>4. from \in dirs /\ Path(from) = path
  BY <1>2, NamedDir
<1>5. \/ dirs' = dirs \ {from} /\ archive' = archive \cup {from} /\ AdvancePast(path)
      \/ Advance /\ UNCHANGED <<dirs, archive>>
  BY <1>3
<1> HIDE DEF from
<1>6. dirs' \subseteq Dirs /\ archive' \subseteq Dirs
  BY <1>4, <1>5 DEF Shaped, Typing
<1>7. todo' \in Seq(Jobs) /\ Queued'
  <2>1. CASE dirs' = dirs \ {from} /\ AdvancePast(path)
    <3>1. ASSUME NEW p \in todo[1].left \ {path} PROVE p \in PathsOf(dirs')
      BY <1>2, <1>4, <2>1 DEF PathsOf
    <3>2. todo[1].left \ {path} \subseteq PathsOf(dirs')
      BY <3>1
    <3>3. QED
      BY <1>1, <1>2, <2>1, <3>2, AdvancePastQueued DEF Shaped
  <2>2. CASE Advance /\ UNCHANGED dirs
    BY <1>1, <2>2, QuietQueued
  <2>3. QED
    BY <1>5, <2>1, <2>2
<1>8. QED
  BY <1>2, <1>6, <1>7 DEF Shaped, Typing, DoMove, Same

LEMMA ShapedShip == Shaped /\ DoShip => Shaped'
<1> SUFFICES ASSUME Shaped, DoShip PROVE Shaped'
  OBVIOUS
<1>1. todo # <<>> /\ Now.op = "ship" /\ Advance /\ UNCHANGED dirs
  BY DEF DoShip, Doing
<1>2. Now = todo[1] /\ Placed(1) /\ todo \in Seq(Jobs) /\ todo[1].op = "ship"
  BY <1>1, NowIs
<1>3. todo' \in Seq(Jobs) /\ Queued'
  BY <1>1, QuietQueued
<1>4. todo' = <<>>
  <2>1. Len(todo) = 1
    BY <1>2 DEF Placed
  <2>2. todo' = Tail(todo) /\ Len(Tail(todo)) = 0
    BY <1>1, <1>2, <2>1, QueueIs DEF Advance
  <2>3. QED
    BY <1>3, <2>2
<1>5. QED
  BY <1>3, <1>4 DEF Shaped, Typing, DoShip

LEMMA ShapedCrash == Shaped /\ Crash => Shaped'
<1> SUFFICES ASSUME Shaped, Crash PROVE Shaped'
  OBVIOUS
<1>1. todo' \in Seq(Jobs) /\ Queued'
  BY EmptyQueued DEF Crash
<1>2. faults' \in 0 .. MaxFaults
  BY PhasesAssumption DEF Shaped, Typing, Crash
<1>3. marred' \subseteq marred \cup {"cut", "crash"} /\ todo' = <<>>
  BY DEF Crash
<1>4. QED
  BY <1>1, <1>2, <1>3 DEF Shaped, Typing, Crash

\* What the agents do to a directory leaves its path.
LEMMA ShapedReplace ==
  ASSUME Shaped, NEW old, NEW new \in Dirs, Replace(old, new), Agents,
         PathsOf(old) \subseteq {Path(new)}, held' \in [Executors -> HeldJobs]
  PROVE  Shaped'
<1>1. dirs' \subseteq Dirs
  BY DEF Replace, Shaped, Typing
<1>2. PathsOf(dirs) \subseteq PathsOf(dirs')
  BY DEF Replace, PathsOf
<1>3. work' \in 0 .. MaxWork
  BY PhasesAssumption DEF Replace, Shaped, Typing
<1>4. Queued'
  BY <1>2, SameQueued DEF Shaped, Agents
<1>5. QED
  BY <1>1, <1>3, <1>4 DEF Shaped, Typing, Agents

LEMMA ShapedScaffold == ASSUME Shaped, NEW i \in DOMAIN roadmap, Scaffold(i) PROVE Shaped'
<1>1. NewDir(roadmap[i].num, roadmap[i].name) \in Dirs
  <2>1. roadmap[i].num \in Numbers /\ roadmap[i].name \in Names
    BY TextIs DEF Shaped, Typing, Entries, Sections
  <2>2. QED
    BY <2>1, RoadmapAssumption DEF NewDir, Dirs, Prep
<1>2. held' \in [Executors -> HeldJobs]
  BY DEF Scaffold, Shaped, Typing
<1>3. QED
  BY <1>1, <1>2, ShapedReplace DEF Scaffold, PathsOf

LEMMA ShapedPrepare == ASSUME Shaped, NEW d \in dirs, Prepare(d) PROVE Shaped'
<1>1. PICK new \in Dirs : Path(new) = Path(d) /\ Replace({d}, new)
  <2>1. d \in Dirs
    BY DEF Shaped, Typing
  <2>2. CASE Replace({d}, [d EXCEPT !.prep = "context"])
    BY <2>1, <2>2 DEF Dirs, Prep, Path
  <2>3. CASE Replace({d}, [d EXCEPT !.prep = "research"])
    BY <2>1, <2>3 DEF Dirs, Prep, Path
  <2>4. CASE d.plans < MaxPlans /\ Replace({d}, [d EXCEPT !.plans = @ + 1])
    <3>1. d.plans + 1 \in 0 .. MaxPlans
      BY <2>1, <2>4, RoadmapAssumption DEF Dirs
    <3>2. QED
      BY <2>1, <2>4, <3>1 DEF Dirs, Path
  <2>5. QED
    BY <2>2, <2>3, <2>4 DEF Prepare
<1>2. held' \in [Executors -> HeldJobs]
  BY DEF Prepare, Shaped, Typing
<1>3. QED
  BY <1>1, <1>2, ShapedReplace DEF Prepare, PathsOf

LEMMA ShapedExecute == ASSUME Shaped, NEW e \in Executors, NEW d \in dirs, Execute(e, d) PROVE Shaped'
<1> DEFINE new == [d EXCEPT !.sums = @ + 1]
<1>1. new \in Dirs /\ Path(new) = Path(d)
  <2>1. d \in Dirs
    BY DEF Shaped, Typing
  <2>2. d.sums + 1 \in 0 .. MaxPlans
    BY <2>1, RoadmapAssumption DEF Execute, Dirs
  <2>3. QED
    BY <2>1, <2>2 DEF Dirs, Path
<1>2. held' \in [Executors -> HeldJobs]
  <2>1. PICK pad \in BOOLEAN :
          held' = [held EXCEPT ![e] = [pc |-> "update", ref |-> [num |-> d.num, pad |-> pad]]]
    BY DEF Execute
  <2>2. [num |-> d.num, pad |-> pad] \in Refs
    BY DEF Refs, Dirs, Shaped, Typing
  <2>3. [pc |-> "update", ref |-> [num |-> d.num, pad |-> pad]] \in HeldJobs
    BY <2>2 DEF HeldJobs
  <2>4. QED
    BY <2>1, <2>3 DEF Shaped, Typing
<1>3. Replace({d}, new) /\ Agents
  BY DEF Execute
<1> HIDE DEF new
<1>4. QED
  BY <1>1, <1>2, <1>3, ShapedReplace DEF PathsOf

LEMMA ShapedUpdate == ASSUME Shaped, NEW e \in Executors, UpdatePlanProgress(e) PROVE Shaped'
<1>1. held[e].ref \in Refs /\ roadmap \in Texts
  BY DEF UpdatePlanProgress, Shaped, Typing, HeldJobs, NoJob
<1>2. PICK text \in {Tick(roadmap, held[e].ref), roadmap} :
        held' = [held EXCEPT ![e] = NoJob]
          \/ held' = [held EXCEPT ![e] = [pc |-> "save", base |-> roadmap, text |-> text]]
  BY DEF UpdatePlanProgress
<1>3. text \in Texts
  BY <1>1, <1>2, TickIs
<1>4. NoJob \in HeldJobs /\ [pc |-> "save", base |-> roadmap, text |-> text] \in HeldJobs
  BY <1>1, <1>3 DEF HeldJobs
<1>5. held' \in [Executors -> HeldJobs]
  BY <1>2, <1>4 DEF Shaped, Typing
<1>6. Queued'
  BY SameQueued DEF Shaped, UpdatePlanProgress, Agents
<1>7. QED
  BY <1>5, <1>6 DEF Shaped, Typing, UpdatePlanProgress, Agents

LEMMA ShapedSaveProgress == ASSUME Shaped, NEW e \in Executors, SaveProgress(e) PROVE Shaped'
<1>1. held[e].text \in Texts
  BY DEF SaveProgress, Shaped, Typing, HeldJobs, NoJob
<1>2. held' \in [Executors -> HeldJobs]
  BY DEF SaveProgress, Shaped, Typing, HeldJobs
<1>3. marred' \subseteq marred \cup {"stale"}
  BY DEF SaveProgress, Overwrites
<1>4. Queued'
  BY SameQueued DEF Shaped, SaveProgress
<1>5. QED
  BY <1>1, <1>2, <1>3, <1>4 DEF Shaped, Typing, SaveProgress

LEMMA ShapedNext == Shaped /\ [Next]_vars => Shaped'
<1> SUFFICES ASSUME Shaped, [Next]_vars PROVE Shaped'
  OBVIOUS
<1>1. CASE Command
  BY <1>1, ShapedCommand
<1>2. CASE Step
  BY <1>2, ShapedMkdir, ShapedSave, ShapedRm, ShapedRename, ShapedExcise, ShapedTell, ShapedMove,
     ShapedShip DEF Step
<1>3. CASE Crash
  BY <1>3, ShapedCrash
<1>4. CASE \E i \in DOMAIN roadmap : Scaffold(i)
  BY <1>4, ShapedScaffold
<1>5. CASE \E d \in dirs : Prepare(d)
  BY <1>5, ShapedPrepare
<1>6. CASE \E e \in Executors : UpdatePlanProgress(e) \/ SaveProgress(e) \/ \E d \in dirs : Execute(e, d)
  BY <1>6, ShapedUpdate, ShapedSaveProgress, ShapedExecute
<1>7. CASE UNCHANGED vars
  BY <1>7 DEF vars, Shaped, Typing, Queued, Placed, PathsOf
<1>8. QED
  BY <1>1, <1>2, <1>3, <1>4, <1>5, <1>6, <1>7 DEF Next

\* ROADMAP.md, the directories and what was reported have their types: no command
\* writes a section or leaves a directory whose number is none, renumbering included.
THEOREM PhaseTypes == Spec => []TypeOK
<1>1. Shaped => TypeOK
  <2>1. Texts \subseteq Seq(Sections)
    BY DEF Texts, Entries
  <2>2. QED
    BY <2>1 DEF Shaped, Typing, TypeOK
<1>2. QED
  BY <1>1, ShapedInit, ShapedNext, PTL DEF Spec

----------------------------------------------------------------------------
(* What the commands find and report.                                        *)

LEMMA FindsExactly == Shaped => FindIsExact
<1> SUFFICES ASSUME Shaped, NEW num \in Numbers, ExactDirs(dirs, num) # {}
             PROVE  SearchPhase(dirs, num) \subseteq ExactDirs(dirs, num)
  BY DEF FindIsExact
<1> DEFINE hits == {d \in dirs : StartsWith(d, num)}
<1>1. PICK e \in dirs : e.num = num
  BY DEF ExactDirs
<1>2. e \in hits /\ hits \in SUBSET Dirs
  BY <1>1 DEF StartsWith, Shaped, Typing
<1>3. SearchPhase(dirs, num) = {FirstSorted(hits)}
  BY <1>2 DEF SearchPhase, FirstOf
<1> HIDE DEF hits
<1> DEFINE f == FirstSorted(hits)
<1>4. f \in hits /\ ~Below(num, f.num)
  BY <1>1, <1>2, FirstSortedIs
<1> HIDE DEF f
<1>5. f \in dirs /\ StartsWith(f, num) /\ f.num \in Numbers
  BY <1>2, <1>4 DEF hits, Dirs
<1>6. f.num = num
  <2>1. CASE ~IsDecimal(num) /\ f.num[1] = num[1]
    <3>1. ~(num[2] < f.num[2]) /\ num[2] = 0
      BY <1>4, <2>1 DEF Below, IsDecimal
    <3>2. f.num[2] \in Nat /\ f.num = <<f.num[1], f.num[2]>> /\ num = <<num[1], num[2]>>
      BY <1>5, NumberParts
    <3>3. f.num[2] = num[2]
      BY <3>1, <3>2
    <3>4. QED
      BY <2>1, <3>2, <3>3
  <2>2. QED
    BY <1>5, <2>1 DEF StartsWith
<1>7. QED
  BY <1>3, <1>5, <1>6 DEF ExactDirs, f

\* Looking for a phase finds its directory when it has one, whatever decimal phases
\* have names that start with the same text.
THEOREM PhasesAreFound == Spec => []FindIsExact
BY FindsExactly, ShapedInit, ShapedNext, PTL DEF Spec

\* Only phase complete reports a next phase.
LEMMA OnlyTellSays == [Next]_vars /\ ~DoTell => said' = said
BY DEF Next, vars, Command, PhaseAdd, PhaseInsert, PhaseRemove, PhaseComplete, MilestoneComplete, Begin,
       Step, DoMkdir, DoSave, DoRm, DoRename, DoExcise, DoMove, DoShip, Crash,
       Scaffold, Prepare, Execute, UpdatePlanProgress, SaveProgress, Agents

\* phase complete calls no phase the last one while a directory of the milestone or a
\* section comes after it, and the next phase it names does come after it.
THEOREM LastMeansLast == Spec => LastIsLast
<1> DEFINE Told == said' # said => /\ said'.last => \A n \in Numbered(roadmap) : ~Below(said'.num, n)
                                   /\ ~said'.last => Below(said'.num, said'.next)
<1>1. Shaped /\ [Next]_vars => Told
  <2> SUFFICES ASSUME Shaped, DoTell PROVE Told
    BY OnlyTellSays
  <2> DEFINE num == Now.num
             ds == NextDirs(num)
             hs == NextHeadings(num)
  <2>1. /\ said'.num = num
        /\ said'.last <=> ds = {} /\ hs = {}
        /\ said'.next = IF ds # {} THEN FirstSorted(ds).num
                        ELSE IF hs # {} THEN roadmap[Min(hs)].num ELSE <<0, 0>>
    BY DEF DoTell, TellNext
  <2>2. ds \in SUBSET Dirs /\ \A d \in ds : Below(num, d.num)
    BY DEF NextDirs, Mine, Shaped, Typing
  <2>3. hs \in SUBSET Nat /\ \A i \in hs : Below(num, roadmap[i].num)
    BY TextIs DEF NextHeadings, Shaped, Typing
  <2>4. hs = {} => \A n \in Numbered(roadmap) : ~Below(num, n)
    BY DEF NextHeadings, Numbered
  <2> HIDE DEF num, ds, hs
  <2>5. ds # {} => FirstSorted(ds) \in ds
    BY <2>2, FirstSortedIs
  <2>6. hs # {} => Min(hs) \in hs
    BY <2>3, MinIs
  <2>7. said'.last => \A n \in Numbered(roadmap) : ~Below(said'.num, n)
    BY <2>1, <2>4
  <2>8. ~said'.last => Below(said'.num, said'.next)
    BY <2>1, <2>2, <2>3, <2>5, <2>6
  <2>9. QED
    BY <2>7, <2>8
<1>2. Shaped /\ [Next]_vars => [Told]_vars
  BY <1>1
<1>3. LastIsLast <=> [][Told]_vars
  BY DEF LastIsLast
<1> HIDE DEF Told
<1>4. QED
  BY <1>2, <1>3, ShapedInit, ShapedNext, PTL DEF Spec

----------------------------------------------------------------------------
(* What is kept in ROADMAP.md.                                               *)

LEMMA KeepsItself == ASSUME NEW R PROVE Keeps(R, R) /\ Headed(R, R)
BY DEF Keeps, Headed

LEMMA AddKeeps ==
  ASSUME NEW R \in Texts, NEW name \in Names, NextInteger(R) <= MaxInt
  PROVE  Keeps(R, AddSection(R, name))
<1>1. /\ AddSection(R, name) \in Texts /\ Len(AddSection(R, name)) = Len(R) + 1
      /\ \A i \in DOMAIN R : AddSection(R, name)[i] = R[i]
  BY AddSectionIs
<1>2. DOMAIN R \subseteq DOMAIN AddSection(R, name)
  BY <1>1, TextIs
<1>3. QED
  BY <1>1, <1>2 DEF Keeps

LEMMA InsertKeeps ==
  ASSUME NEW R \in Texts, NEW ref \in Refs, NEW num \in Numbers, NEW name \in Names,
         ref.num \in Numbered(R)
  PROVE  Keeps(R, InsertSection(R, ref, num, name))
<1> DEFINE T == InsertSection(R, ref, num, name)
<1>1. PICK k \in DOMAIN R : Inserted(R, T, k, num, name)
  BY InsertSectionIs
<1> HIDE DEF T
<1>2. /\ T \in Texts /\ Len(T) = Len(R) + 1
      /\ \A i \in 1 .. k : T[i] = R[i]
      /\ \A i \in (k + 1) .. Len(R) : T[i + 1] = R[i]
  BY <1>1 DEF Inserted
<1>3. /\ DOMAIN R = 1 .. Len(R) /\ DOMAIN T = 1 .. (Len(R) + 1) /\ Len(R) \in Nat
  BY <1>2, TextIs
<1>4. ASSUME NEW i \in DOMAIN R PROVE \E j \in DOMAIN T : T[j] = R[i]
  <2>1. CASE i <= k
    BY <1>2, <1>3, <2>1
  <2>2. CASE i > k
    <3>1. i \in (k + 1) .. Len(R) /\ i + 1 \in DOMAIN T
      BY <1>3, <2>2
    <3>2. QED
      BY <1>2, <3>1
  <2>3. QED
    BY <1>3, <2>1, <2>2
<1>5. QED
  BY <1>4 DEF Keeps, T

LEMMA KeptInit == Init => Kept
BY DEF Init, Kept, NoJob

\* The operations that are left when the first one is over.
LEMMA AdvanceIs ==
  ASSUME Shaped, todo # <<>>, Advance
  PROVE  /\ Len(todo') = Len(todo) - 1 /\ DOMAIN todo' = 1 .. (Len(todo) - 1)
         /\ \A i \in DOMAIN todo' : i + 1 \in DOMAIN todo /\ todo'[i] = todo[i + 1]
BY NowIs, QueueIs DEF Advance

\* Or when it has taken one of its directories.
LEMMA AdvancePastIs ==
  ASSUME Shaped, todo # <<>>, todo[1].op \in {"rename", "move"},
         NEW path \in todo[1].left, AdvancePast(path)
  PROVE  \A i \in DOMAIN todo' : \E j \in DOMAIN todo : todo'[i].op = todo[j].op
<1>1. /\ Now = todo[1] /\ todo[1] \in Jobs /\ 1 \in DOMAIN todo /\ todo \in Seq(Jobs)
  BY NowIs
<1>2. CASE Now.left = {path}
  <2>1. Advance
    BY <1>2 DEF AdvancePast, Advance
  <2>2. QED
    BY <2>1, AdvanceIs
<1>3. CASE Now.left # {path}
  <2> DEFINE job == [todo[1] EXCEPT !.left = todo[1].left \ {path}]
  <2>1. todo' = [todo EXCEPT ![1] = job]
    BY <1>1, <1>3 DEF AdvancePast
  <2>2. job.op = todo[1].op
    BY <1>1, JobKinds DEF RenameJobs, MoveJobs
  <2> HIDE DEF job
  <2>3. DOMAIN todo' = DOMAIN todo /\ \A i \in DOMAIN todo : todo'[i].op = todo[i].op
    BY <1>1, <2>1, <2>2
  <2>4. QED
    BY <2>3
<1>4. QED
  BY <1>2, <1>3

KeptTodo == \A i \in DOMAIN todo : todo[i].op = "save" => Keeps(todo[i].base, todo[i].text)
KeptHeld == \A e \in Executors : held[e].pc = "save" => /\ Keeps(held[e].base, held[e].text)
                                                        /\ Headed(held[e].base, held[e].text)

LEMMA KeptTwo ==
  ASSUME NEW a, NEW b, todo' = <<a, b>>,
         a.op = "save" => Keeps(a.base, a.text), b.op = "save" => Keeps(b.base, b.text)
  PROVE  KeptTodo'
<1>1. DOMAIN todo' = 1 .. 2 /\ todo'[1] = a /\ todo'[2] = b
  OBVIOUS
<1>2. QED
  BY <1>1 DEF KeptTodo

LEMMA KeptAdvance ==
  ASSUME Shaped, KeptTodo, todo # <<>>, Advance
  PROVE  KeptTodo'
BY AdvanceIs DEF KeptTodo

LEMMA KeptAdvancePast ==
  ASSUME Shaped, KeptTodo, todo # <<>>, todo[1].op \in {"rename", "move"},
         NEW path \in todo[1].left, AdvancePast(path)
  PROVE  KeptTodo'
<1>1. \A j \in DOMAIN todo : todo[j].op # "save"
  BY DEF Shaped, Queued, Placed
<1>2. QED
  BY <1>1, AdvancePastIs DEF KeptTodo

LEMMA KeptCommand == Shaped /\ Command => KeptTodo'
<1> SUFFICES ASSUME Shaped, Command PROVE KeptTodo'
  OBVIOUS
<1>1. roadmap \in Texts /\ dirs \subseteq Dirs
  BY DEF Shaped, Typing
<1>2. ASSUME NEW name \in Names, PhaseAdd(name) PROVE KeptTodo'
  <2> DEFINE a == Mkdir(<<NextInteger(roadmap), 0>>, name)
             b == Save(AddSection(roadmap, name))
  <2>1. todo' = <<a, b>>
    BY <1>2 DEF PhaseAdd, Begin
  <2>2. a.op = "mkdir"
    BY DEF Mkdir
  <2>3. b.base = roadmap /\ b.text = AddSection(roadmap, name)
    BY DEF Save
  <2>4. Keeps(b.base, b.text)
    BY <1>1, <1>2, <2>3, AddKeeps DEF PhaseAdd
  <2> HIDE DEF a, b
  <2>5. QED
    BY <2>1, <2>2, <2>4, KeptTwo
<1>3. ASSUME NEW ref \in Refs, NEW name \in Names, PhaseInsert(ref, name) PROVE KeptTodo'
  <2> DEFINE num == <<ref.num[1], NextDecimal(dirs, ref.num[1])>>
             a == Mkdir(num, name)
             b == Save(InsertSection(roadmap, ref, num, name))
  <2>1. todo' = <<a, b>>
    BY <1>3 DEF PhaseInsert, Begin
  <2>2. a.op = "mkdir"
    BY DEF Mkdir
  <2>3. b.base = roadmap /\ b.text = InsertSection(roadmap, ref, num, name)
    BY DEF Save
  <2>4. num \in Numbers /\ ref.num \in Numbered(roadmap)
    <3>1. ref.num[1] \in 1 .. MaxInt
      BY NumberParts DEF Refs
    <3>2. NextDecimal(dirs, ref.num[1]) \in Nat \ {0}
      BY <1>1, <3>1, NextDecimalIs
    <3>3. NextDecimal(dirs, ref.num[1]) <= MaxDec
      BY <1>3 DEF PhaseInsert
    <3>4. QED
      BY <1>3, <3>1, <3>2, <3>3, RoadmapAssumption DEF Numbers, PhaseInsert
  <2> HIDE DEF num
  <2>5. Keeps(b.base, b.text)
    BY <1>1, <2>3, <2>4, InsertKeeps
  <2> HIDE DEF a, b
  <2>6. QED
    BY <2>1, <2>2, <2>5, KeptTwo
<1>4. ASSUME NEW ref \in Refs, NEW force \in BOOLEAN, PhaseRemove(ref, force) PROVE KeptTodo'
  <2>1. todo' = RemovalSteps(ref, force)
    BY <1>4 DEF PhaseRemove, Begin
  <2>2. ExciseOf(ref).op = "excise" /\ RmOf(ref, force).op = "rm" /\ RenameOf(ref).op = "rename"
    BY DEF ExciseOf, RmOf, RenameOf
  <2>3. \/ todo' = <<ExciseOf(ref)>>
        \/ todo' = <<RmOf(ref, force), ExciseOf(ref)>>
        \/ todo' = <<RenameOf(ref), ExciseOf(ref)>>
        \/ todo' = <<RmOf(ref, force), RenameOf(ref), ExciseOf(ref)>>
    BY <2>1, RemovalStepsAre
  <2>4. \A i \in DOMAIN todo' : todo'[i] \in {ExciseOf(ref), RmOf(ref, force), RenameOf(ref)}
    BY <2>3
  <2>5. QED
    BY <2>2, <2>4 DEF KeptTodo
<1>5. ASSUME NEW ref \in Refs, PhaseComplete(ref) PROVE KeptTodo'
  <2> DEFINE a == Save(Tick(roadmap, ref))
             b == [op |-> "tell", num |-> ref.num]
  <2>1. todo' = <<a, b>>
    BY <1>5 DEF PhaseComplete, Begin
  <2>2. a.base = roadmap /\ a.text = Tick(roadmap, ref) /\ b.op = "tell"
    BY DEF Save
  <2>3. Keeps(a.base, a.text)
    BY <1>1, <2>2, TickIs
  <2> HIDE DEF a
  <2>4. QED
    BY <2>1, <2>2, <2>3, KeptTwo
<1>6. ASSUME MilestoneComplete PROVE KeptTodo'
  <2> DEFINE a == [op |-> "move", left |-> PathsOf(Mine)]
             b == [op |-> "ship"]
  <2>1. todo' = <<>> \/ todo' = Shipping(Mine)
    BY <1>6 DEF MilestoneComplete, Begin
  <2>2. todo' = <<>> \/ todo' = IF Mine = {} THEN <<b>> ELSE <<a, b>>
    BY <2>1, ConcatNothing, ConcatPair DEF Shipping, PathsOf
  <2>3. \A i \in DOMAIN todo' : todo'[i] \in {a, b}
    <3> HIDE DEF a, b
    <3>1. QED
      BY <2>2
  <2>4. QED
    BY <2>3 DEF KeptTodo
<1>7. QED
  BY <1>2, <1>3, <1>4, <1>5, <1>6 DEF Command

LEMMA KeptStep == Shaped /\ KeptTodo /\ Step => KeptTodo'
<1> SUFFICES ASSUME Shaped, KeptTodo, Step PROVE KeptTodo'
  OBVIOUS
<1>1. CASE DoMkdir \/ DoSave \/ DoRm \/ DoTell \/ DoShip
  <2>1. todo # <<>> /\ Advance
    BY <1>1 DEF DoMkdir, DoSave, DoRm, DoTell, DoShip, Doing
  <2>2. QED
    BY <2>1, KeptAdvance
<1>2. CASE DoExcise
  <2> DEFINE job == [Save(RemoveSection(roadmap, Now.ref)) EXCEPT !.op = "rewrite"]
  <2>1. todo' = <<job>> /\ job.op = "rewrite"
    BY <1>2 DEF DoExcise, Save
  <2> HIDE DEF job
  <2>2. DOMAIN todo' = 1 .. 1 /\ todo'[1] = job
    BY <2>1
  <2>3. QED
    BY <2>1, <2>2 DEF KeptTodo
<1>3. CASE DoRename \/ DoMove
  <2>1. todo # <<>> /\ Now.op \in {"rename", "move"}
    BY <1>3 DEF DoRename, DoMove, Doing
  <2>2. Now = todo[1]
    BY <2>1, NowIs
  <2>3. Advance \/ \E path \in Now.left : AdvancePast(path)
    BY <1>3 DEF DoRename, DoMove
  <2>4. QED
    BY <2>1, <2>2, <2>3, KeptAdvance, KeptAdvancePast
<1>4. QED
  BY <1>1, <1>2, <1>3 DEF Step

LEMMA KeptNext == Shaped /\ Kept /\ [Next]_vars => Kept'
<1> SUFFICES ASSUME Shaped, KeptTodo, KeptHeld, [Next]_vars PROVE KeptTodo' /\ KeptHeld'
  BY DEF Kept, KeptTodo, KeptHeld
<1>1. CASE Command
  <2>1. UNCHANGED held
    BY <1>1 DEF Command, PhaseAdd, PhaseInsert, PhaseRemove, PhaseComplete, MilestoneComplete, Begin
  <2>2. QED
    BY <1>1, <2>1, KeptCommand DEF KeptHeld
<1>2. CASE Step
  <2>1. UNCHANGED held
    BY <1>2 DEF Step, DoMkdir, DoSave, DoRm, DoRename, DoExcise, DoTell, DoMove, DoShip, Same
  <2>2. QED
    BY <1>2, <2>1, KeptStep DEF KeptHeld
<1>3. CASE Crash
  <2>1. UNCHANGED held /\ DOMAIN todo' = {}
    BY <1>3 DEF Crash
  <2>2. QED
    BY <2>1 DEF KeptTodo, KeptHeld
<1>4. CASE UNCHANGED <<todo, held>>
  BY <1>4 DEF KeptTodo, KeptHeld
<1>5. ASSUME NEW e \in Executors, NEW d \in dirs, Execute(e, d) PROVE KeptTodo' /\ KeptHeld'
  <2>1. UNCHANGED todo /\ \A f \in Executors : held'[f] = held[f] \/ held'[f].pc = "update"
    BY <1>5 DEF Execute, Agents, Shaped, Typing
  <2>2. QED
    BY <2>1 DEF KeptTodo, KeptHeld
<1>6. ASSUME NEW e \in Executors, UpdatePlanProgress(e) PROVE KeptTodo' /\ KeptHeld'
  <2>1. roadmap \in Texts /\ held \in [Executors -> HeldJobs]
    BY DEF Shaped, Typing
  <2>2. PICK text \in {Tick(roadmap, held[e].ref), roadmap} :
          held' = [held EXCEPT ![e] = NoJob]
            \/ held' = [held EXCEPT ![e] = [pc |-> "save", base |-> roadmap, text |-> text]]
    BY <1>6 DEF UpdatePlanProgress
  <2>3. Keeps(roadmap, text) /\ Headed(roadmap, text)
    BY <2>1, <2>2, TickIs, KeepsItself
  <2>4. \A f \in Executors : \/ held'[f] = held[f] \/ held'[f].pc = "none"
                             \/ held'[f].base = roadmap /\ held'[f].text = text
    BY <2>1, <2>2 DEF NoJob
  <2>5. UNCHANGED todo
    BY <1>6 DEF UpdatePlanProgress, Agents
  <2>6. QED
    BY <2>3, <2>4, <2>5 DEF KeptTodo, KeptHeld
<1>7. ASSUME NEW e \in Executors, SaveProgress(e) PROVE KeptTodo' /\ KeptHeld'
  <2>1. UNCHANGED todo /\ \A f \in Executors : held'[f] = held[f] \/ held'[f].pc = "none"
    BY <1>7 DEF SaveProgress, NoJob, Shaped, Typing
  <2>2. QED
    BY <2>1 DEF KeptTodo, KeptHeld
<1>8. ASSUME NEW i \in DOMAIN roadmap, Scaffold(i) PROVE KeptTodo' /\ KeptHeld'
  BY <1>4, <1>8 DEF Scaffold, Agents
<1>9. ASSUME NEW d \in dirs, Prepare(d) PROVE KeptTodo' /\ KeptHeld'
  BY <1>4, <1>9 DEF Prepare, Agents
<1>10. CASE UNCHANGED vars
  BY <1>4, <1>10 DEF vars
<1>11. QED
  BY <1>1, <1>2, <1>3, <1>5, <1>6, <1>7, <1>8, <1>9, <1>10 DEF Next

\* Only these change the text.
LEMMA OnlySavesWrite ==
  [Next]_vars => \/ roadmap' = roadmap \/ DoSave \/ \E e \in Executors : SaveProgress(e)
BY DEF Next, vars, Command, PhaseAdd, PhaseInsert, PhaseRemove, PhaseComplete, MilestoneComplete, Begin,
       Step, DoMkdir, DoTell, DoRm, DoRename, DoExcise, DoMove, DoShip, Crash,
       Scaffold, Prepare, Execute, UpdatePlanProgress, Agents

\* Sections and checked boxes stay in ROADMAP.md, whoever writes it, but for phase
\* remove and for texts that were made from one that has changed meanwhile.
THEOREM TheRoadmapKeeps == Spec => RoadmapKeeps
<1> DEFINE Kind == (marred' \subseteq {"crash"} /\ ~Removing) => Keeps(roadmap, roadmap')
<1>1. Shaped /\ Kept /\ [Next]_vars => Kind
  <2> SUFFICES ASSUME Shaped, KeptTodo, KeptHeld, [Next]_vars, marred' \subseteq {"crash"}, ~Removing
               PROVE  Keeps(roadmap, roadmap')
    BY DEF Kept, KeptTodo, KeptHeld
  <2>1. CASE roadmap' = roadmap
    BY <2>1, KeepsItself
  <2>2. CASE DoSave
    <3>1. todo # <<>> /\ Now = todo[1] /\ 1 \in DOMAIN todo
      BY <2>2, NowIs DEF DoSave, Doing
    <3>2. todo[1].op = "save"
      BY <2>2, <3>1 DEF DoSave, Doing, Removing
    <3>3. todo[1].base = roadmap /\ roadmap' = todo[1].text
      BY <2>2, <3>1 DEF DoSave, Overwrites
    <3>4. QED
      BY <3>1, <3>2, <3>3 DEF KeptTodo
  <2>3. ASSUME NEW e \in Executors, SaveProgress(e) PROVE Keeps(roadmap, roadmap')
    BY <2>3 DEF SaveProgress, Overwrites, KeptHeld
  <2>4. QED
    BY <2>1, <2>2, <2>3, OnlySavesWrite
<1>2. Shaped /\ Kept /\ [Next]_vars => [Kind]_vars
  BY <1>1
<1>3. RoadmapKeeps <=> [][Kind]_vars
  BY DEF RoadmapKeeps, Keeps
<1> HIDE DEF Kind
<1>4. QED
  BY <1>2, <1>3, ShapedInit, ShapedNext, KeptInit, KeptNext, PTL DEF Spec

----------------------------------------------------------------------------
(* What milestone complete leaves behind.                                    *)

LEMMA HeadedNumbers ==
  ASSUME NEW R \in Texts, NEW T \in Texts, Headed(R, T)
  PROVE  /\ Numbered(T) = Numbered(R)
         /\ \A d : InMilestone(T, d) <=> InMilestone(R, d)
<1>1. Numbered(T) = Numbered(R)
  BY DEF Headed, Numbered
<1>2. T = <<>> <=> R = <<>>
  <2>1. \A S \in Texts : S = <<>> <=> DOMAIN S = {}
    BY DEF Texts
  <2>2. QED
    BY <2>1 DEF Headed
<1>3. QED
  BY <1>1, <1>2 DEF InMilestone

\* The operations milestone complete begins with.
LEMMA ShippingIs ==
  ASSUME Shaped, MilestoneComplete
  PROVE  /\ UNCHANGED <<roadmap, dirs, archive, shipped, marred>>
         /\ \/ todo' = <<>>
            \/ Mine = {} /\ Len(todo') = 1 /\ todo'[1].op = "ship"
            \/ /\ Len(todo') = 2 /\ todo'[1].op = "move" /\ todo'[2].op = "ship"
               /\ todo'[1].left = PathsOf(Mine)
<1> DEFINE a == [op |-> "move", left |-> PathsOf(Mine)]
           b == [op |-> "ship"]
<1>1. /\ UNCHANGED <<roadmap, dirs, archive, shipped, marred>>
      /\ todo' = <<>> \/ todo' = Shipping(Mine)
  BY DEF MilestoneComplete, Begin
<1>2. todo' = <<>> \/ todo' = IF Mine = {} THEN <<b>> ELSE <<a, b>>
  BY <1>1, ConcatNothing, ConcatPair DEF Shipping, PathsOf
<1>3. a.op = "move" /\ a.left = PathsOf(Mine) /\ b.op = "ship"
  OBVIOUS
<1> HIDE DEF a, b
<1>4. CASE Mine = {} /\ todo' = <<b>>
  <2>1. Len(todo') = 1 /\ todo'[1] = b
    BY <1>4
  <2>2. QED
    BY <1>1, <1>3, <1>4, <2>1
<1>5. CASE todo' = <<a, b>>
  <2>1. Len(todo') = 2 /\ todo'[1] = a /\ todo'[2] = b
    BY <1>5
  <2>2. QED
    BY <1>1, <1>3, <2>1
<1>6. QED
  BY <1>1, <1>2, <1>4, <1>5

\* The other commands begin with something else.
LEMMA CommandsStart ==
  ASSUME Shaped, Command, ~MilestoneComplete
  PROVE  /\ UNCHANGED <<roadmap, dirs, archive, shipped>>
         /\ todo' # <<>> /\ todo'[1].op \notin {"move", "ship", "rewrite"}
<1>1. UNCHANGED <<roadmap, dirs, archive, shipped>>
  BY DEF Command, PhaseAdd, PhaseInsert, PhaseRemove, PhaseComplete, Begin
<1>3. CASE \E name \in Names : PhaseAdd(name)
  BY <1>3 DEF PhaseAdd, Begin, Mkdir
<1>4. CASE \E ref \in Refs, name \in Names : PhaseInsert(ref, name)
  BY <1>4 DEF PhaseInsert, Begin, Mkdir
<1>5. CASE \E ref \in Refs, force \in BOOLEAN : PhaseRemove(ref, force)
  <2>1. PICK ref \in Refs, force \in BOOLEAN : todo' = RemovalSteps(ref, force)
    BY <1>5 DEF PhaseRemove, Begin
  <2>2. ExciseOf(ref).op = "excise" /\ RmOf(ref, force).op = "rm" /\ RenameOf(ref).op = "rename"
    BY DEF ExciseOf, RmOf, RenameOf
  <2>3. \/ todo' = <<ExciseOf(ref)>>
        \/ todo' = <<RmOf(ref, force), ExciseOf(ref)>>
        \/ todo' = <<RenameOf(ref), ExciseOf(ref)>>
        \/ todo' = <<RmOf(ref, force), RenameOf(ref), ExciseOf(ref)>>
    BY <2>1, RemovalStepsAre
  <2>4. todo' # <<>> /\ todo'[1] \in {ExciseOf(ref), RmOf(ref, force), RenameOf(ref)}
    BY <2>3
  <2>5. QED
    BY <1>1, <2>2, <2>4
<1>6. CASE \E ref \in Refs : PhaseComplete(ref)
  BY <1>6 DEF PhaseComplete, Begin, Save
<1>7. QED
  BY <1>1, <1>3, <1>4, <1>5, <1>6 DEF Command

\* One directory goes to the archive, or the first that cannot ends the loop.
LEMMA MoveIs ==
  ASSUME Shaped, DoMove
  PROVE  /\ todo # <<>> /\ todo[1].op = "move" /\ ~shipped
         /\ UNCHANGED <<roadmap, shipped, marred>>
         /\ \E from \in dirs :
              /\ Path(from) \in todo[1].left
              /\ \/ /\ dirs' = dirs \ {from} /\ archive' = archive \cup {from}
                    /\ \/ todo[1].left = {Path(from)} /\ Len(todo') = 1 /\ todo'[1].op = "ship"
                       \/ /\ Len(todo') = 2 /\ todo'[1].op = "move" /\ todo'[2].op = "ship"
                          /\ todo'[1].left = todo[1].left \ {Path(from)}
                 \/ /\ UNCHANGED <<dirs, archive>> /\ At(archive, from) # {}
                    /\ Len(todo') = 1 /\ todo'[1].op = "ship"
<1>1. todo # <<>> /\ Now.op = "move"
  BY DEF DoMove, Doing
<1>2. /\ Now = todo[1] /\ Placed(1) /\ ~shipped /\ todo[1].op = "move" /\ todo[1] \in MoveJobs
      /\ todo \in Seq(Jobs) /\ DOMAIN todo = 1 .. Len(todo)
      /\ todo[1].left \subseteq PathsOf(dirs) /\ Len(todo) = 2 /\ todo[2].op = "ship"
  BY <1>1, NowIs, JobKinds DEF Placed
<1>3. UNCHANGED <<roadmap, shipped, marred>>
  BY DEF DoMove, Same
<1>4. PICK path \in todo[1].left :
        LET from == CHOOSE d \in dirs : Path(d) = path
        IN  IF At(archive, from) = {}
              THEN dirs' = dirs \ {from} /\ archive' = archive \cup {from} /\ AdvancePast(path)
              ELSE Advance /\ UNCHANGED <<dirs, archive>>
  BY <1>2 DEF DoMove
<1> DEFINE from == CHOOSE d \in dirs : Path(d) = path
<1>5. from \in dirs /\ Path(from) = path
  BY <1>2, NamedDir
<1>6. \/ dirs' = dirs \ {from} /\ archive' = archive \cup {from} /\ AdvancePast(path)
      \/ Advance /\ UNCHANGED <<dirs, archive>> /\ At(archive, from) # {}
  BY <1>4
<1> HIDE DEF from
<1>7. Advance => Len(todo') = 1 /\ todo'[1].op = "ship"
  BY <1>1, <1>2, AdvanceIs
<1>8. AdvancePast(path) =>
        \/ todo[1].left = {path} /\ Len(todo') = 1 /\ todo'[1].op = "ship"
        \/ /\ Len(todo') = 2 /\ todo'[1].op = "move" /\ todo'[2].op = "ship"
           /\ todo'[1].left = todo[1].left \ {path}
  <2>1. CASE todo[1].left = {path}
    BY <1>2, <1>7, <2>1 DEF AdvancePast, Advance
  <2>2. ASSUME todo[1].left # {path}, AdvancePast(path)
        PROVE  /\ Len(todo') = 2 /\ todo'[1].op = "move" /\ todo'[2].op = "ship"
               /\ todo'[1].left = todo[1].left \ {path}
    <3> DEFINE job == [todo[1] EXCEPT !.left = todo[1].left \ {path}]
    <3>1. todo' = [todo EXCEPT ![1] = job]
      BY <1>2, <2>2 DEF AdvancePast
    <3>2. job \in Jobs /\ job.op = "move" /\ job.left = todo[1].left \ {path}
      <4>1. job \in MoveJobs /\ job.op = "move" /\ job.left = todo[1].left \ {path}
        BY <1>2 DEF MoveJobs
      <4>2. QED
        BY <4>1 DEF Jobs
    <3> HIDE DEF job
    <3>3. Len(todo') = 2 /\ todo'[1] = job /\ todo'[2] = todo[2]
      BY <1>2, <3>1, <3>2
    <3>4. QED
      BY <1>2, <3>2, <3>3
  <2>3. QED
    BY <2>1, <2>2
<1>9. QED
  BY <1>1, <1>2, <1>3, <1>5, <1>6, <1>7, <1>8

\* What an executor does to a directory changes no path.
LEMMA ExecuteIs ==
  ASSUME Shaped, NEW e \in Executors, NEW d \in dirs, Execute(e, d)
  PROVE  /\ UNCHANGED <<roadmap, archive, todo, shipped, marred>>
         /\ \E new \in Dirs : Path(new) = Path(d) /\ dirs' = (dirs \ {d}) \cup {new}
         /\ PathsOf(dirs') = PathsOf(dirs)
<1> DEFINE new == [d EXCEPT !.sums = @ + 1]
<1>1. UNCHANGED <<roadmap, archive, todo, shipped, marred>> /\ dirs' = (dirs \ {d}) \cup {new}
  BY DEF Execute, Agents, Replace
<1>2. new \in Dirs /\ Path(new) = Path(d)
  <2>1. d \in Dirs
    BY DEF Shaped, Typing
  <2>2. d.sums + 1 \in 0 .. MaxPlans
    BY <2>1, RoadmapAssumption DEF Execute, Dirs
  <2>3. QED
    BY <2>1, <2>2 DEF Dirs, Path
<1> HIDE DEF new
<1>3. PathsOf(dirs') = PathsOf(dirs)
  BY <1>1, <1>2 DEF PathsOf
<1>4. QED
  BY <1>1, <1>2, <1>3

LEMMA GatheringNext == Shaped /\ Kept /\ Gathering /\ [Next]_vars => Gathering'
<1> SUFFICES ASSUME Shaped, KeptHeld, Gathering, [Next]_vars, "stale" \notin marred'
             PROVE  /\ shipped' => Gathered'
                    /\ todo' # <<>> => /\ todo'[1].op = "ship" => Gathered'
                                       /\ todo'[1].op = "move" =>
                                            \A d \in dirs' : InMilestone(roadmap', d) => Leaving(d)'
  BY DEF Gathering, Kept, KeptHeld
<1> DEFINE Goal == /\ shipped' => Gathered'
                   /\ todo' # <<>> => /\ todo'[1].op = "ship" => Gathered'
                                      /\ todo'[1].op = "move" =>
                                           \A d \in dirs' : InMilestone(roadmap', d) => Leaving(d)'
<1>1. /\ shipped => todo = <<>>
      /\ roadmap \in Texts /\ dirs \subseteq Dirs /\ archive \subseteq Dirs
      /\ roadmap' \in Texts
  BY ShapedNext DEF Shaped, Typing
<1>2. CASE Command
  <2>1. ~shipped
    BY <1>2 DEF Command, Idle
  <2>2. CASE MilestoneComplete
    <3>1. CASE Mine = {} /\ todo'[1].op = "ship"
      BY <2>1, <2>2, <3>1, ShippingIs DEF Mine, Gathered
    <3>2. CASE todo'[1].op = "move" /\ todo'[1].left = PathsOf(Mine)
      BY <2>1, <2>2, <3>2, ShippingIs DEF Mine, PathsOf, Leaving
    <3>3. CASE todo' = <<>>
      BY <2>1, <2>2, <3>3, ShippingIs
    <3>4. QED
      BY <2>2, <3>1, <3>2, <3>3, ShippingIs
  <2>3. CASE ~MilestoneComplete
    BY <1>2, <2>1, <2>3, CommandsStart
  <2>4. QED
    BY <2>2, <2>3
<1>3. CASE DoMkdir \/ DoSave \/ DoRm \/ DoTell \/ (DoRename /\ Advance)
  <2>1. /\ todo # <<>> /\ Advance /\ UNCHANGED shipped
        /\ Now.op \in {"mkdir", "save", "rewrite", "rm", "tell", "rename"}
    BY <1>3 DEF DoMkdir, DoSave, DoRm, DoTell, DoRename, Doing, Same
  <2>2. Now = todo[1] /\ ~shipped
    BY <2>1, NowIs
  <2>3. \A i \in DOMAIN todo : i # 1 => todo[i].op # "ship" /\ todo[i].op # "move"
    <3>1. ASSUME NEW i \in DOMAIN todo, i # 1 PROVE todo[i].op # "ship" /\ todo[i].op # "move"
      <4>1. Placed(i) /\ 1 \in 1 .. (i - 1)
        BY <2>1, <3>1, NowIs DEF Shaped, Queued
      <4>2. QED
        BY <3>1, <4>1, <2>1, <2>2 DEF Placed
    <3>2. QED
      BY <3>1
  <2>4. ASSUME todo' # <<>> PROVE todo'[1].op # "ship" /\ todo'[1].op # "move"
    <3>1. todo' \in Seq(Jobs)
      BY ShapedNext DEF Shaped, Typing
    <3>2. 1 \in DOMAIN todo'
      BY <2>4, <3>1
    <3>3. 2 \in DOMAIN todo /\ todo'[1] = todo[2]
      BY <2>1, <3>2, AdvanceIs
    <3>4. QED
      BY <2>3, <3>3
  <2>5. QED
    BY <2>1, <2>2, <2>4
<1>4. CASE DoRename /\ ~Advance
  <2>1. PICK path \in Now.left : AdvancePast(path)
    BY <1>4 DEF DoRename
  <2>2. todo # <<>> /\ Now.op = "rename" /\ UNCHANGED shipped
    BY <1>4 DEF DoRename, Doing, Same
  <2>3. Now = todo[1] /\ ~shipped /\ todo \in Seq(Jobs) /\ 1 \in DOMAIN todo
    BY <2>2, NowIs
  <2>4. todo' = [todo EXCEPT ![1] = [todo[1] EXCEPT !.left = todo[1].left \ {path}]]
    BY <1>4, <2>1, <2>3 DEF AdvancePast, Advance
  <2>5. todo'[1].op = "rename"
    BY <2>2, <2>3, <2>4, JobKinds DEF RenameJobs
  <2>6. QED
    BY <2>2, <2>3, <2>5
<1>5. CASE DoExcise
  <2>1. todo # <<>> /\ UNCHANGED shipped /\ todo'[1].op = "rewrite"
    BY <1>5 DEF DoExcise, Doing, Same, Save
  <2>2. ~shipped
    BY <2>1, NowIs
  <2>3. QED
    BY <2>1, <2>2
<1>6. CASE DoMove
  <2>1. /\ todo # <<>> /\ todo[1].op = "move" /\ ~shipped
        /\ UNCHANGED <<roadmap, shipped, marred>>
    BY <1>6, MoveIs
  <2>2. \A d \in dirs : InMilestone(roadmap, d) => Leaving(d)
    BY <2>1 DEF Gathering
  <2>3. PICK from \in dirs :
          /\ Path(from) \in todo[1].left
          /\ \/ /\ dirs' = dirs \ {from} /\ archive' = archive \cup {from}
                /\ \/ todo[1].left = {Path(from)} /\ Len(todo') = 1 /\ todo'[1].op = "ship"
                   \/ /\ Len(todo') = 2 /\ todo'[1].op = "move" /\ todo'[2].op = "ship"
                      /\ todo'[1].left = todo[1].left \ {Path(from)}
             \/ /\ UNCHANGED <<dirs, archive>> /\ At(archive, from) # {}
                /\ Len(todo') = 1 /\ todo'[1].op = "ship"
    BY <1>6, MoveIs
  <2>4. CASE /\ dirs' = dirs \ {from} /\ archive' = archive \cup {from}
             /\ todo[1].left = {Path(from)} /\ todo'[1].op = "ship"
    <3>1. \A d \in dirs' : InMilestone(roadmap', d) => At(archive', d) # {}
      BY <2>1, <2>2, <2>4 DEF At, Leaving
    <3>2. Gathered'
      BY <3>1 DEF Gathered
    <3>3. QED
      BY <2>1, <2>4, <3>2
  <2>5. CASE /\ dirs' = dirs \ {from} /\ archive' = archive \cup {from}
             /\ todo'[1].op = "move" /\ todo'[1].left = todo[1].left \ {Path(from)}
    <3>1. \A d \in dirs' : InMilestone(roadmap', d) => Leaving(d)'
      BY <2>1, <2>2, <2>5 DEF At, Leaving
    <3>2. QED
      BY <2>1, <2>5, <3>1
  <2>6. CASE UNCHANGED <<dirs, archive>> /\ At(archive, from) # {} /\ todo'[1].op = "ship"
    <3>1. Gathered'
      BY <2>6 DEF Gathered
    <3>2. QED
      BY <2>1, <2>6, <3>1
  <2>7. QED
    BY <2>3, <2>4, <2>5, <2>6
<1>7. CASE DoShip
  <2>1. todo # <<>> /\ Now.op = "ship" /\ Advance
        /\ UNCHANGED <<roadmap, dirs, archive, marred>>
    BY <1>7 DEF DoShip, Doing
  <2>2. Now = todo[1] /\ Placed(1) /\ todo \in Seq(Jobs)
    BY <2>1, NowIs
  <2>3. Gathered
    BY <2>1, <2>2 DEF Gathering
  <2>4. Gathered'
    BY <2>1, <2>3 DEF Gathered
  <2>5. todo' = <<>>
    <3>1. Len(todo) = 1 /\ todo' \in Seq(Jobs)
      BY <2>1, <2>2, ShapedNext DEF Placed, Shaped, Typing
    <3>2. Len(todo') = 0
      BY <2>1, <3>1, AdvanceIs
    <3>3. QED
      BY <3>1, <3>2
  <2>6. QED
    BY <2>4, <2>5
<1>8. CASE Crash
  BY <1>1, <1>8 DEF Crash
<1>9. CASE \/ \E i \in DOMAIN roadmap : Scaffold(i)
           \/ \E d \in dirs : Prepare(d)
  <2>1. todo = <<>> /\ ~shipped /\ UNCHANGED <<todo, shipped>>
    BY <1>9 DEF Scaffold, Prepare, Idle, Agents
  <2>2. todo' = <<>> /\ ~shipped'
    BY <2>1
  <2>3. QED
    BY <2>2
<1>10. ASSUME NEW e \in Executors, NEW d \in dirs, Execute(e, d) PROVE Goal
  <2>1. UNCHANGED <<roadmap, archive, todo, shipped, marred>>
    BY <1>10, ExecuteIs
  <2>2. PICK new \in Dirs : Path(new) = Path(d) /\ dirs' = (dirs \ {d}) \cup {new}
    BY <1>10, ExecuteIs
  <2>3. new.num = d.num /\ At(archive, new) = At(archive, d)
    BY <2>2 DEF Path, At
  <2>4. InMilestone(roadmap, new) <=> InMilestone(roadmap, d)
    BY <2>3 DEF InMilestone
  <2>5. Gathered => Gathered'
    <3>1. CASE \A x \in dirs : ~InMilestone(roadmap, x)
      BY <2>1, <2>2, <2>4, <3>1 DEF Gathered
    <3>2. CASE \E x \in dirs : At(archive, x) # {}
      BY <2>1, <2>2, <2>3, <3>2 DEF Gathered
    <3>3. QED
      BY <3>1, <3>2 DEF Gathered
  <2>6. ASSUME todo # <<>>, todo[1].op = "move", NEW x \in dirs', InMilestone(roadmap', x)
        PROVE  Leaving(x)'
    <3>1. \A y \in dirs : InMilestone(roadmap, y) => Leaving(y)
      BY <2>1, <2>6 DEF Gathering
    <3>2. PICK y \in dirs : Path(x) = Path(y) /\ At(archive, x) = At(archive, y) /\ InMilestone(roadmap, y)
      BY <2>1, <2>2, <2>3, <2>4, <2>6
    <3>3. QED
      BY <2>1, <3>1, <3>2 DEF Leaving, At
  <2>7. "stale" \notin marred
    BY <2>1
  <2>8. QED
    BY <2>1, <2>5, <2>6, <2>7 DEF Gathering
<1>11. ASSUME NEW e \in Executors, UpdatePlanProgress(e) PROVE Goal
  <2>1. UNCHANGED <<roadmap, dirs, archive, todo, shipped, marred>>
    BY <1>11 DEF UpdatePlanProgress, Agents
  <2>2. QED
    BY <2>1 DEF Gathering, Gathered, Leaving
<1>12. ASSUME NEW e \in Executors, SaveProgress(e) PROVE Goal
  <2>1. /\ UNCHANGED <<dirs, archive, todo, shipped>>
        /\ roadmap' = held[e].text /\ held[e].pc = "save" /\ marred' = Overwrites(held[e])
    BY <1>12 DEF SaveProgress
  <2>2. held[e].base = roadmap /\ "stale" \notin marred
    BY <2>1 DEF Overwrites
  <2>3. Headed(roadmap, roadmap')
    BY <2>1, <2>2 DEF KeptHeld
  <2>4. \A d : InMilestone(roadmap', d) <=> InMilestone(roadmap, d)
    BY <1>1, <2>3, HeadedNumbers
  <2>5. QED
    BY <2>1, <2>2, <2>4 DEF Gathering, Gathered, Leaving
<1>13. CASE UNCHANGED vars
  BY <1>13 DEF vars, Gathering, Gathered, Leaving
<1>14. QED
  BY <1>2, <1>3, <1>4, <1>5, <1>6, <1>7, <1>8, <1>9, <1>10, <1>11, <1>12, <1>13 DEF Next, Step

\* milestone complete leaves no directory of the milestone behind, also when it takes
\* over from one that was cut short, unless the archive has one like it.
THEOREM ArchivesAreWhole == Spec => []ArchiveIsWhole
<1>1. Init => Gathering
  BY DEF Init, Gathering
<1>2. Gathering => ArchiveIsWhole
  BY DEF Gathering, ArchiveIsWhole, Gathered
<1>3. QED
  BY <1>1, <1>2, ShapedInit, ShapedNext, KeptInit, KeptNext, GatheringNext, PTL DEF Spec

----------------------------------------------------------------------------
(* Sections that are added have their directories.                           *)

LEMMA HeadedSame ==
  ASSUME NEW R \in Texts, NEW T \in Texts, Headed(R, T), NEW ps
  PROVE  /\ Orderly(R) => Orderly(T)
         /\ Firsts(R, ps) => Firsts(T, ps)
         /\ Has(R, ps) => Has(T, ps)
         /\ \A num : HasBut(R, ps, num) => HasBut(T, ps, num)
         /\ \A ref : Tidy(R, ref) => Tidy(T, ref)
         /\ Agree(R, ps) => Agree(T, ps)
<1>1. /\ DOMAIN T = DOMAIN R
      /\ \A i \in DOMAIN R : /\ T[i].num = R[i].num /\ T[i].listed = R[i].listed
                             /\ PathOf(T[i]) = PathOf(R[i])
  BY DEF Headed, PathOf
<1>2. Orderly(R) => Orderly(T)
  BY <1>1 DEF Orderly
<1>3. Firsts(R, ps) => Firsts(T, ps)
  BY <1>1 DEF Firsts
<1>4. Has(R, ps) => Has(T, ps)
  BY <1>1 DEF Has
<1>5. \A i \in DOMAIN R : Leading(R, i) => Leading(T, i)
  BY <1>1 DEF Leading
<1>6. \A num : HasBut(R, ps, num) => HasBut(T, ps, num)
  BY <1>1, <1>5 DEF HasBut
<1>7. \A ref : Tidy(R, ref) => Tidy(T, ref)
  BY HeadedNumbers DEF Tidy
<1>8. Agree(R, ps) => Agree(T, ps)
  BY <1>1 DEF Agree, Distinct, Covers
<1>9. QED
  BY <1>2, <1>3, <1>4, <1>6, <1>7, <1>8

LEMMA MorePaths ==
  ASSUME NEW R, NEW ps, NEW qs, ps \subseteq qs
  PROVE  /\ Firsts(R, ps) => Firsts(R, qs)
         /\ Has(R, ps) => Has(R, qs)
         /\ \A num : HasBut(R, ps, num) => HasBut(R, qs, num)
BY DEF Firsts, Has, HasBut

LEMMA FewerPaths ==
  ASSUME NEW R, NEW ps, NEW qs, qs \subseteq ps
  PROVE  Agree(R, ps) => Agree(R, qs)
BY DEF Agree, Covers

\* A section with a new integer, at the end.
LEMMA AddSound ==
  ASSUME NEW R \in Texts, NEW name \in Names, NextInteger(R) <= MaxInt, NEW ps
  PROVE  LET T == AddSection(R, name)
             path == <<<<NextInteger(R), 0>>, name>>
         IN  /\ Orderly(R) => Orderly(T)
             /\ Firsts(R, ps) => Firsts(T, ps)
             /\ Has(R, ps) => Has(T, ps \cup {path})
             /\ Agree(R, ps) => Agree(T, ps \cup {path})
<1> DEFINE T == AddSection(R, name)
           n == NextInteger(R)
           path == <<<<n, 0>>, name>>
           l == Len(R)
<1>1. /\ Len(T) = l + 1 /\ T \in Texts
      /\ \A i \in DOMAIN R : T[i] = R[i]
      /\ T[l + 1].num = <<n, 0>> /\ PathOf(T[l + 1]) = path
  BY AddSectionIs DEF PathOf
<1>2. l \in Nat /\ DOMAIN R = 1 .. l /\ DOMAIN T = 1 .. (l + 1)
  BY <1>1, TextIs
<1>3. n \in Nat /\ \A i \in DOMAIN R : R[i].num[1] < n /\ R[i].num[1] \in Nat
  BY NextIntegerIs, TextIs, NumberParts
<1> HIDE DEF T, n, path, l
<1>4. \A i \in DOMAIN R : R[i].num # <<n, 0>> /\ R[i].num[1] # n
  BY <1>3
<1>5. \A i \in DOMAIN T : i \in DOMAIN R \/ i = l + 1
  BY <1>2
<1>6. T[l + 1].num[1] = n
  BY <1>1
<1>7. \A i \in DOMAIN R : i \in Nat /\ i <= l
  BY <1>2
<1>8. Orderly(R) => Orderly(T)
  <2> SUFFICES ASSUME Orderly(R), NEW i \in DOMAIN T, NEW j \in DOMAIN T,
                      ~IsDecimal(T[i].num), T[j].num[1] = T[i].num[1]
               PROVE  i <= j
    BY DEF Orderly
  <2>1. CASE i \in DOMAIN R /\ j \in DOMAIN R
    BY <1>1, <2>1 DEF Orderly
  <2>2. CASE i = l + 1 /\ j \in DOMAIN R
    BY <1>1, <1>4, <1>6, <2>2
  <2>3. CASE j = l + 1
    BY <1>2, <2>3
  <2>4. QED
    BY <1>5, <2>1, <2>2, <2>3
<1>9. Firsts(R, ps) => Firsts(T, ps)
  <2> SUFFICES ASSUME Firsts(R, ps), NEW i \in DOMAIN T, NEW j \in DOMAIN T,
                      j < i, T[j].num = T[i].num
               PROVE  PathOf(T[i]) \in ps
    BY DEF Firsts
  <2>1. j \in DOMAIN R
    BY <1>2
  <2>2. i \in DOMAIN R
    BY <1>1, <1>4, <1>5, <2>1
  <2>3. QED
    BY <1>1, <2>1, <2>2 DEF Firsts
<1>10. Has(R, ps) => Has(T, ps \cup {path})
  BY <1>1, <1>5 DEF Has
<1>11. Agree(R, ps) => Agree(T, ps \cup {path})
  <2>1. Distinct(R) => Distinct(T)
    BY <1>1, <1>4, <1>5 DEF Distinct
  <2>2. DOMAIN R \subseteq DOMAIN T /\ l + 1 \in DOMAIN T
    BY <1>2
  <2>3. Covers(R, ps) => Covers(T, ps \cup {path})
    BY <1>1, <2>2 DEF Covers
  <2>4. QED
    BY <2>1, <2>3 DEF Agree
<1>12. QED
  BY <1>8, <1>9, <1>10, <1>11 DEF T, path, n

\* A section with a new decimal, after that of its integer.
LEMMA InsertSound ==
  ASSUME NEW R \in Texts, NEW ref \in Refs, ~IsDecimal(ref.num), ref.num \in Numbered(R),
         NEW num \in Numbers, num[1] = ref.num[1], IsDecimal(num), NEW name \in Names,
         Orderly(R), NEW ps, NEW qs
  PROVE  LET T == InsertSection(R, ref, num, name)
         IN  /\ Orderly(T)
             /\ Firsts(R, ps) /\ (\A i \in DOMAIN R : R[i].num = num => PathOf(R[i]) \in ps)
                  => Firsts(T, ps)
             /\ Has(R, qs) => Has(T, qs \cup {<<num, name>>})
             /\ Agree(R, qs) /\ num \notin Numbered(R) => Agree(T, qs \cup {<<num, name>>})
<1> DEFINE T == InsertSection(R, ref, num, name)
           l == Len(R)
<1>1. PICK k \in DOMAIN R : R[k].num = ref.num /\ Inserted(R, T, k, num, name)
  BY InsertSectionIs
<1>2. l \in Nat /\ DOMAIN R = 1 .. l /\ DOMAIN T = 1 .. (l + 1) /\ k \in 1 .. l
      /\ \A i \in DOMAIN R : R[i].num \in Numbers
  <2>1. T \in Texts /\ Len(T) = l + 1
    BY <1>1 DEF Inserted
  <2>2. QED
    BY <2>1, TextIs
<1>3. /\ \A i \in 1 .. k : T[i] = R[i]
      /\ T[k + 1].num = num /\ PathOf(T[k + 1]) = <<num, name>>
      /\ \A i \in (k + 1) .. l : T[i + 1] = R[i]
  BY <1>1 DEF Inserted, PathOf
<1> HIDE DEF T, l
\* Where a section comes from.
<1> DEFINE Old(i) == IF i <= k THEN i ELSE i - 1
<1>4. ASSUME NEW i \in DOMAIN T, i # k + 1
      PROVE  Old(i) \in DOMAIN R /\ T[i] = R[Old(i)]
  <2>1. CASE i <= k
    BY <1>2, <1>3, <2>1
  <2>2. CASE i > k
    <3>1. i - 1 \in (k + 1) .. l /\ (i - 1) + 1 = i /\ Old(i) = i - 1
      BY <1>2, <1>4, <2>2
    <3>2. QED
      BY <1>2, <1>3, <3>1
  <2>3. QED
    BY <1>2, <2>1, <2>2
<1>5. \A i, j \in DOMAIN T : i # k + 1 /\ j # k + 1 => (Old(i) <= Old(j) <=> i <= j)
  BY <1>2
<1>6. ASSUME NEW j \in DOMAIN R, R[j].num[1] = num[1] PROVE k <= j
  BY <1>1, <1>6 DEF Orderly
<1>7. ASSUME NEW i \in DOMAIN T, NEW j \in DOMAIN T, ~IsDecimal(T[i].num), T[j].num[1] = T[i].num[1]
      PROVE  i <= j
  <2>1. i # k + 1
    BY <1>3, <1>7
  <2>2. CASE j = k + 1
    <3>1. R[Old(i)].num[1] = ref.num[1] /\ ~IsDecimal(R[Old(i)].num)
      BY <1>3, <1>4, <1>7, <2>1, <2>2
    <3>2. Old(i) <= k
      BY <1>1, <1>4, <2>1, <3>1 DEF Orderly
    <3>3. QED
      BY <1>2, <2>2, <3>2
  <2>3. CASE j # k + 1
    <3>1. Old(i) <= Old(j)
      BY <1>4, <1>7, <2>1, <2>3 DEF Orderly
    <3>2. QED
      BY <1>5, <2>1, <2>3, <3>1
  <2>4. QED
    BY <2>2, <2>3
<1>8. ASSUME Firsts(R, ps), \A i \in DOMAIN R : R[i].num = num => PathOf(R[i]) \in ps,
             NEW i \in DOMAIN T, NEW j \in DOMAIN T, j < i, T[j].num = T[i].num
      PROVE  PathOf(T[i]) \in ps
  <2>1. i \in Nat /\ j \in Nat
    BY <1>2
  <2>2. CASE i = k + 1
    <3>1. j \in DOMAIN R /\ j <= k /\ R[j].num = num
      BY <1>2, <1>3, <1>8, <2>2
    <3>2. j = k
      BY <1>2, <1>6, <3>1
    <3>3. QED
      BY <1>1, <3>1, <3>2
  <2>3. CASE i # k + 1 /\ j = k + 1
    BY <1>3, <1>4, <1>8, <2>3
  <2>4. CASE i # k + 1 /\ j # k + 1
    <3>1. Old(j) < Old(i)
      BY <1>2, <1>8, <2>4
    <3>2. QED
      BY <1>4, <1>8, <2>4, <3>1 DEF Firsts
  <2>5. QED
    BY <2>2, <2>3, <2>4
<1>9. Has(R, qs) => Has(T, qs \cup {<<num, name>>})
  BY <1>3, <1>4 DEF Has
<1>10. Agree(R, qs) /\ num \notin Numbered(R) => Agree(T, qs \cup {<<num, name>>})
  <2> SUFFICES ASSUME Distinct(R), Covers(R, qs), num \notin Numbered(R)
               PROVE  Distinct(T) /\ Covers(T, qs \cup {<<num, name>>})
    BY DEF Agree
  <2>1. \A i \in DOMAIN R : R[i].num # num
    BY DEF Numbered
  <2>2. ASSUME NEW i \in DOMAIN T, NEW j \in DOMAIN T, T[i].num = T[j].num PROVE i = j
    <3>1. CASE i = k + 1 \/ j = k + 1
      BY <1>3, <1>4, <2>1, <2>2, <3>1
    <3>2. CASE i # k + 1 /\ j # k + 1
      <4>1. Old(i) = Old(j)
        BY <1>4, <2>2, <3>2 DEF Distinct
      <4>2. QED
        BY <1>2, <3>2, <4>1
    <3>3. QED
      BY <3>1, <3>2
  <2>3. \A i \in DOMAIN R : \E j \in DOMAIN T : T[j] = R[i]
    <3>1. ASSUME NEW i \in DOMAIN R PROVE \E j \in DOMAIN T : T[j] = R[i]
      <4>1. CASE i <= k
        BY <1>2, <1>3, <4>1
      <4>2. CASE i > k
        <5>1. i \in (k + 1) .. l /\ i + 1 \in DOMAIN T
          BY <1>2, <4>2
        <5>2. QED
          BY <1>3, <5>1
      <4>3. QED
        BY <1>2, <4>1, <4>2
    <3>2. QED
      BY <3>1
  <2>4. k + 1 \in DOMAIN T
    BY <1>2
  <2>5. Covers(T, qs \cup {<<num, name>>})
    BY <1>3, <2>3, <2>4 DEF Covers
  <2>6. QED
    BY <2>2, <2>5 DEF Distinct
<1>11. QED
  BY <1>7, <1>8, <1>9, <1>10 DEF Orderly, Firsts, T

\* The text without the first section of a number.
LEMMA RemoveSound ==
  ASSUME NEW R \in Texts, NEW ref \in Refs, Tidy(R, ref), NEW ps, NEW qs
  PROVE  LET T == RemoveSection(R, ref)
         IN  /\ Orderly(R) => Orderly(T)
             /\ Firsts(R, ps) => Firsts(T, ps)
             /\ HasBut(R, qs, ref.num) => Has(T, qs)
             /\ Agree(R, qs) /\ (\A path \in qs : path[1] # ref.num) => Agree(T, qs)
<1> DEFINE T == RemoveSection(R, ref)
<1>1. T \in Texts
  BY RemoveSectionIs
<1>2. CASE ref.num \notin Numbered(R) /\ Headed(R, T)
  <2>1. HasBut(R, qs, ref.num) => Has(R, qs)
    BY <1>2 DEF HasBut, Has, Numbered
  <2> HIDE DEF T
  <2>2. QED
    BY <1>1, <1>2, <2>1, HeadedSame DEF T
<1>3. ASSUME NEW k \in DOMAIN R, R[k].num = ref.num, Leading(R, k), Headed(RemoveAt(R, k), T)
      PROVE  /\ Orderly(R) => Orderly(T)
             /\ Firsts(R, ps) => Firsts(T, ps)
             /\ HasBut(R, qs, ref.num) => Has(T, qs)
             /\ Agree(R, qs) /\ (\A path \in qs : path[1] # ref.num) => Agree(T, qs)
  <2> DEFINE V == RemoveAt(R, k)
             l == Len(R)
             Old(i) == IF i < k THEN i ELSE i + 1
  <2>1. l \in Nat /\ DOMAIN R = 1 .. l /\ k \in 1 .. l
    BY TextIs
  <2>2. V \in Texts /\ DOMAIN V = 1 .. (l - 1) /\ \A i \in 1 .. (l - 1) : V[i] = R[Old(i)]
    <3>1. /\ V \in Seq(Entries) /\ Len(V) = l - 1
          /\ \A i \in 1 .. (l - 1) : V[i] = R[Old(i)]
      BY <2>1, RemoveAtIs DEF Texts
    <3>2. DOMAIN V = 1 .. (l - 1)
      BY <2>1, <3>1
    <3>3. QED
      BY <3>1, <3>2 DEF Texts
  <2>3. Headed(V, T)
    BY <1>3
  <2> HIDE DEF V, T, l
  <2>4. \A i \in DOMAIN V : Old(i) \in DOMAIN R /\ V[i] = R[Old(i)] /\ Old(i) # k
    BY <2>1, <2>2
  <2>5. \A i, j \in DOMAIN V : /\ Old(i) <= Old(j) => i <= j
                               /\ j < i => Old(j) < Old(i)
                               /\ Old(i) = Old(j) => i = j
    BY <2>1, <2>2
  <2>6. \A i \in DOMAIN R : i # k => \E j \in DOMAIN V : Old(j) = i
    <3>1. ASSUME NEW i \in DOMAIN R, i # k PROVE \E j \in DOMAIN V : Old(j) = i
      <4>1. CASE i < k
        BY <2>1, <2>2, <4>1
      <4>2. CASE i > k
        <5>1. i - 1 \in DOMAIN V /\ Old(i - 1) = i
          BY <2>1, <2>2, <4>2
        <5>2. QED
          BY <5>1
      <4>3. QED
        BY <2>1, <3>1, <4>1, <4>2
    <3>2. QED
      BY <3>1
  <2> HIDE DEF Old
  <2>7. Orderly(R) => Orderly(V)
    BY <2>4, <2>5 DEF Orderly
  <2>8. Firsts(R, ps) => Firsts(V, ps)
    BY <2>4, <2>5 DEF Firsts
  <2>9. HasBut(R, qs, ref.num) => Has(V, qs)
    <3>1. \A i \in DOMAIN R : R[i].num = ref.num /\ Leading(R, i) => i = k
      <4>1. ASSUME NEW i \in DOMAIN R, R[i].num = ref.num, Leading(R, i) PROVE i = k
        <5>1. i <= k /\ k <= i
          BY <1>3, <4>1 DEF Leading
        <5>2. QED
          BY <2>1, <5>1
      <4>2. QED
        BY <4>1
    <3>2. QED
      BY <2>4, <3>1 DEF HasBut, Has
  <2>10. Agree(R, qs) /\ (\A path \in qs : path[1] # ref.num) => Agree(V, qs)
    <3> SUFFICES ASSUME Distinct(R), Covers(R, qs), \A path \in qs : path[1] # ref.num
                 PROVE  Distinct(V) /\ Covers(V, qs)
      BY DEF Agree
    <3>1. Distinct(V)
      BY <2>4, <2>5 DEF Distinct
    <3>2. ASSUME NEW path \in qs PROVE \E j \in DOMAIN V : PathOf(V[j]) = path
      <4>1. PICK i \in DOMAIN R : PathOf(R[i]) = path
        BY <3>2 DEF Covers
      <4>2. i # k
        BY <1>3, <4>1, <3>2 DEF PathOf
      <4>3. PICK j \in DOMAIN V : Old(j) = i
        BY <2>6, <4>2
      <4>4. QED
        BY <2>4, <4>1, <4>3
    <3>3. QED
      BY <3>1, <3>2 DEF Covers
  <2>11. QED
    BY <1>1, <2>2, <2>3, <2>7, <2>8, <2>9, <2>10, HeadedSame
<1>4. QED
  BY <1>2, <1>3, RemoveSectionIs

\* What has happened is never taken back.
LEMMA MarredGrows == [Next]_vars => marred \subseteq marred'
BY DEF Next, vars, Command, PhaseAdd, PhaseInsert, PhaseRemove, PhaseComplete, MilestoneComplete,
       Step, DoMkdir, DoSave, Overwrites, DoTell, DoRm, DoRename, DoExcise, DoMove, DoShip, Crash,
       Scaffold, Prepare, Execute, UpdatePlanProgress, SaveProgress, Agents

\* Operations that neither save nor remove.
Plain == \A i \in DOMAIN todo : todo[i].op \in {"tell", "move", "ship"}

LEMMA PrepareIs ==
  ASSUME Shaped, NEW d \in dirs, Prepare(d)
  PROVE  UNCHANGED <<roadmap, todo, archive, shipped>> /\ PathsOf(dirs') = PathsOf(dirs)
<1>1. PICK new : Path(new) = Path(d) /\ Replace({d}, new)
  <2>1. d \in Dirs
    BY DEF Shaped, Typing
  <2>2. /\ Path([d EXCEPT !.prep = "context"]) = Path(d)
        /\ Path([d EXCEPT !.prep = "research"]) = Path(d)
        /\ Path([d EXCEPT !.plans = @ + 1]) = Path(d)
    BY <2>1 DEF Path, Dirs
  <2>3. QED
    BY <2>2 DEF Prepare
<1>2. UNCHANGED <<roadmap, todo, archive, shipped>>
  BY DEF Prepare, Agents
<1>3. PathsOf(dirs') = PathsOf(dirs)
  BY <1>1 DEF Replace, PathsOf
<1>4. QED
  BY <1>2, <1>3

\* Paths stay on the disk.
LEMMA PathsStay ==
  ASSUME Shaped, [Next]_vars, ~DoRm, ~DoRename
  PROVE  /\ PathsOf(archive) \subseteq PathsOf(archive')
         /\ Everywhere \subseteq Everywhere'
<1>1. ASSUME archive \subseteq archive', dirs \subseteq dirs' \cup archive'
      PROVE  PathsOf(archive) \subseteq PathsOf(archive') /\ Everywhere \subseteq Everywhere'
  BY <1>1 DEF Everywhere, PathsOf
<1>2. CASE UNCHANGED <<dirs, archive>>
  BY <1>1, <1>2
<1>3. CASE Command
  BY <1>2, <1>3 DEF Command, PhaseAdd, PhaseInsert, PhaseRemove, PhaseComplete, MilestoneComplete, Begin
<1>4. CASE DoMkdir
  BY <1>1, <1>4 DEF DoMkdir
<1>5. CASE DoSave \/ DoExcise \/ DoTell \/ DoShip \/ Crash
  BY <1>2, <1>5 DEF DoSave, DoExcise, DoTell, DoShip, Crash
<1>6. CASE DoMove
  <2>1. archive \subseteq archive' /\ dirs \subseteq dirs' \cup archive'
    BY <1>6, MoveIs
  <2>2. QED
    BY <1>1, <2>1
<1>7. ASSUME NEW i \in DOMAIN roadmap, Scaffold(i)
      PROVE  PathsOf(archive) \subseteq PathsOf(archive') /\ Everywhere \subseteq Everywhere'
  BY <1>1, <1>7 DEF Scaffold, Replace, Agents
<1>8. ASSUME NEW d \in dirs, Prepare(d)
      PROVE  PathsOf(archive) \subseteq PathsOf(archive') /\ Everywhere \subseteq Everywhere'
  <2>1. UNCHANGED archive /\ PathsOf(dirs') = PathsOf(dirs)
    BY <1>8, PrepareIs
  <2>2. QED
    BY <2>1 DEF Everywhere, PathsOf
<1>9. ASSUME NEW e \in Executors, NEW d \in dirs, Execute(e, d)
      PROVE  PathsOf(archive) \subseteq PathsOf(archive') /\ Everywhere \subseteq Everywhere'
  <2>1. UNCHANGED archive /\ PathsOf(dirs') = PathsOf(dirs)
    BY <1>9, ExecuteIs
  <2>2. QED
    BY <2>1 DEF Everywhere, PathsOf
<1>10. CASE \E e \in Executors : UpdatePlanProgress(e) \/ SaveProgress(e)
  BY <1>2, <1>10 DEF UpdatePlanProgress, SaveProgress, Agents
<1>11. CASE UNCHANGED vars
  BY <1>2, <1>11 DEF vars
<1>12. QED
  BY <1>3, <1>4, <1>5, <1>6, <1>7, <1>8, <1>9, <1>10, <1>11 DEF Next, Step

AddedNow == Sound(roadmap) /\ (Removing \/ Has(roadmap, Everywhere)) /\ SavesAdd /\ RemovesClean

\* A step that changes neither the text nor the queue.
LEMMA AddedQuiet ==
  ASSUME AddedNow, UNCHANGED <<roadmap, todo>>,
         PathsOf(archive) \subseteq PathsOf(archive'), Everywhere \subseteq Everywhere'
  PROVE  AddedNow'
<1>1. Sound(roadmap)' /\ (Removing' <=> Removing)
  BY MorePaths DEF AddedNow, Sound, Removing
<1>2. Removing' \/ Has(roadmap, Everywhere)'
  BY <1>1, MorePaths DEF AddedNow
<1>3. SavesAdd'
  <2> SUFFICES ASSUME NEW i \in DOMAIN todo, todo[i].op = "save"
               PROVE  /\ Orderly(todo[i].text) /\ Firsts(todo[i].text, PathsOf(archive'))
                      /\ Has(todo[i].text, Everywhere' \cup Made(i))
    BY DEF SavesAdd, Sound, Made
  <2>1. /\ Orderly(todo[i].text) /\ Firsts(todo[i].text, PathsOf(archive))
        /\ Has(todo[i].text, Everywhere \cup Made(i))
    BY DEF AddedNow, SavesAdd, Sound
  <2>2. Everywhere \cup Made(i) \subseteq Everywhere' \cup Made(i)
    OBVIOUS
  <2>3. QED
    BY <2>1, <2>2, MorePaths
<1>4. RemovesClean'
  <2> SUFFICES ASSUME NEW i \in DOMAIN todo
               PROVE  /\ todo[i].op # "rename"
                      /\ todo[i].op = "rm" => /\ i = 1 /\ Len(todo) = 2 /\ todo[2].op = "excise"
                                              /\ todo[i].dir.num = todo[2].ref.num
                      /\ todo[i].op = "excise" =>
                           /\ Tidy(roadmap, todo[i].ref)
                           /\ IF i = 1 THEN HasBut(roadmap, Everywhere', todo[i].ref.num)
                                       ELSE Has(roadmap, Everywhere')
                      /\ todo[i].op = "rewrite" =>
                           /\ Orderly(todo[i].text) /\ Firsts(todo[i].text, PathsOf(archive'))
                           /\ Has(todo[i].text, Everywhere')
    BY DEF RemovesClean, Sound
  <2>1. /\ todo[i].op # "rename"
        /\ todo[i].op = "rm" => /\ i = 1 /\ Len(todo) = 2 /\ todo[2].op = "excise"
                                /\ todo[i].dir.num = todo[2].ref.num
        /\ todo[i].op = "excise" =>
             /\ Tidy(roadmap, todo[i].ref)
             /\ IF i = 1 THEN HasBut(roadmap, Everywhere, todo[i].ref.num) ELSE Has(roadmap, Everywhere)
        /\ todo[i].op = "rewrite" =>
             /\ Orderly(todo[i].text) /\ Firsts(todo[i].text, PathsOf(archive))
             /\ Has(todo[i].text, Everywhere)
    BY DEF AddedNow, RemovesClean, Sound
  <2>2. QED
    BY <2>1, MorePaths
<1>5. QED
  BY <1>1, <1>2, <1>3, <1>4 DEF AddedNow

\* What the saves of a new queue add.
LEMMA SavesOf ==
  ASSUME \A i \in DOMAIN todo' : todo'[i].op = "save" =>
           /\ Orderly(todo'[i].text) /\ Firsts(todo'[i].text, PathsOf(archive'))
           /\ Has(todo'[i].text, Everywhere' \cup (IF i = 1 THEN {} ELSE {Path(todo'[1].dir)}))
  PROVE  SavesAdd'
BY DEF SavesAdd, Sound, Made

LEMMA PlainNext == Plain' => SavesAdd' /\ RemovesClean' /\ ~Removing' /\ QueueAgrees'
BY DEF Plain, SavesAdd, RemovesClean, Removing, QueueAgrees

\* The number of an inserted phase belongs to no directory in phases/.
LEMMA InsertFresh ==
  ASSUME Shaped, Has(roadmap, Everywhere), NEW ref \in Refs, NEW name \in Names, PhaseInsert(ref, name)
  PROVE  LET num == <<ref.num[1], NextDecimal(dirs, ref.num[1])>>
         IN  /\ num \in Numbers /\ num[1] = ref.num[1] /\ IsDecimal(num)
             /\ \A i \in DOMAIN roadmap : roadmap[i].num = num => PathOf(roadmap[i]) \in PathsOf(archive)
<1> DEFINE num == <<ref.num[1], NextDecimal(dirs, ref.num[1])>>
<1>1. roadmap \in Texts /\ dirs \subseteq Dirs
  BY DEF Shaped, Typing
<1>2. ref.num[1] \in 1 .. MaxInt
  BY NumberParts DEF Refs
<1>3. /\ NextDecimal(dirs, ref.num[1]) \in Nat \ {0}
      /\ \A d \in dirs : d.num[1] = ref.num[1] => d.num[2] < NextDecimal(dirs, ref.num[1])
  BY <1>1, <1>2, NextDecimalIs
<1>4. NextDecimal(dirs, ref.num[1]) <= MaxDec
  BY DEF PhaseInsert
<1>5. num \in Numbers /\ num[1] = ref.num[1] /\ num[2] = NextDecimal(dirs, ref.num[1]) /\ IsDecimal(num)
  BY <1>2, <1>3, <1>4, RoadmapAssumption DEF Numbers, IsDecimal
<1>6. ASSUME NEW d \in dirs PROVE d.num # num
  <2>1. d.num[2] \in Nat
    BY <1>1, NumberParts DEF Dirs
  <2>2. d.num = num => d.num[2] < d.num[2]
    BY <1>3, <1>5
  <2>3. QED
    BY <2>1, <2>2
<1> HIDE DEF num
<1>7. ASSUME NEW i \in DOMAIN roadmap, roadmap[i].num = num
      PROVE  PathOf(roadmap[i]) \in PathsOf(archive)
  <2>1. ~roadmap[i].listed
    BY <1>1, <1>5, <1>7, TextIs DEF Entries
  <2>2. PathOf(roadmap[i]) \in Everywhere
    BY <2>1 DEF Has
  <2>3. PICK d \in dirs \cup archive : Path(d) = PathOf(roadmap[i])
    BY <2>2 DEF Everywhere, PathsOf
  <2>4. d.num = num
    BY <1>7, <2>3 DEF Path, PathOf
  <2>5. QED
    BY <1>6, <2>3, <2>4 DEF PathsOf
<1>8. QED
  BY <1>5, <1>7 DEF num

LEMMA AddedCommand == Shaped /\ Added /\ Command /\ marred' \subseteq {"crash"} => AddedNow'
<1> SUFFICES ASSUME Shaped, Added, Command, marred' \subseteq {"crash"} PROVE AddedNow'
  OBVIOUS
<1>1. /\ roadmap \in Texts /\ dirs \subseteq Dirs /\ archive \subseteq Dirs /\ todo = <<>>
      /\ UNCHANGED <<roadmap, dirs, archive>>
  BY DEF Shaped, Typing, Command, Idle, PhaseAdd, PhaseInsert, PhaseRemove, PhaseComplete,
         MilestoneComplete, Begin
<1>2. Sound(roadmap) /\ Has(roadmap, Everywhere)
  <2>1. marred \subseteq {"crash"}
    BY MarredGrows DEF Next
  <2>2. ~Removing
    BY <1>1 DEF Removing
  <2>3. QED
    BY <2>1, <2>2 DEF Added
<1>3. Sound(roadmap)' /\ Has(roadmap, Everywhere)' /\ Everywhere' = Everywhere
  BY <1>1, <1>2 DEF Sound, Everywhere
<1>4. ASSUME NEW a, NEW b, NEW text, todo' = <<a, b>>, a.op = "mkdir", b.op = "save", b.text = text,
             Sound(text), Has(text, Everywhere \cup {Path(a.dir)})
      PROVE  AddedNow'
  <2>1. DOMAIN todo' = 1 .. 2 /\ todo'[1] = a /\ todo'[2] = b
    BY <1>4
  <2>2. /\ Orderly(text) /\ Firsts(text, PathsOf(archive'))
        /\ Has(text, Everywhere' \cup {Path(a.dir)})
    BY <1>1, <1>3, <1>4 DEF Sound
  <2>3. \A i \in DOMAIN todo' : todo'[i].op = "save" => i # 1 /\ todo'[i].text = text
    BY <1>4, <2>1
  <2>4. SavesAdd'
    BY <2>1, <2>2, <2>3, SavesOf
  <2>5. RemovesClean'
    BY <1>4, <2>1 DEF RemovesClean
  <2>6. QED
    BY <1>3, <2>4, <2>5 DEF AddedNow
<1>5. ASSUME NEW name \in Names, PhaseAdd(name) PROVE AddedNow'
  <2> DEFINE num == <<NextInteger(roadmap), 0>>
             a == Mkdir(num, name)
             b == Save(AddSection(roadmap, name))
  <2>1. todo' = <<a, b>> /\ NextInteger(roadmap) <= MaxInt
    BY <1>5 DEF PhaseAdd, Begin
  <2>2. num \in Numbers
    BY <1>1, <2>1, AddSectionIs
  <2>3. a.op = "mkdir" /\ Path(a.dir) = <<num, name>>
    BY <2>2, MkdirJobIs
  <2>4. b.op = "save" /\ b.text = AddSection(roadmap, name)
    BY DEF Save
  <2>5. Sound(AddSection(roadmap, name)) /\ Has(AddSection(roadmap, name), Everywhere \cup {<<num, name>>})
    BY <1>1, <1>2, <2>1, AddSound DEF Sound
  <2> HIDE DEF a, b, num
  <2>6. QED
    BY <1>4, <2>1, <2>3, <2>4, <2>5
<1>6. ASSUME NEW ref \in Refs, NEW name \in Names, PhaseInsert(ref, name) PROVE AddedNow'
  <2> DEFINE num == <<ref.num[1], NextDecimal(dirs, ref.num[1])>>
             text == InsertSection(roadmap, ref, num, name)
             a == Mkdir(num, name)
             b == Save(text)
  <2>1. todo' = <<a, b>> /\ ~IsDecimal(ref.num) /\ ref.num \in Numbered(roadmap)
    BY <1>6 DEF PhaseInsert, Begin
  <2>2. /\ num \in Numbers /\ num[1] = ref.num[1] /\ IsDecimal(num)
        /\ \A i \in DOMAIN roadmap : roadmap[i].num = num => PathOf(roadmap[i]) \in PathsOf(archive)
    BY <1>2, <1>6, InsertFresh
  <2> HIDE DEF num
  <2>3. a.op = "mkdir" /\ Path(a.dir) = <<num, name>>
    BY <2>2, MkdirJobIs
  <2>4. b.op = "save" /\ b.text = text
    BY DEF Save
  <2>5. Sound(text) /\ Has(text, Everywhere \cup {<<num, name>>})
    BY <1>1, <1>2, <2>1, <2>2, InsertSound DEF Sound
  <2> HIDE DEF a, b, text
  <2>6. QED
    BY <1>4, <2>1, <2>3, <2>4, <2>5
<1>7. ASSUME NEW ref \in Refs, NEW force \in BOOLEAN, PhaseRemove(ref, force) PROVE AddedNow'
  <2> DEFINE a == RmOf(ref, force)
             b == ExciseOf(ref)
  <2>1. todo' = RemovalSteps(ref, force)
    BY <1>7 DEF PhaseRemove, Begin
  <2>2. ~Untidy(ref)
    BY <1>7 DEF PhaseRemove
  <2>3. Later(dirs, ref.num) = {} /\ Tidy(roadmap, ref)
    BY <2>2 DEF Untidy, Tidy, After
  <2>4. b.op = "excise" /\ b.ref = ref /\ a.op = "rm"
    BY DEF ExciseOf, RmOf
  <2>5. ExactDirs(dirs, ref.num) # {} => a.dir.num = ref.num
    BY <1>1, RemovalJobs
  <2>6. \/ todo' = <<b>>
        \/ todo' = <<a, b>> /\ ExactDirs(dirs, ref.num) # {}
    BY <2>1, <2>3, RemovalStepsAre
  <2> HIDE DEF a, b
  <2>7. Tidy(roadmap', ref) /\ Has(roadmap', Everywhere') /\ HasBut(roadmap', Everywhere', ref.num)
    BY <1>1, <1>3, <2>3 DEF Has, HasBut
  <2>8. CASE todo' = <<b>>
    <3>1. DOMAIN todo' = 1 .. 1 /\ todo'[1] = b
      BY <2>8
    <3>2. SavesAdd' /\ RemovesClean'
      BY <2>4, <2>7, <3>1 DEF SavesAdd, RemovesClean
    <3>3. QED
      BY <1>3, <3>2 DEF AddedNow
  <2>9. CASE todo' = <<a, b>> /\ ExactDirs(dirs, ref.num) # {}
    <3>1. Len(todo') = 2 /\ DOMAIN todo' = 1 .. 2 /\ todo'[1] = a /\ todo'[2] = b
      BY <2>9
    <3>2. SavesAdd' /\ RemovesClean'
      BY <2>4, <2>5, <2>7, <2>9, <3>1 DEF SavesAdd, RemovesClean
    <3>3. QED
      BY <1>3, <3>2 DEF AddedNow
  <2>10. QED
    BY <2>6, <2>8, <2>9
<1>8. ASSUME NEW ref \in Refs, PhaseComplete(ref) PROVE AddedNow'
  <2> DEFINE a == Save(Tick(roadmap, ref))
             b == [op |-> "tell", num |-> ref.num]
  <2>1. todo' = <<a, b>>
    BY <1>8 DEF PhaseComplete, Begin
  <2>2. a.op = "save" /\ a.text = Tick(roadmap, ref) /\ b.op = "tell"
    BY DEF Save
  <2>3. Tick(roadmap, ref) \in Texts /\ Headed(roadmap, Tick(roadmap, ref))
    BY <1>1, TickIs
  <2>4. Sound(Tick(roadmap, ref)) /\ Has(Tick(roadmap, ref), Everywhere)
    BY <1>1, <1>2, <2>3, HeadedSame DEF Sound
  <2> HIDE DEF a, b
  <2>5. DOMAIN todo' = 1 .. 2 /\ todo'[1] = a /\ todo'[2] = b
    BY <2>1
  <2>6. SavesAdd'
    <3>1. /\ Orderly(a.text) /\ Firsts(a.text, PathsOf(archive')) /\ Has(a.text, Everywhere' \cup {})
      BY <1>1, <1>3, <2>2, <2>4 DEF Sound
    <3>2. \A i \in DOMAIN todo' : todo'[i].op = "save" => i = 1 /\ todo'[i] = a
      BY <2>2, <2>5
    <3>3. QED
      BY <3>1, <3>2, SavesOf
  <2>7. RemovesClean'
    BY <2>2, <2>5 DEF RemovesClean
  <2>8. QED
    BY <1>3, <2>6, <2>7 DEF AddedNow
<1>9. ASSUME MilestoneComplete PROVE AddedNow'
  <2>1. Plain'
    <3>1. todo' \in Seq(Jobs)
      BY ShapedNext DEF Next, Shaped, Typing
    <3>2. QED
      BY <1>9, <3>1, ShippingIs DEF Plain
  <2>2. SavesAdd' /\ RemovesClean'
    BY <2>1, PlainNext
  <2>3. QED
    BY <1>3, <2>2 DEF AddedNow
<1>10. QED
  BY <1>5, <1>6, <1>7, <1>8, <1>9 DEF Command

\* What follows the first operation, when nothing is renamed.
LEMMA RestIs ==
  ASSUME Shaped, todo # <<>>, \A i \in DOMAIN todo : todo[i].op # "rename", Advance
  PROVE  /\ todo[1].op \in {"save", "rewrite", "tell", "ship"} => Plain'
         /\ todo[1].op = "mkdir" => \A i \in DOMAIN todo' :
              \/ i = 1 /\ todo'[i] = todo[2] /\ 2 \in DOMAIN todo
              \/ todo'[i].op \in {"tell", "move", "ship"}
         /\ todo[1].op = "mkdir" => ~Removing
<1>1. /\ todo \in Seq(Jobs) /\ Len(todo) \in Nat /\ DOMAIN todo = 1 .. Len(todo)
      /\ Len(todo') = Len(todo) - 1 /\ DOMAIN todo' = 1 .. (Len(todo) - 1)
      /\ \A i \in DOMAIN todo' : i + 1 \in DOMAIN todo /\ todo'[i] = todo[i + 1]
  BY NowIs, AdvanceIs
<1>2. ASSUME NEW j \in DOMAIN todo, j # 1, todo[1].op \notin {"rm", "rename"}
      PROVE  \/ todo[j].op \in {"tell", "move", "ship"}
             \/ todo[j].op = "save" /\ j = 2 /\ todo[1].op = "mkdir"
  <2>1. Placed(j) /\ todo[j] \in Jobs
    BY <1>1 DEF Shaped, Queued
  <2>2. 1 \in 1 .. (j - 1) /\ j > 1
    BY <1>1, <1>2
  <2>3. /\ todo[j].op # "mkdir" /\ todo[j].op # "rm" /\ todo[j].op # "rewrite"
        /\ todo[j].op = "save" => j = 2 /\ todo[1].op = "mkdir"
    BY <1>2, <2>1 DEF Placed
  <2>4. todo[j].op # "excise"
    BY <1>2, <2>1, <2>2 DEF Placed
  <2>5. QED
    BY <2>1, <2>3, <2>4, JobKinds
<1>3. \A i \in DOMAIN todo' : i \in Nat /\ i + 1 # 1 /\ (i + 1 = 2 => i = 1)
  BY <1>1
<1>4. todo[1].op \in {"save", "rewrite", "tell", "ship"} => Plain'
  BY <1>1, <1>2, <1>3 DEF Plain
<1>5. todo[1].op = "mkdir" => \A i \in DOMAIN todo' :
              \/ i = 1 /\ todo'[i] = todo[2] /\ 2 \in DOMAIN todo
              \/ todo'[i].op \in {"tell", "move", "ship"}
  BY <1>1, <1>2, <1>3
<1>6. todo[1].op = "mkdir" => ~Removing
  BY <1>1, <1>2 DEF Removing
<1>7. QED
  BY <1>4, <1>5, <1>6

LEMMA AddedMkdir == Shaped /\ AddedNow /\ [Next]_vars /\ DoMkdir => AddedNow'
<1> SUFFICES ASSUME Shaped, AddedNow, [Next]_vars, DoMkdir PROVE AddedNow'
  OBVIOUS
<1>1. todo # <<>> /\ todo[1].op = "mkdir" /\ Advance /\ Now = todo[1] /\ 1 \in DOMAIN todo
      /\ UNCHANGED <<roadmap, archive>>
      /\ dirs' = IF At(dirs, todo[1].dir) # {} THEN dirs ELSE dirs \cup {todo[1].dir}
  BY NowIs DEF DoMkdir, Doing
<1>2. /\ ~Removing
      /\ \A i \in DOMAIN todo' : \/ i = 1 /\ todo'[i] = todo[2] /\ 2 \in DOMAIN todo
                                 \/ todo'[i].op \in {"tell", "move", "ship"}
  BY <1>1, RestIs DEF AddedNow, RemovesClean
<1>3. Everywhere \cup {Path(todo[1].dir)} \subseteq Everywhere'
  BY <1>1 DEF Everywhere, PathsOf, At
<1>4. Sound(roadmap)' /\ Has(roadmap, Everywhere)'
  BY <1>1, <1>2, <1>3, MorePaths DEF AddedNow, Sound
<1>5. ASSUME 2 \in DOMAIN todo, todo[2].op = "save"
      PROVE  /\ Orderly(todo[2].text) /\ Firsts(todo[2].text, PathsOf(archive'))
             /\ Has(todo[2].text, Everywhere')
  <2>1. Sound(todo[2].text) /\ Has(todo[2].text, Everywhere \cup {Path(todo[1].dir)})
    BY <1>5 DEF AddedNow, SavesAdd, Made
  <2>2. Orderly(todo[2].text) /\ Firsts(todo[2].text, PathsOf(archive'))
    BY <1>1, <2>1 DEF Sound
  <2>3. Has(todo[2].text, Everywhere')
    BY <1>3, <2>1 DEF Has
  <2>4. QED
    BY <2>2, <2>3
<1>6. SavesAdd'
  <2>1. \A i \in DOMAIN todo' : todo'[i].op = "save" => i = 1 /\ todo'[i] = todo[2] /\ 2 \in DOMAIN todo
    BY <1>2
  <2>2. \A i \in DOMAIN todo' : todo'[i].op = "save" =>
           /\ Orderly(todo'[i].text) /\ Firsts(todo'[i].text, PathsOf(archive'))
           /\ Has(todo'[i].text, Everywhere' \cup {})
    BY <1>5, <2>1
  <2>3. QED
    BY <2>1, <2>2, SavesOf
<1>7. RemovesClean'
  <2>1. 2 \in DOMAIN todo => todo[2].op \notin {"rename", "rm", "excise", "rewrite"}
    <3>1. 2 \in DOMAIN todo => Placed(2) /\ todo[2].op # "rename"
      BY DEF Shaped, Queued, AddedNow, RemovesClean
    <3>2. 1 \in 1 .. (2 - 1)
      OBVIOUS
    <3>3. 2 \in DOMAIN todo => todo[2].op \notin {"excise", "rewrite"}
      BY <1>2 DEF Removing
    <3>4. QED
      BY <3>1, <3>3 DEF Placed
  <2>2. \A i \in DOMAIN todo' : todo'[i].op \notin {"rename", "rm", "excise", "rewrite"}
    BY <1>2, <2>1
  <2>3. QED
    BY <2>2 DEF RemovesClean
<1>8. QED
  BY <1>4, <1>6, <1>7 DEF AddedNow

\* A text with its sections in order, and a queue without such operations.
LEMMA AddedPlain ==
  ASSUME Sound(roadmap)', Has(roadmap, Everywhere)', Plain'
  PROVE  AddedNow'
BY PlainNext DEF AddedNow

LEMMA AddedSave == Shaped /\ AddedNow /\ DoSave => AddedNow'
<1> SUFFICES ASSUME Shaped, AddedNow, DoSave PROVE AddedNow'
  OBVIOUS
<1>1. /\ todo # <<>> /\ todo[1].op \in {"save", "rewrite"} /\ Advance
      /\ roadmap' = todo[1].text /\ 1 \in DOMAIN todo
      /\ UNCHANGED <<dirs, archive>>
  BY NowIs DEF DoSave, Doing
<1>2. Sound(todo[1].text) /\ Has(todo[1].text, Everywhere)
  <2>1. Has(todo[1].text, Everywhere \cup {}) => Has(todo[1].text, Everywhere)
    OBVIOUS
  <2>2. CASE todo[1].op = "save"
    BY <1>1, <2>1, <2>2 DEF AddedNow, SavesAdd, Made
  <2>3. CASE todo[1].op = "rewrite"
    BY <1>1, <2>3 DEF AddedNow, RemovesClean
  <2>4. QED
    BY <1>1, <2>2, <2>3
<1>3. Plain'
  BY <1>1, RestIs DEF AddedNow, RemovesClean
<1>4. Sound(roadmap)' /\ Has(roadmap, Everywhere)'
  BY <1>1, <1>2 DEF Sound, Everywhere
<1>5. QED
  BY <1>3, <1>4, AddedPlain

\* Only the directory of the section that is to go is removed.
LEMMA AddedRm == Shaped /\ AddedNow /\ DoRm => AddedNow'
<1> SUFFICES ASSUME Shaped, AddedNow, DoRm PROVE AddedNow'
  OBVIOUS
<1>1. /\ todo # <<>> /\ todo[1].op = "rm" /\ Advance /\ 1 \in DOMAIN todo
      /\ dirs' = dirs \ At(dirs, todo[1].dir)
      /\ UNCHANGED <<roadmap, archive>> /\ roadmap \in Texts
  BY NowIs DEF DoRm, Doing, Shaped, Typing
<1> DEFINE num == todo[2].ref.num
<1>2. Len(todo) = 2 /\ todo[2].op = "excise" /\ todo[1].dir.num = num
  BY <1>1 DEF AddedNow, RemovesClean
<1>3. Tidy(roadmap, todo[2].ref) /\ Has(roadmap, Everywhere)
  <2>1. 2 \in DOMAIN todo /\ 2 # 1
    BY <1>1, <1>2, NowIs
  <2>2. QED
    BY <1>2, <2>1 DEF AddedNow, RemovesClean
<1>4. DOMAIN todo' = {1} /\ todo'[1] = todo[2] /\ todo' # <<>>
  <2>1. DOMAIN todo' = 1 .. 1
    BY <1>1, <1>2, AdvanceIs
  <2>2. QED
    BY <1>1, <2>1, AdvanceIs
<1>5. HasBut(roadmap, Everywhere', num)
  <2> SUFFICES ASSUME NEW i \in DOMAIN roadmap, ~roadmap[i].listed, PathOf(roadmap[i]) \notin Everywhere'
               PROVE  roadmap[i].num = num /\ Leading(roadmap, i)
    BY DEF HasBut
  <2>1. PathOf(roadmap[i]) \in Everywhere
    BY <1>3 DEF Has
  <2>2. PathOf(roadmap[i]) = Path(todo[1].dir)
    BY <1>1, <2>1 DEF Everywhere, PathsOf, At
  <2>3. roadmap[i].num = num
    BY <1>2, <2>2 DEF Path, PathOf
  <2>4. PathOf(roadmap[i]) \notin PathsOf(archive)
    BY <1>1 DEF Everywhere, PathsOf
  <2>5. ASSUME NEW j \in DOMAIN roadmap, roadmap[j].num = roadmap[i].num PROVE i <= j
    <3>1. ~(j < i)
      BY <2>4, <2>5 DEF AddedNow, Sound, Firsts
    <3>2. i \in Nat /\ j \in Nat
      BY <1>1, TextIs
    <3>3. QED
      BY <3>1, <3>2
  <2>6. QED
    BY <2>3, <2>5 DEF Leading
<1>6. Sound(roadmap)' /\ Removing'
  BY <1>1, <1>2, <1>4 DEF AddedNow, Sound, Removing
<1>7. SavesAdd'
  BY <1>2, <1>4 DEF SavesAdd
<1>8. RemovesClean'
  BY <1>1, <1>2, <1>3, <1>4, <1>5 DEF RemovesClean
<1>9. QED
  BY <1>6, <1>7, <1>8 DEF AddedNow

LEMMA AddedExcise == Shaped /\ AddedNow /\ DoExcise => AddedNow'
<1> SUFFICES ASSUME Shaped, AddedNow, DoExcise PROVE AddedNow'
  OBVIOUS
<1> DEFINE ref == todo[1].ref
           text == RemoveSection(roadmap, ref)
           job == [Save(text) EXCEPT !.op = "rewrite"]
<1>1. /\ todo # <<>> /\ todo[1].op = "excise" /\ 1 \in DOMAIN todo /\ todo[1] \in Jobs
      /\ todo' = <<job>> /\ UNCHANGED <<roadmap, dirs, archive>> /\ roadmap \in Texts
  BY NowIs DEF DoExcise, Doing, Shaped, Typing
<1>2. ref \in Refs
  BY <1>1, JobKinds DEF ExciseJobs
<1>3. job.op = "rewrite" /\ job.text = text
  BY DEF Save
<1>4. Tidy(roadmap, ref) /\ HasBut(roadmap, Everywhere, ref.num)
  BY <1>1 DEF AddedNow, RemovesClean
<1>5. Orderly(text) /\ Firsts(text, PathsOf(archive)) /\ Has(text, Everywhere)
  BY <1>1, <1>2, <1>4, RemoveSound DEF AddedNow, Sound
<1> HIDE DEF job, text, ref
<1>6. DOMAIN todo' = {1} /\ todo'[1] = job
  BY <1>1
<1>7. Sound(roadmap)' /\ Removing'
  BY <1>1, <1>3, <1>6 DEF AddedNow, Sound, Removing
<1>8. SavesAdd'
  BY <1>3, <1>6 DEF SavesAdd
<1>9. RemovesClean'
  BY <1>1, <1>3, <1>5, <1>6 DEF RemovesClean, Sound, Everywhere
<1>10. QED
  BY <1>7, <1>8, <1>9 DEF AddedNow

LEMMA AddedProgress ==
  ASSUME Shaped, Kept, AddedNow, NEW e \in Executors, SaveProgress(e), marred' \subseteq {"crash"}
  PROVE  AddedNow'
<1>1. /\ roadmap' = held[e].text /\ held[e].pc = "save" /\ held[e].base = roadmap
      /\ UNCHANGED <<dirs, archive, todo>>
  BY DEF SaveProgress, Overwrites
<1>2. roadmap \in Texts /\ roadmap' \in Texts /\ Headed(roadmap, roadmap')
  <2>1. held[e] \in HeldJobs
    BY DEF Shaped, Typing
  <2>2. held[e].text \in Texts /\ held[e].base \in Texts
    BY <1>1, <2>1 DEF HeldJobs, NoJob
  <2>3. Headed(held[e].base, held[e].text)
    BY <1>1 DEF Kept
  <2>4. QED
    BY <1>1, <2>2, <2>3
<1>3. /\ Orderly(roadmap) => Orderly(roadmap')
      /\ \A ps : Firsts(roadmap, ps) => Firsts(roadmap', ps)
      /\ \A ps : Has(roadmap, ps) => Has(roadmap', ps)
      /\ \A ps, num : HasBut(roadmap, ps, num) => HasBut(roadmap', ps, num)
      /\ \A ref : Tidy(roadmap, ref) => Tidy(roadmap', ref)
  BY <1>2, HeadedSame
<1>4. Sound(roadmap)' /\ (Removing' \/ Has(roadmap, Everywhere)')
  BY <1>1, <1>3 DEF AddedNow, Sound, Removing, Everywhere
<1>5. SavesAdd'
  BY <1>1 DEF AddedNow, SavesAdd, Sound, Made, Everywhere
<1>6. RemovesClean'
  BY <1>1, <1>3 DEF AddedNow, RemovesClean, Sound, Everywhere
<1>7. QED
  BY <1>4, <1>5, <1>6 DEF AddedNow

LEMMA AddedNext == Shaped /\ Kept /\ Added /\ [Next]_vars => Added'
<1> SUFFICES ASSUME Shaped, Kept, Added, [Next]_vars, marred' \subseteq {"crash"} PROVE AddedNow'
  BY DEF Added, AddedNow
<1>1. AddedNow
  BY MarredGrows DEF Added, AddedNow
<1>2. CASE Command
  BY <1>2, AddedCommand
<1>3. CASE DoMkdir
  BY <1>1, <1>3, AddedMkdir
<1>4. CASE DoSave
  BY <1>1, <1>4, AddedSave
<1>5. CASE DoRm
  BY <1>1, <1>5, AddedRm
<1>6. CASE DoRename
  <2>1. todo # <<>> /\ todo[1].op = "rename" /\ 1 \in DOMAIN todo
    BY <1>6, NowIs DEF DoRename, Doing
  <2>2. QED
    BY <1>1, <2>1 DEF AddedNow, RemovesClean
<1>7. CASE DoExcise
  BY <1>1, <1>7, AddedExcise
<1>8. ASSUME Plain', ~Removing, UNCHANGED roadmap, ~DoRm, ~DoRename PROVE AddedNow'
  <2>1. Sound(roadmap)' /\ Has(roadmap, Everywhere)'
    BY <1>1, <1>8, PathsStay, MorePaths DEF AddedNow, Sound
  <2>2. QED
    BY <1>8, <2>1, AddedPlain
<1>9. CASE DoTell \/ DoShip
  <2>1. todo # <<>> /\ todo[1].op \in {"tell", "ship"} /\ Advance /\ UNCHANGED roadmap
    BY <1>9, NowIs DEF DoTell, DoShip, Doing
  <2>2. Plain'
    BY <1>1, <2>1, RestIs DEF AddedNow, RemovesClean
  <2>3. ~Removing
    <3>1. ASSUME NEW j \in DOMAIN todo, todo[j].op \in {"excise", "rewrite"} PROVE FALSE
      <4>1. Placed(j) /\ j # 1 /\ j \in Nat /\ j >= 1
        BY <2>1, <3>1, NowIs DEF Shaped, Queued
      <4>2. 1 \in 1 .. (j - 1)
        BY <4>1
      <4>3. QED
        BY <2>1, <3>1, <4>1, <4>2 DEF Placed
    <3>2. QED
      BY <3>1 DEF Removing
  <2>4. ~DoRm /\ ~DoRename
    BY <2>1, NowIs DEF DoRm, DoRename, Doing
  <2>5. QED
    BY <1>8, <2>1, <2>2, <2>3, <2>4
<1>10. CASE DoMove
  <2>1. /\ todo # <<>> /\ todo[1].op = "move" /\ UNCHANGED roadmap
        /\ \/ Len(todo') = 1 /\ todo'[1].op = "ship"
           \/ Len(todo') = 2 /\ todo'[1].op = "move" /\ todo'[2].op = "ship"
    BY <1>10, MoveIs
  <2>2. Plain'
    <3>1. DOMAIN todo' = 1 .. Len(todo')
      BY ShapedNext, QueueIs DEF Shaped, Typing
    <3>2. QED
      BY <2>1, <3>1 DEF Plain
  <2>3. ~Removing
    <3>1. Placed(1) /\ DOMAIN todo = 1 .. Len(todo)
      BY <2>1, NowIs
    <3>2. Len(todo) = 2 /\ todo[2].op = "ship"
      BY <2>1, <3>1 DEF Placed
    <3>3. QED
      BY <2>1, <3>1, <3>2 DEF Removing
  <2>4. ~DoRm /\ ~DoRename
    BY <2>1, NowIs DEF DoRm, DoRename, Doing
  <2>5. QED
    BY <1>8, <2>1, <2>2, <2>3, <2>4
<1>11. CASE Crash
  <2>1. todo' = <<>> /\ UNCHANGED <<roadmap, dirs, archive>> /\ ~Removing
    BY <1>11 DEF Crash
  <2>2. Plain'
    BY <2>1 DEF Plain
  <2>3. Sound(roadmap)' /\ Has(roadmap, Everywhere)'
    BY <1>1, <2>1 DEF AddedNow, Sound, Everywhere
  <2>4. QED
    BY <2>2, <2>3, AddedPlain
<1>12. ASSUME NEW e \in Executors, SaveProgress(e) PROVE AddedNow'
  BY <1>1, <1>12, AddedProgress
<1>13. CASE UNCHANGED <<roadmap, todo>> /\ ~DoRm /\ ~DoRename
  BY <1>1, <1>13, PathsStay, AddedQuiet
<1>14. ASSUME NEW i \in DOMAIN roadmap, Scaffold(i) PROVE UNCHANGED <<roadmap, todo>>
  BY <1>14 DEF Scaffold, Agents
<1>15. ASSUME NEW d \in dirs, Prepare(d) PROVE UNCHANGED <<roadmap, todo>>
  BY <1>15 DEF Prepare, Agents
<1>16. ASSUME NEW e \in Executors, UpdatePlanProgress(e) \/ \E d \in dirs : Execute(e, d)
       PROVE  UNCHANGED <<roadmap, todo>>
  BY <1>16 DEF UpdatePlanProgress, Execute, Agents
<1>17. UNCHANGED vars => UNCHANGED <<roadmap, todo>>
  BY DEF vars
<1>18. QED
  BY <1>2, <1>3, <1>4, <1>5, <1>6, <1>7, <1>9, <1>10, <1>11, <1>12, <1>13, <1>14, <1>15, <1>16, <1>17
     DEF Next, Step

LEMMA OutlineIs ==
  /\ DOMAIN FromTemplate(Outline) = DOMAIN Outline
  /\ \A i \in DOMAIN Outline : /\ FromTemplate(Outline)[i].num = <<i, 0>>
                               /\ FromTemplate(Outline)[i].name = Outline[i]
                               /\ FromTemplate(Outline)[i].listed
BY DEF FromTemplate, NewSection

LEMMA AddedInit == Init => Added
<1> SUFFICES ASSUME Init PROVE AddedNow
  BY DEF Added, AddedNow
<1>1. roadmap = FromTemplate(Outline) /\ todo = <<>>
  BY DEF Init
<1>2. \A i \in DOMAIN roadmap : i \in Int /\ roadmap[i].num = <<i, 0>> /\ roadmap[i].listed
  BY <1>1, OutlineIs, PhasesAssumption
<1>3. Orderly(roadmap)
  BY <1>2 DEF Orderly
<1>4. \A i, j \in DOMAIN roadmap : roadmap[j].num = roadmap[i].num => i = j
  <2>1. ASSUME NEW i \in DOMAIN roadmap, NEW j \in DOMAIN roadmap, roadmap[j].num = roadmap[i].num
        PROVE  i = j
    <3>1. roadmap[i].num[1] = i /\ roadmap[j].num[1] = j
      BY <1>2
    <3>2. QED
      BY <2>1, <3>1
  <2>2. QED
    BY <2>1
<1>5. Firsts(roadmap, PathsOf(archive))
  BY <1>2, <1>4 DEF Firsts
<1>6. Has(roadmap, Everywhere)
  BY <1>2 DEF Has
<1>7. SavesAdd /\ RemovesClean
  BY <1>1 DEF SavesAdd, RemovesClean
<1>8. QED
  BY <1>3, <1>5, <1>6, <1>7 DEF AddedNow, Sound

LEMMA AddedAlways == Spec => [](Shaped /\ Kept /\ Added)
<1>1. Init => Shaped /\ Kept /\ Added
  BY ShapedInit, KeptInit, AddedInit
<1>2. Shaped /\ Kept /\ Added /\ [Next]_vars => (Shaped /\ Kept /\ Added)'
  BY ShapedNext, KeptNext, AddedNext
<1>3. QED
  BY <1>1, <1>2, PTL DEF Spec

\* A phase that was added or inserted has its directory as soon as ROADMAP.md lists
\* it, in phases/ or in the archive, whatever commands were cut short before.
THEOREM AddedPhasesHaveDirectories == Spec => []AddedHasDirectory
<1>1. Added => AddedHasDirectory
  <2> SUFFICES ASSUME Added, marred \subseteq {"crash"}, ~Removing, NEW i \in DOMAIN roadmap,
                      ~roadmap[i].listed
               PROVE  HasDir(roadmap[i])
    BY DEF AddedHasDirectory
  <2>1. PathOf(roadmap[i]) \in Everywhere
    BY DEF Added, Has
  <2>2. QED
    BY <2>1 DEF Everywhere, PathsOf, HasDir, PathOf
<1>2. QED
  BY <1>1, AddedAlways, PTL

----------------------------------------------------------------------------
(* Disk and text name the same phases.                                       *)

AgreedNow == /\ Saving \/ Agree(roadmap, Everywhere)
             /\ archive # {} => shipped \/ Moving
             /\ QueueAgrees

\* What the operations of a new queue agree with.
LEMMA QueueOf ==
  ASSUME \A i \in DOMAIN todo' :
    /\ todo'[i].op = "save" => Agree(todo'[i].text, Everywhere' \cup (IF i = 1 THEN {} ELSE {Path(todo'[1].dir)}))
    /\ todo'[i].op = "mkdir" => 2 \in DOMAIN todo' /\ todo'[2].op = "save"
    /\ todo'[i].op = "excise" => \A path \in Everywhere' :
         path[1] = todo'[i].ref.num => i = 2 /\ path = Path(todo'[1].dir)
    /\ todo'[i].op = "rewrite" => Agree(todo'[i].text, Everywhere')
  PROVE  QueueAgrees'
BY DEF QueueAgrees, Made

\* A step that changes neither the text, nor the queue, nor the paths on the disk.
LEMMA AgreedQuiet ==
  ASSUME AgreedNow, UNCHANGED <<roadmap, todo, archive, shipped>>, Everywhere' = Everywhere
  PROVE  AgreedNow'
BY DEF AgreedNow, Saving, Moving, QueueAgrees, Made

LEMMA AgreedCommand ==
  ASSUME Shaped, AddedNow, AgreedNow, Command, marred' = {}
  PROVE  AgreedNow'
<1>1. /\ roadmap \in Texts /\ dirs \subseteq Dirs /\ archive = {} /\ todo = <<>>
      /\ UNCHANGED <<roadmap, dirs, archive>>
  <2>1. todo = <<>> /\ ~shipped /\ UNCHANGED <<roadmap, dirs, archive>>
    BY DEF Command, Idle, PhaseAdd, PhaseInsert, PhaseRemove, PhaseComplete, MilestoneComplete, Begin
  <2>2. archive = {}
    BY <2>1 DEF AgreedNow, Moving
  <2>3. QED
    BY <2>1, <2>2 DEF Shaped, Typing
<1>2. Agree(roadmap, Everywhere) /\ Orderly(roadmap) /\ Has(roadmap, Everywhere)
  BY <1>1 DEF AgreedNow, AddedNow, Saving, Sound, Removing
<1>3. Everywhere' = Everywhere
  BY <1>1 DEF Everywhere
<1>4. QueueAgrees' => AgreedNow'
  BY <1>1, <1>2, <1>3 DEF AgreedNow
<1>5. ASSUME NEW a, NEW b, todo' = <<a, b>>, a.op = "mkdir", b.op = "save",
             Agree(b.text, Everywhere \cup {Path(a.dir)})
      PROVE  AgreedNow'
  <2>1. DOMAIN todo' = 1 .. 2 /\ todo'[1] = a /\ todo'[2] = b
    BY <1>5
  <2>2. \A i \in DOMAIN todo' : \/ i = 1 /\ todo'[i] = a
                                \/ i = 2 /\ i # 1 /\ todo'[i] = b
    BY <2>1
  <2>3. 2 \in DOMAIN todo' /\ todo'[2].op = "save"
    BY <1>5, <2>1
  <2>4. Agree(b.text, Everywhere' \cup {Path(todo'[1].dir)})
    BY <1>3, <1>5, <2>1
  <2>5. QED
    BY <1>4, <1>5, <2>2, <2>3, <2>4, QueueOf
<1>6. ASSUME NEW name \in Names, PhaseAdd(name) PROVE AgreedNow'
  <2> DEFINE num == <<NextInteger(roadmap), 0>>
             a == Mkdir(num, name)
             b == Save(AddSection(roadmap, name))
  <2>1. todo' = <<a, b>> /\ NextInteger(roadmap) <= MaxInt
    BY <1>6 DEF PhaseAdd, Begin
  <2>2. num \in Numbers
    BY <1>1, <2>1, AddSectionIs
  <2>3. a.op = "mkdir" /\ Path(a.dir) = <<num, name>>
    BY <2>2, MkdirJobIs
  <2>4. b.op = "save" /\ b.text = AddSection(roadmap, name)
    BY DEF Save
  <2>5. Agree(AddSection(roadmap, name), Everywhere \cup {<<num, name>>})
    BY <1>1, <1>2, <2>1, AddSound
  <2> HIDE DEF a, b, num
  <2>6. QED
    BY <1>5, <2>1, <2>3, <2>4, <2>5
<1>7. ASSUME NEW ref \in Refs, NEW name \in Names, PhaseInsert(ref, name) PROVE AgreedNow'
  <2> DEFINE num == <<ref.num[1], NextDecimal(dirs, ref.num[1])>>
             text == InsertSection(roadmap, ref, num, name)
             a == Mkdir(num, name)
             b == Save(text)
  <2>1. todo' = <<a, b>> /\ ~IsDecimal(ref.num) /\ ref.num \in Numbered(roadmap)
    BY <1>7 DEF PhaseInsert, Begin
  <2>2. /\ num \in Numbers /\ num[1] = ref.num[1] /\ IsDecimal(num)
        /\ \A i \in DOMAIN roadmap : roadmap[i].num = num => PathOf(roadmap[i]) \in PathsOf(archive)
    BY <1>2, <1>7, InsertFresh
  <2> HIDE DEF num
  <2>3. a.op = "mkdir" /\ Path(a.dir) = <<num, name>>
    BY <2>2, MkdirJobIs
  <2>4. b.op = "save" /\ b.text = text
    BY DEF Save
  <2>5. num \notin Numbered(roadmap)
    BY <1>1, <2>2 DEF Numbered, PathsOf
  <2>6. Agree(text, Everywhere \cup {<<num, name>>})
    BY <1>1, <1>2, <2>1, <2>2, <2>5, InsertSound
  <2> HIDE DEF a, b, text
  <2>7. QED
    BY <1>5, <2>1, <2>3, <2>4, <2>6
<1>8. ASSUME NEW ref \in Refs, NEW force \in BOOLEAN, PhaseRemove(ref, force) PROVE AgreedNow'
  <2> DEFINE a == RmOf(ref, force)
             b == ExciseOf(ref)
  <2>1. todo' = RemovalSteps(ref, force) /\ Later(dirs, ref.num) = {}
    BY <1>8 DEF PhaseRemove, Begin, Untidy
  <2>2. b.op = "excise" /\ b.ref = ref /\ a.op = "rm"
    BY DEF ExciseOf, RmOf
  <2>3. ExactDirs(dirs, ref.num) # {} => a.dir \in dirs /\ a.dir.num = ref.num
    BY <1>1, RemovalJobs
  <2>4. \/ todo' = <<b>> /\ ExactDirs(dirs, ref.num) = {}
        \/ todo' = <<a, b>> /\ ExactDirs(dirs, ref.num) # {}
    BY <2>1, RemovalStepsAre
  <2>5. Everywhere = PathsOf(dirs)
    BY <1>1 DEF Everywhere
  <2> HIDE DEF a, b
  <2>6. CASE todo' = <<b>> /\ ExactDirs(dirs, ref.num) = {}
    <3>1. \A path \in Everywhere' : path[1] # ref.num
      BY <1>3, <2>5, <2>6 DEF PathsOf, Path, ExactDirs
    <3>2. \A i \in DOMAIN todo' : todo'[i] = b
      BY <2>6
    <3>3. QED
      BY <1>4, <2>2, <3>1, <3>2, QueueOf
  <2>7. CASE todo' = <<a, b>> /\ ExactDirs(dirs, ref.num) # {}
    <3>1. ASSUME NEW path \in Everywhere', path[1] = ref.num PROVE path = Path(a.dir)
      <4>1. path \in Everywhere /\ Path(a.dir) \in Everywhere /\ Path(a.dir)[1] = ref.num
        BY <1>3, <2>3, <2>5, <2>7 DEF PathsOf, Path
      <4>2. PICK i \in DOMAIN roadmap : PathOf(roadmap[i]) = path
        BY <1>2, <4>1 DEF Agree, Covers
      <4>3. PICK j \in DOMAIN roadmap : PathOf(roadmap[j]) = Path(a.dir)
        BY <1>2, <4>1 DEF Agree, Covers
      <4>4. roadmap[i].num = roadmap[j].num
        BY <3>1, <4>1, <4>2, <4>3 DEF PathOf
      <4>5. i = j
        BY <1>2, <4>4 DEF Agree, Distinct
      <4>6. QED
        BY <4>2, <4>3, <4>5
    <3>2. \A i \in DOMAIN todo' : \/ i = 1 /\ todo'[i] = a
                                  \/ i = 2 /\ todo'[i] = b
      BY <2>7
    <3>3. todo'[1] = a
      BY <2>7
    <3>4. QED
      BY <1>4, <2>2, <3>1, <3>2, <3>3, QueueOf
  <2>8. QED
    BY <2>4, <2>6, <2>7
<1>9. ASSUME NEW ref \in Refs, PhaseComplete(ref) PROVE AgreedNow'
  <2> DEFINE a == Save(Tick(roadmap, ref))
             b == [op |-> "tell", num |-> ref.num]
  <2>1. todo' = <<a, b>>
    BY <1>9 DEF PhaseComplete, Begin
  <2>2. a.op = "save" /\ a.text = Tick(roadmap, ref) /\ b.op = "tell"
    BY DEF Save
  <2>3. Tick(roadmap, ref) \in Texts /\ Headed(roadmap, Tick(roadmap, ref))
    BY <1>1, TickIs
  <2>4. Agree(Tick(roadmap, ref), Everywhere)
    BY <1>1, <1>2, <2>3, HeadedSame
  <2> HIDE DEF a, b
  <2>5. Agree(a.text, Everywhere' \cup {})
    BY <1>3, <2>2, <2>4
  <2>6. \A i \in DOMAIN todo' : \/ i = 1 /\ todo'[i] = a
                                \/ i = 2 /\ todo'[i] = b
    BY <2>1
  <2>7. QED
    BY <1>4, <2>2, <2>5, <2>6, QueueOf
<1>10. ASSUME MilestoneComplete PROVE AgreedNow'
  <2>1. Plain'
    <3>1. todo' \in Seq(Jobs)
      BY ShapedNext DEF Next, Shaped, Typing
    <3>2. QED
      BY <1>10, <3>1, ShippingIs DEF Plain
  <2>2. QED
    BY <1>4, <2>1, PlainNext
<1>11. QED
  BY <1>6, <1>7, <1>8, <1>9, <1>10 DEF Command

LEMMA AgreedMkdir == Shaped /\ AddedNow /\ AgreedNow /\ DoMkdir => AgreedNow'
<1> SUFFICES ASSUME Shaped, AddedNow, AgreedNow, DoMkdir PROVE AgreedNow'
  OBVIOUS
<1>1. /\ todo # <<>> /\ todo[1].op = "mkdir" /\ Advance /\ 1 \in DOMAIN todo /\ ~shipped
      /\ UNCHANGED <<roadmap, archive>>
      /\ dirs' = IF At(dirs, todo[1].dir) # {} THEN dirs ELSE dirs \cup {todo[1].dir}
  BY NowIs DEF DoMkdir, Doing
<1>2. archive' = {}
  BY <1>1 DEF AgreedNow, Moving
<1>3. 2 \in DOMAIN todo /\ todo[2].op = "save" /\ Agree(todo[2].text, Everywhere \cup {Path(todo[1].dir)})
  BY <1>1 DEF AgreedNow, QueueAgrees, Made
<1>4. Everywhere' \subseteq Everywhere \cup {Path(todo[1].dir)}
  BY <1>1 DEF Everywhere, PathsOf
<1>5. Agree(todo[2].text, Everywhere')
  BY <1>3, <1>4, FewerPaths
<1>6. todo' # <<>> /\ todo'[1] = todo[2]
  <2>1. 1 \in DOMAIN todo'
    BY <1>1, <1>3, NowIs, AdvanceIs
  <2>2. QED
    BY <1>1, <2>1, AdvanceIs
<1>7. \A i \in DOMAIN todo' : \/ i = 1 /\ todo'[i] = todo[2]
                              \/ todo'[i].op \in {"tell", "move", "ship"}
  BY <1>1, RestIs DEF AddedNow, RemovesClean
<1>8. QueueAgrees'
  <2>1. Agree(todo[2].text, Everywhere' \cup {})
    BY <1>5
  <2>2. QED
    BY <1>3, <1>7, <2>1, QueueOf
<1>9. Saving'
  BY <1>3, <1>6 DEF Saving
<1>10. QED
  BY <1>2, <1>8, <1>9 DEF AgreedNow

LEMMA AgreedSave == Shaped /\ AddedNow /\ AgreedNow /\ DoSave => AgreedNow'
<1> SUFFICES ASSUME Shaped, AddedNow, AgreedNow, DoSave PROVE AgreedNow'
  OBVIOUS
<1>1. /\ todo # <<>> /\ todo[1].op \in {"save", "rewrite"} /\ Advance /\ ~shipped
      /\ roadmap' = todo[1].text /\ 1 \in DOMAIN todo
      /\ UNCHANGED <<dirs, archive>>
  BY NowIs DEF DoSave, Doing
<1>2. archive' = {} /\ Everywhere' = Everywhere
  BY <1>1 DEF AgreedNow, Moving, Everywhere
<1>3. Agree(todo[1].text, Everywhere)
  <2>1. Agree(todo[1].text, Everywhere \cup {}) => Agree(todo[1].text, Everywhere)
    OBVIOUS
  <2>2. CASE todo[1].op = "save"
    BY <1>1, <2>1, <2>2 DEF AgreedNow, QueueAgrees, Made
  <2>3. CASE todo[1].op = "rewrite"
    BY <1>1, <2>3 DEF AgreedNow, QueueAgrees
  <2>4. QED
    BY <1>1, <2>2, <2>3
<1>4. QueueAgrees'
  BY <1>1, RestIs, PlainNext DEF AddedNow, RemovesClean
<1>5. QED
  BY <1>1, <1>2, <1>3, <1>4 DEF AgreedNow

LEMMA AgreedRm == Shaped /\ AddedNow /\ AgreedNow /\ DoRm => AgreedNow'
<1> SUFFICES ASSUME Shaped, AddedNow, AgreedNow, DoRm PROVE AgreedNow'
  OBVIOUS
<1>1. /\ todo # <<>> /\ todo[1].op = "rm" /\ Advance /\ 1 \in DOMAIN todo /\ ~shipped
      /\ dirs' = dirs \ At(dirs, todo[1].dir)
      /\ UNCHANGED <<roadmap, archive>>
  BY NowIs DEF DoRm, Doing
<1>2. Len(todo) = 2 /\ todo[2].op = "excise" /\ 2 \in DOMAIN todo
  BY <1>1, NowIs DEF AddedNow, RemovesClean
<1>3. archive = {} /\ archive' = {}
  BY <1>1 DEF AgreedNow, Moving
<1>4. Agree(roadmap, Everywhere)
  BY <1>1 DEF AgreedNow, Saving
<1>5. Everywhere' \subseteq Everywhere /\ Path(todo[1].dir) \notin Everywhere'
  BY <1>1, <1>3 DEF Everywhere, PathsOf, At
<1>6. Agree(roadmap', Everywhere')
  BY <1>1, <1>4, <1>5, FewerPaths
<1>7. \A path \in Everywhere' : path[1] # todo[2].ref.num
  BY <1>2, <1>5 DEF AgreedNow, QueueAgrees
<1>8. \A i \in DOMAIN todo' : todo'[i] = todo[2]
  <2>1. DOMAIN todo' = 1 .. 1
    BY <1>1, <1>2, AdvanceIs
  <2>2. QED
    BY <1>1, <2>1, AdvanceIs
<1>9. QueueAgrees'
  BY <1>2, <1>7, <1>8, QueueOf
<1>10. QED
  BY <1>3, <1>6, <1>9 DEF AgreedNow

LEMMA AgreedExcise == Shaped /\ AddedNow /\ AgreedNow /\ DoExcise => AgreedNow'
<1> SUFFICES ASSUME Shaped, AddedNow, AgreedNow, DoExcise PROVE AgreedNow'
  OBVIOUS
<1> DEFINE ref == todo[1].ref
           text == RemoveSection(roadmap, ref)
           job == [Save(text) EXCEPT !.op = "rewrite"]
<1>1. /\ todo # <<>> /\ todo[1].op = "excise" /\ 1 \in DOMAIN todo /\ todo[1] \in Jobs /\ ~shipped
      /\ todo' = <<job>> /\ UNCHANGED <<roadmap, dirs, archive>> /\ roadmap \in Texts
  BY NowIs DEF DoExcise, Doing, Shaped, Typing
<1>2. ref \in Refs
  BY <1>1, JobKinds DEF ExciseJobs
<1>3. job.op = "rewrite" /\ job.text = text
  BY DEF Save
<1>4. Tidy(roadmap, ref)
  BY <1>1 DEF AddedNow, RemovesClean
<1>5. archive' = {} /\ Everywhere' = Everywhere /\ Agree(roadmap, Everywhere)
  BY <1>1 DEF AgreedNow, Moving, Saving, Everywhere
<1>6. \A path \in Everywhere : path[1] # ref.num
  <2>1. ASSUME NEW path \in Everywhere, path[1] = todo[1].ref.num PROVE 1 = 2
    BY <1>1, <2>1 DEF AgreedNow, QueueAgrees
  <2>2. QED
    BY <2>1
<1>7. Agree(text, Everywhere)
  BY <1>1, <1>2, <1>4, <1>5, <1>6, RemoveSound
<1> HIDE DEF job, text, ref
<1>8. \A i \in DOMAIN todo' : todo'[i] = job
  BY <1>1
<1>9. QueueAgrees'
  BY <1>3, <1>5, <1>7, <1>8, QueueOf
<1>10. QED
  BY <1>1, <1>5, <1>9 DEF AgreedNow

\* Moving a directory to the archive keeps its path.
LEMMA AgreedMove == Shaped /\ AgreedNow /\ DoMove => AgreedNow'
<1> SUFFICES ASSUME Shaped, AgreedNow, DoMove PROVE AgreedNow'
  OBVIOUS
<1>1. PICK from \in dirs :
        \/ dirs' = dirs \ {from} /\ archive' = archive \cup {from}
        \/ UNCHANGED <<dirs, archive>>
  BY MoveIs
<1>2. /\ todo # <<>> /\ todo[1].op = "move" /\ UNCHANGED roadmap
      /\ \/ Len(todo') = 1 /\ todo'[1].op = "ship"
         \/ Len(todo') = 2 /\ todo'[1].op = "move" /\ todo'[2].op = "ship"
  BY MoveIs
<1>3. Everywhere' = Everywhere
  BY <1>1 DEF Everywhere, PathsOf
<1>4. Agree(roadmap', Everywhere')
  BY <1>2, <1>3 DEF AgreedNow, Saving
<1>5. DOMAIN todo' = 1 .. Len(todo') /\ Moving'
  <2>1. todo' \in Seq(Jobs)
    BY ShapedNext DEF Next, Step, Shaped, Typing
  <2>2. QED
    BY <1>2, <2>1 DEF Moving
<1>6. Plain'
  BY <1>2, <1>5 DEF Plain
<1>7. QED
  BY <1>4, <1>5, <1>6, PlainNext DEF AgreedNow

LEMMA AgreedProgress ==
  ASSUME Shaped, Kept, AgreedNow, NEW e \in Executors, SaveProgress(e), marred' = {}
  PROVE  AgreedNow'
<1>1. /\ roadmap' = held[e].text /\ held[e].pc = "save" /\ held[e].base = roadmap
      /\ UNCHANGED <<dirs, archive, todo, shipped>>
  BY DEF SaveProgress, Overwrites
<1>2. roadmap \in Texts /\ roadmap' \in Texts /\ Headed(roadmap, roadmap')
  <2>1. held[e] \in HeldJobs
    BY DEF Shaped, Typing
  <2>2. held[e].text \in Texts /\ held[e].base \in Texts
    BY <1>1, <2>1 DEF HeldJobs, NoJob
  <2>3. Headed(held[e].base, held[e].text)
    BY <1>1 DEF Kept
  <2>4. QED
    BY <1>1, <2>2, <2>3
<1>3. Everywhere' = Everywhere
  BY <1>1 DEF Everywhere
<1>4. Agree(roadmap, Everywhere) => Agree(roadmap', Everywhere)
  BY <1>2, HeadedSame
<1>5. QueueAgrees'
  BY <1>1, <1>3 DEF AgreedNow, QueueAgrees, Made
<1>6. (Saving' <=> Saving) /\ (Moving' <=> Moving)
  BY <1>1 DEF Saving, Moving
<1>7. QED
  BY <1>1, <1>3, <1>4, <1>5, <1>6 DEF AgreedNow

LEMMA AgreeingNext == Shaped /\ Kept /\ Added /\ Agreeing /\ [Next]_vars => Agreeing'
<1> SUFFICES ASSUME Shaped, Kept, Added, Agreeing, [Next]_vars, marred' = {} PROVE AgreedNow'
  BY DEF Agreeing, AgreedNow
<1>1. AddedNow /\ AgreedNow
  BY MarredGrows DEF Added, AddedNow, Agreeing, AgreedNow
<1>2. CASE Command
  BY <1>1, <1>2, AgreedCommand
<1>3. CASE DoMkdir
  BY <1>1, <1>3, AgreedMkdir
<1>4. CASE DoSave
  BY <1>1, <1>4, AgreedSave
<1>5. CASE DoRm
  BY <1>1, <1>5, AgreedRm
<1>6. CASE DoRename
  <2>1. todo # <<>> /\ todo[1].op = "rename" /\ 1 \in DOMAIN todo
    BY <1>6, NowIs DEF DoRename, Doing
  <2>2. QED
    BY <1>1, <2>1 DEF AddedNow, RemovesClean
<1>7. CASE DoExcise
  BY <1>1, <1>7, AgreedExcise
<1>8. CASE DoTell \/ DoShip
  <2>1. todo # <<>> /\ todo[1].op \in {"tell", "ship"} /\ Advance /\ UNCHANGED <<roadmap, dirs, archive>>
    BY <1>8, NowIs DEF DoTell, DoShip, Doing
  <2>2. QueueAgrees'
    BY <1>1, <2>1, RestIs, PlainNext DEF AddedNow, RemovesClean
  <2>3. Agree(roadmap, Everywhere)'
    BY <1>1, <2>1 DEF AgreedNow, Saving, Everywhere
  <2>4. archive' # {} => shipped'
    BY <1>1, <1>8, <2>1, NowIs DEF AgreedNow, Moving, DoTell, DoShip, Doing, Same
  <2>5. QED
    BY <2>2, <2>3, <2>4 DEF AgreedNow
<1>9. CASE DoMove
  BY <1>1, <1>9, AgreedMove
<1>10. CASE Crash
  BY <1>10 DEF Crash
<1>11. ASSUME NEW e \in Executors, SaveProgress(e) PROVE AgreedNow'
  BY <1>1, <1>11, AgreedProgress
<1>12. ASSUME NEW i \in DOMAIN roadmap, Scaffold(i) PROVE AgreedNow'
  <2> DEFINE path == PathOf(roadmap[i])
  <2>1. todo = <<>> /\ UNCHANGED <<roadmap, todo, archive, shipped>>
        /\ dirs' = dirs \cup {NewDir(roadmap[i].num, roadmap[i].name)}
    BY <1>12 DEF Scaffold, Idle, Replace, Agents
  <2>2. Path(NewDir(roadmap[i].num, roadmap[i].name)) = path
    BY DEF Path, NewDir, PathOf
  <2>3. Everywhere' \subseteq Everywhere \cup {path}
    BY <2>1, <2>2 DEF Everywhere, PathsOf
  <2>4. Agree(roadmap, Everywhere)
    BY <1>1, <2>1 DEF AgreedNow, Saving
  <2>5. Agree(roadmap', Everywhere')
    BY <2>1, <2>3, <2>4 DEF Agree, Covers
  <2>6. QueueAgrees' /\ (Moving' <=> Moving)
    BY <2>1 DEF QueueAgrees, Moving
  <2>7. QED
    BY <1>1, <2>1, <2>5, <2>6 DEF AgreedNow
<1>13. CASE UNCHANGED <<roadmap, todo, archive, shipped>> /\ PathsOf(dirs') = PathsOf(dirs)
  <2>1. Everywhere' = Everywhere
    BY <1>13 DEF Everywhere, PathsOf
  <2>2. QED
    BY <1>1, <1>13, <2>1, AgreedQuiet
<1>14. ASSUME NEW d \in dirs, Prepare(d) PROVE AgreedNow'
  BY <1>13, <1>14, PrepareIs
<1>15. ASSUME NEW e \in Executors, UpdatePlanProgress(e) PROVE AgreedNow'
  BY <1>13, <1>15 DEF UpdatePlanProgress, Agents
<1>16. ASSUME NEW e \in Executors, NEW d \in dirs, Execute(e, d) PROVE AgreedNow'
  BY <1>13, <1>16, ExecuteIs
<1>17. CASE UNCHANGED vars
  BY <1>13, <1>17 DEF vars
<1>18. QED
  BY <1>2, <1>3, <1>4, <1>5, <1>6, <1>7, <1>8, <1>9, <1>10, <1>11, <1>12, <1>14, <1>15, <1>16, <1>17
     DEF Next, Step

LEMMA AgreeingInit == Init => Agreeing
<1> SUFFICES ASSUME Init PROVE AgreedNow
  BY DEF Agreeing, AgreedNow
<1>1. roadmap = FromTemplate(Outline) /\ todo = <<>> /\ archive = {}
  BY DEF Init
<1>2. PICK k \in 0 .. Len(Outline), planned \in 0 .. 1 :
        dirs = {[NewDir(<<i, 0>>, Outline[i]) EXCEPT !.plans = planned] : i \in 1 .. k}
  BY DEF Init
<1>3. Distinct(roadmap)
  <2>1. ASSUME NEW i \in DOMAIN roadmap, NEW j \in DOMAIN roadmap, roadmap[i].num = roadmap[j].num
        PROVE  i = j
    <3>1. roadmap[i].num = <<i, 0>> /\ roadmap[j].num = <<j, 0>>
      BY <1>1, OutlineIs
    <3>2. roadmap[i].num[1] = i /\ roadmap[j].num[1] = j
      BY <3>1
    <3>3. QED
      BY <2>1, <3>2
  <2>2. QED
    BY <2>1 DEF Distinct
<1>4. Covers(roadmap, Everywhere)
  <2> SUFFICES ASSUME NEW path \in Everywhere PROVE \E i \in DOMAIN roadmap : PathOf(roadmap[i]) = path
    BY DEF Covers
  <2>1. PICK d \in dirs : path = Path(d)
    BY <1>1 DEF Everywhere, PathsOf
  <2>2. PICK i \in 1 .. k : d = [NewDir(<<i, 0>>, Outline[i]) EXCEPT !.plans = planned]
    BY <1>2
  <2>3. i \in DOMAIN Outline
    BY <1>2, PhasesAssumption
  <2>4. path = <<<<i, 0>>, Outline[i]>>
    BY <2>1, <2>2 DEF Path, NewDir
  <2>5. i \in DOMAIN roadmap /\ PathOf(roadmap[i]) = path
    BY <1>1, <2>3, <2>4, OutlineIs DEF PathOf
  <2>6. QED
    BY <2>5
<1>5. QueueAgrees
  BY <1>1 DEF QueueAgrees
<1>6. QED
  BY <1>1, <1>3, <1>4, <1>5 DEF AgreedNow, Agree

\* As many numbers as sections.
LEMMA DistinctCount ==
  ASSUME NEW R \in Texts, Distinct(R)
  PROVE  Cardinality(Numbered(R)) = Len(R)
<1> DEFINE f == [i \in DOMAIN R |-> R[i].num]
<1>1. Len(R) \in Nat /\ DOMAIN R = 1 .. Len(R)
  BY TextIs
<1>2. f \in Bijection(DOMAIN R, Numbered(R))
  BY DEF Distinct, Numbered, Bijection, Injection, Surjection, IsInjective
<1>3. ExistsBijection(DOMAIN R, Numbered(R))
  BY <1>2 DEF ExistsBijection
<1>4. IsFiniteSet(DOMAIN R) /\ Cardinality(DOMAIN R) = Len(R)
  <2>1. IsFiniteSet(1 .. Len(R)) /\ Cardinality(1 .. Len(R)) = IF 1 > Len(R) THEN 0 ELSE Len(R) - 1 + 1
    BY <1>1, FS_Interval
  <2>2. QED
    BY <1>1, <2>1
<1>5. QED
  BY <1>3, <1>4, FS_Bijection

\* Between commands, disk and ROADMAP.md name the same phases with the same numbers.
THEOREM DiskAndTextAgree == Spec => []NumbersAgree
<1>1. Shaped /\ Agreeing => NumbersAgree
  <2> SUFFICES ASSUME Shaped, Agreeing, todo = <<>>, marred = {}
               PROVE  /\ Cardinality(Numbered(roadmap)) = Len(roadmap)
                      /\ \A d \in dirs \cup archive :
                           \E i \in DOMAIN roadmap : Path(d) = <<roadmap[i].num, roadmap[i].name>>
    BY DEF NumbersAgree
  <2>1. Agree(roadmap, Everywhere) /\ roadmap \in Texts
    BY DEF Agreeing, Saving, Shaped, Typing
  <2>2. Cardinality(Numbered(roadmap)) = Len(roadmap)
    BY <2>1, DistinctCount DEF Agree
  <2>3. \A d \in dirs \cup archive :
          \E i \in DOMAIN roadmap : Path(d) = <<roadmap[i].num, roadmap[i].name>>
    BY <2>1 DEF Agree, Covers, Everywhere, PathsOf, PathOf
  <2>4. QED
    BY <2>2, <2>3
<1>2. Init => Agreeing
  BY AgreeingInit
<1>3. Shaped /\ Kept /\ Added /\ Agreeing /\ [Next]_vars => Agreeing'
  BY AgreeingNext
<1>4. QED
  BY <1>1, <1>2, <1>3, AddedAlways, PTL DEF Spec

----------------------------------------------------------------------------
(* No summary is lost.                                                       *)

\* Directories differ in their paths, and have no more summaries than plans.
DirsFiled == /\ IsFiniteSet(dirs) /\ IsFiniteSet(archive)
             /\ \A d, e \in dirs : Path(d) = Path(e) => d = e
             /\ \A d \in dirs : d.sums <= d.plans
             /\ done \in [Names -> Int]
\* What is made is empty, and what is removed without force has no summary.
JobsFiled == \A i \in DOMAIN todo :
    /\ todo[i].op = "mkdir" => todo[i].dir.sums = 0
    /\ todo[i].op = "rm" => todo[i].force \/ todo[i].dir.sums = 0

\* The summaries of one more directory.
LEMMA CountMore ==
  ASSUME NEW ds \in SUBSET Dirs, IsFiniteSet(ds), NEW d \in Dirs, d \notin ds, NEW name
  PROVE  /\ Cardinality(Summaries(ds, name)) \in Nat
         /\ Cardinality(Summaries(ds \cup {d}, name))
              = Cardinality(Summaries(ds, name)) + IF d.name = name THEN d.sums ELSE 0
<1>1. IsFiniteSet(1 .. MaxPlans)
  BY RoadmapAssumption, FS_Interval
<1>2. IsFiniteSet(Summaries(ds, name))
  <2>1. Summaries(ds, name) \in SUBSET (ds \X (1 .. MaxPlans))
    BY DEF Summaries
  <2>2. IsFiniteSet(ds \X (1 .. MaxPlans))
    BY <1>1, FS_Product
  <2>3. QED
    BY <2>1, <2>2, FS_Subset
<1>3. IsFiniteSet(Summaries({d}, name))
      /\ Cardinality(Summaries({d}, name)) = IF d.name = name THEN d.sums ELSE 0
  <2>1. d.sums \in 0 .. MaxPlans /\ d.sums \in Int
    BY DEF Dirs
  <2>2. CASE d.name = name
    <3>1. Summaries({d}, name) = {d} \X (1 .. d.sums)
      BY <2>1, <2>2, RoadmapAssumption DEF Summaries
    <3>2. IsFiniteSet(1 .. d.sums) /\ Cardinality(1 .. d.sums) = d.sums
      <4>1. IsFiniteSet(1 .. d.sums)
            /\ Cardinality(1 .. d.sums) = IF 1 > d.sums THEN 0 ELSE d.sums - 1 + 1
        BY <2>1, FS_Interval
      <4>2. QED
        BY <2>1, <4>1
    <3>3. IsFiniteSet({d}) /\ Cardinality({d}) = 1
      BY FS_Singleton
    <3>4. /\ IsFiniteSet({d} \X (1 .. d.sums))
          /\ Cardinality({d} \X (1 .. d.sums)) = Cardinality({d}) * Cardinality(1 .. d.sums)
      BY <3>2, <3>3, FS_Product
    <3>5. Cardinality({d} \X (1 .. d.sums)) = 1 * d.sums
      BY <3>2, <3>3, <3>4
    <3>6. 1 * d.sums = d.sums
      BY <2>1
    <3>7. IsFiniteSet(Summaries({d}, name)) /\ Cardinality(Summaries({d}, name)) = d.sums
      BY <3>1, <3>4, <3>5, <3>6
    <3>8. QED
      BY <2>2, <3>7
  <2>3. CASE d.name # name
    <3>1. Summaries({d}, name) = {}
      BY <2>3 DEF Summaries
    <3>2. QED
      BY <2>3, <3>1, FS_EmptySet
  <2>4. QED
    BY <2>2, <2>3
<1>4. Summaries(ds \cup {d}, name) = Summaries(ds, name) \cup Summaries({d}, name)
  BY DEF Summaries
<1>5. Summaries(ds, name) \cap Summaries({d}, name) = {}
  BY DEF Summaries
<1>6. Cardinality(Summaries(ds, name) \cup Summaries({d}, name))
        = Cardinality(Summaries(ds, name)) + Cardinality(Summaries({d}, name)) - Cardinality({})
  BY <1>2, <1>3, <1>5, FS_Union
<1>7. Cardinality(Summaries(ds, name)) \in Nat /\ Cardinality({}) = 0
  BY <1>2, FS_CardinalityType, FS_EmptySet
<1>8. Cardinality(Summaries({d}, name)) \in Int
  BY <1>3, FS_CardinalityType
<1>9. Cardinality(Summaries(ds, name) \cup Summaries({d}, name))
        = Cardinality(Summaries(ds, name)) + Cardinality(Summaries({d}, name))
  <2>1. Cardinality(Summaries(ds, name)) + Cardinality(Summaries({d}, name)) - 0
          = Cardinality(Summaries(ds, name)) + Cardinality(Summaries({d}, name))
    BY <1>7, <1>8
  <2>2. QED
    BY <1>6, <1>7, <2>1
<1>10. QED
  BY <1>3, <1>4, <1>7, <1>9

\* Those of one less.
LEMMA CountLess ==
  ASSUME NEW ds \in SUBSET Dirs, IsFiniteSet(ds), NEW d \in ds, NEW name
  PROVE  /\ IsFiniteSet(ds \ {d})
         /\ Cardinality(Summaries(ds, name)) \in Nat
         /\ Cardinality(Summaries(ds \ {d}, name))
              = Cardinality(Summaries(ds, name)) - IF d.name = name THEN d.sums ELSE 0
<1>1. IsFiniteSet(ds \ {d})
  BY FS_RemoveElement
<1>2. (ds \ {d}) \cup {d} = ds /\ ds \ {d} \in SUBSET Dirs /\ d \in Dirs /\ d \notin ds \ {d}
  OBVIOUS
<1>3. /\ Cardinality(Summaries(ds \ {d}, name)) \in Nat
      /\ Cardinality(Summaries((ds \ {d}) \cup {d}, name))
           = Cardinality(Summaries(ds \ {d}, name)) + IF d.name = name THEN d.sums ELSE 0
  BY <1>1, <1>2, CountMore
<1>4. d.sums \in Nat
  BY DEF Dirs
<1>5. QED
  BY <1>1, <1>2, <1>3, <1>4

\* Those of a directory that takes the place of another of its name.
LEMMA CountSwap ==
  ASSUME NEW ds \in SUBSET Dirs, IsFiniteSet(ds), NEW d \in ds, NEW e \in Dirs, e \notin ds \ {d},
         e.name = d.name, NEW name
  PROVE  /\ IsFiniteSet((ds \ {d}) \cup {e})
         /\ Cardinality(Summaries(ds, name)) \in Nat
         /\ Cardinality(Summaries((ds \ {d}) \cup {e}, name))
              = Cardinality(Summaries(ds, name)) + IF d.name = name THEN e.sums - d.sums ELSE 0
<1>1. /\ IsFiniteSet(ds \ {d})
      /\ Cardinality(Summaries(ds, name)) \in Nat
      /\ Cardinality(Summaries(ds \ {d}, name))
           = Cardinality(Summaries(ds, name)) - IF d.name = name THEN d.sums ELSE 0
  BY CountLess
<1>2. ds \ {d} \in SUBSET Dirs
  OBVIOUS
<1>3. Cardinality(Summaries((ds \ {d}) \cup {e}, name))
        = Cardinality(Summaries(ds \ {d}, name)) + IF e.name = name THEN e.sums ELSE 0
  BY <1>1, <1>2, CountMore
<1>4. IsFiniteSet((ds \ {d}) \cup {e})
  BY <1>1, FS_AddElement
<1>5. d.sums \in Int /\ e.sums \in Int
  BY DEF Dirs
<1>6. QED
  BY <1>1, <1>3, <1>4, <1>5

Filed(name) == Cardinality(Summaries(dirs, name)) + Cardinality(Summaries(archive, name))

LEMMA CountNat ==
  ASSUME NEW ds \in SUBSET Dirs, IsFiniteSet(ds), NEW name
  PROVE  Cardinality(Summaries(ds, name)) \in Nat
<1>1. IsFiniteSet(1 .. MaxPlans)
  BY RoadmapAssumption, FS_Interval
<1>2. Summaries(ds, name) \in SUBSET (ds \X (1 .. MaxPlans))
  BY DEF Summaries
<1>3. IsFiniteSet(ds \X (1 .. MaxPlans))
  BY <1>1, FS_Product
<1>4. IsFiniteSet(Summaries(ds, name))
  BY <1>2, <1>3, FS_Subset
<1>5. QED
  BY <1>4, FS_CardinalityType

LEMMA FiledNat ==
  ASSUME Shaped, DirsFiled, NEW name
  PROVE  /\ Cardinality(Summaries(dirs, name)) \in Nat
         /\ Cardinality(Summaries(archive, name)) \in Nat
BY CountNat DEF Shaped, Typing, DirsFiled

\* A directory without summaries is made where none of its path is.
LEMMA MakeFiled ==
  ASSUME Shaped, DirsFiled, NEW d \in Dirs, d.sums = 0, \A e \in dirs : Path(e) # Path(d),
         dirs' = dirs \cup {d}, UNCHANGED <<archive, done>>
  PROVE  DirsFiled' /\ \A name \in Names : Filed(name)' = Filed(name)
<1>1. d \notin dirs /\ dirs \in SUBSET Dirs /\ IsFiniteSet(dirs)
  BY DEF Shaped, Typing, DirsFiled
<1>2. DirsFiled'
  <2>1. IsFiniteSet(dirs')
    BY <1>1, FS_AddElement
  <2>2. \A e, f \in dirs' : Path(e) = Path(f) => e = f
    BY DEF DirsFiled
  <2>3. \A e \in dirs' : e.sums <= e.plans
    BY DEF DirsFiled, Dirs
  <2>4. QED
    BY <2>1, <2>2, <2>3 DEF DirsFiled
<1>3. ASSUME NEW name \in Names PROVE Filed(name)' = Filed(name)
  <2>1. Cardinality(Summaries(dirs \cup {d}, name)) = Cardinality(Summaries(dirs, name))
    BY <1>1, CountMore
  <2>2. QED
    BY <2>1 DEF Filed
<1>4. QED
  BY <1>2, <1>3

\* A directory changes in place.
LEMMA SwapFiled ==
  ASSUME Shaped, DirsFiled, NEW d \in dirs, NEW e \in Dirs, Path(e) = Path(d), e.sums <= e.plans,
         dirs' = (dirs \ {d}) \cup {e}, UNCHANGED archive, done' \in [Names -> Int]
  PROVE  /\ DirsFiled'
         /\ \A name \in Names : Filed(name)' = Filed(name) + IF d.name = name THEN e.sums - d.sums ELSE 0
<1>1. dirs \in SUBSET Dirs /\ IsFiniteSet(dirs) /\ e \notin dirs \ {d} /\ e.name = d.name
  BY DEF Shaped, Typing, DirsFiled, Path
<1>2. DirsFiled'
  <2>1. IsFiniteSet(dirs')
    BY <1>1, CountSwap
  <2>2. \A f, g \in dirs' : Path(f) = Path(g) => f = g
    BY DEF DirsFiled
  <2>3. QED
    BY <2>1, <2>2 DEF DirsFiled
<1>3. ASSUME NEW name \in Names
      PROVE  Filed(name)' = Filed(name) + IF d.name = name THEN e.sums - d.sums ELSE 0
  <2>1. /\ Cardinality(Summaries(dirs, name)) \in Nat
        /\ Cardinality(Summaries(dirs', name))
             = Cardinality(Summaries(dirs, name)) + IF d.name = name THEN e.sums - d.sums ELSE 0
    <3>1. e \notin dirs \ {d} /\ e.name = d.name
      BY <1>1
    <3>2. /\ Cardinality(Summaries(dirs, name)) \in Nat
          /\ Cardinality(Summaries((dirs \ {d}) \cup {e}, name))
               = Cardinality(Summaries(dirs, name)) + IF d.name = name THEN e.sums - d.sums ELSE 0
      BY <1>1, <3>1, CountSwap, ZenonT(60)
    <3>3. QED
      BY <3>2
  <2>2. Cardinality(Summaries(archive, name)) \in Nat
    BY FiledNat
  <2>3. d.sums \in Int /\ e.sums \in Int
    BY <1>1 DEF Dirs
  <2>4. QED
    BY <2>1, <2>2, <2>3 DEF Filed
<1>4. QED
  BY <1>2, <1>3

LEMMA SameFiled ==
  ASSUME DirsFiled, UNCHANGED <<dirs, archive, done>>
  PROVE  DirsFiled' /\ \A name \in Names : Filed(name)' = Filed(name)
BY DEF DirsFiled, Filed

LEMMA MkdirFiled ==
  ASSUME Shaped, DirsFiled, JobsFiled, DoMkdir
  PROVE  DirsFiled' /\ \A name \in Names : Filed(name)' = Filed(name)
<1>1. todo # <<>> /\ Now.op = "mkdir"
  BY DEF DoMkdir, Doing
<1>2. Now = todo[1] /\ 1 \in DOMAIN todo /\ todo[1] \in MkdirJobs
  BY <1>1, NowIs, JobKinds
<1>3. todo[1].dir \in Dirs /\ todo[1].dir.sums = 0
  BY <1>1, <1>2 DEF JobsFiled, MkdirJobs
<1>4. CASE At(dirs, todo[1].dir) # {}
  BY <1>2, <1>4, SameFiled DEF DoMkdir
<1>5. CASE At(dirs, todo[1].dir) = {}
  <2>1. \A e \in dirs : Path(e) # Path(todo[1].dir)
    BY <1>5 DEF At
  <2>2. dirs' = dirs \cup {todo[1].dir} /\ UNCHANGED <<archive, done>>
    BY <1>2, <1>5 DEF DoMkdir
  <2>3. QED
    BY <1>3, <2>1, <2>2, MakeFiled
<1>6. QED
  BY <1>4, <1>5

\* What was executed since the look at the summaries is the exception.
LEMMA RmFiled ==
  ASSUME Shaped, DirsFiled, JobsFiled, DoRm
  PROVE  /\ DirsFiled'
         /\ "race" \notin marred' => \A name \in Names : Filed(name)' - done'[name] = Filed(name) - done[name]
<1> DEFINE job == todo[1]
           gone == At(dirs, job.dir)
           sums == IF gone = {} THEN 0 ELSE (CHOOSE d \in gone : TRUE).sums
<1>1. todo # <<>> /\ Now.op = "rm"
  BY DEF DoRm, Doing
<1>2. Now = job /\ 1 \in DOMAIN todo /\ job \in RmJobs /\ job.op = "rm"
  BY <1>1, NowIs, JobKinds
<1>3. /\ job.dir \in Dirs /\ job.force \in BOOLEAN /\ job.dir.name \in Names /\ job.dir.sums \in Nat
      /\ job.force \/ job.dir.sums = 0
  BY <1>2 DEF JobsFiled, RmJobs, Dirs
<1>4. /\ dirs' = dirs \ gone /\ UNCHANGED archive
      /\ done' = [done EXCEPT ![job.dir.name] = @ - IF job.force THEN sums ELSE 0]
      /\ marred' = IF sums > job.dir.sums THEN marred \cup {"race"} ELSE marred
  BY <1>2 DEF DoRm
<1>5. dirs \in SUBSET Dirs /\ IsFiniteSet(dirs) /\ done \in [Names -> Int]
  BY DEF Shaped, Typing, DirsFiled
<1>6. CASE gone = {}
  <2>1. sums = 0
    BY <1>6
  <2> HIDE DEF gone, sums, job
  <2>2. UNCHANGED <<dirs, archive, done>>
    BY <1>3, <1>4, <1>5, <1>6, <2>1
  <2>3. QED
    BY <2>2, SameFiled
<1>7. CASE gone # {}
  <2> DEFINE d == CHOOSE d \in gone : TRUE
  <2>1. d \in gone
    BY <1>7
  <2>2. d \in dirs /\ Path(d) = Path(job.dir)
    BY <2>1 DEF At
  <2>3. gone = {d}
    BY <2>1, <2>2 DEF At, DirsFiled
  <2>4. sums = d.sums /\ d.sums \in Nat /\ d.name = job.dir.name
    BY <1>5, <1>7, <2>2 DEF Path, Dirs
  <2> HIDE DEF d, gone, sums, job
  <2>5. dirs' = dirs \ {d}
    BY <1>4, <2>3
  <2>6. done' \in [Names -> Int]
    BY <1>3, <1>4, <1>5, <2>4
  <2>7. IsFiniteSet(dirs')
    BY <1>5, <2>5, FS_RemoveElement
  <2>8. DirsFiled'
    BY <1>4, <2>5, <2>6, <2>7 DEF DirsFiled
  <2>9. ASSUME "race" \notin marred', NEW name \in Names
        PROVE  Filed(name)' - done'[name] = Filed(name) - done[name]
    <3>1. ~(sums > job.dir.sums)
      BY <1>4, <2>9
    <3>2. (IF job.force THEN sums ELSE 0) = d.sums
      BY <1>3, <2>4, <3>1
    <3>3. done'[name] = done[name] - IF d.name = name THEN d.sums ELSE 0
      BY <1>3, <1>4, <1>5, <2>4, <3>2
    <3>4. /\ Cardinality(Summaries(dirs, name)) \in Nat
          /\ Cardinality(Summaries(dirs', name))
               = Cardinality(Summaries(dirs, name)) - IF d.name = name THEN d.sums ELSE 0
      BY <1>5, <2>2, <2>5, CountLess
    <3>5. Cardinality(Summaries(archive, name)) \in Nat /\ UNCHANGED archive
      BY <1>4, FiledNat
    <3>6. done[name] \in Int
      BY <1>5
    <3>7. QED
      BY <2>4, <3>3, <3>4, <3>5, <3>6 DEF Filed
  <2>10. QED
    BY <2>8, <2>9
<1>8. QED
  BY <1>6, <1>7

\* A directory that a renaming replaces is empty.
LEMMA RenameIs ==
  ASSUME Shaped, DoRename
  PROVE  /\ UNCHANGED <<archive, done, marred>>
         /\ \/ UNCHANGED dirs
            \/ \E from \in dirs, to \in Dirs, there \in SUBSET dirs :
                 /\ dirs' = (dirs \ ({from} \cup there)) \cup {to}
                 /\ to.name = from.name /\ to.plans = from.plans /\ to.sums = from.sums
                 /\ \A d \in dirs : d \in there <=> Path(d) = Path(to)
                 /\ \A d \in there : d.plans = 0
<1>1. todo # <<>> /\ Now.op = "rename"
  BY DEF DoRename, Doing
<1>2. /\ Now = todo[1] /\ todo[1] \in RenameJobs /\ Placed(1) /\ todo[1].op = "rename"
      /\ dirs \subseteq Dirs
  BY <1>1, NowIs, JobKinds DEF Shaped, Typing
<1>3. /\ todo[1].left \subseteq PathsOf(dirs) /\ todo[1].ref \in Refs
      /\ \A path \in todo[1].left : After(path[1], todo[1].ref.num)
  BY <1>2 DEF Placed, RenameJobs
<1>4. PICK path \in todo[1].left :
        LET num == Lowered(path[1], todo[1].ref.num)
            from == CHOOSE d \in dirs : Path(d) = path
            there == {d \in dirs : Path(d) = <<num, path[2]>>}
        IN  \/ /\ \A d \in there : d.plans = 0
               /\ dirs' = (dirs \ ({from} \cup there)) \cup {[from EXCEPT !.num = num]}
            \/ UNCHANGED dirs
  BY <1>2 DEF DoRename
<1> DEFINE num == Lowered(path[1], todo[1].ref.num)
           from == CHOOSE d \in dirs : Path(d) = path
           there == {d \in dirs : Path(d) = <<num, path[2]>>}
           to == [from EXCEPT !.num = num]
<1>5. from \in dirs /\ Path(from) = path
  BY <1>3, NamedDir
<1>6. \/ dirs' = (dirs \ ({from} \cup there)) \cup {to} /\ \A d \in there : d.plans = 0
      \/ UNCHANGED dirs
  BY <1>4
<1>7. num \in Numbers
  <2>1. path[1] \in Numbers /\ todo[1].ref.num \in Numbers
    BY <1>2, <1>3, <1>5 DEF Path, Dirs, Refs
  <2>2. QED
    BY <1>3, <2>1, LoweredIs
<1> HIDE DEF num, from
<1>8. to \in Dirs /\ Path(to) = <<num, path[2]>>
      /\ to.name = from.name /\ to.plans = from.plans /\ to.sums = from.sums
  BY <1>2, <1>5, <1>7 DEF Dirs, Path
<1>9. there \in SUBSET dirs /\ \A d \in dirs : d \in there <=> Path(d) = Path(to)
  BY <1>8
<1> HIDE DEF there, to
<1>10. UNCHANGED <<archive, done, marred>>
  BY DEF DoRename
<1>11. QED
  BY <1>5, <1>6, <1>8, <1>9, <1>10

LEMMA RenameFiled ==
  ASSUME Shaped, DirsFiled, DoRename
  PROVE  /\ UNCHANGED <<done, marred>>
         /\ DirsFiled' /\ \A name \in Names : Filed(name)' = Filed(name)
<1>1. UNCHANGED <<archive, done, marred>>
  BY RenameIs
<1>2. CASE UNCHANGED dirs
  BY <1>1, <1>2, SameFiled
<1>3. CASE ~UNCHANGED dirs
  <2>1. PICK from \in dirs, to \in Dirs, there \in SUBSET dirs :
          /\ dirs' = (dirs \ ({from} \cup there)) \cup {to}
          /\ to.name = from.name /\ to.plans = from.plans /\ to.sums = from.sums
          /\ \A d \in dirs : d \in there <=> Path(d) = Path(to)
          /\ \A d \in there : d.plans = 0
    BY <1>3, RenameIs
  <2> DEFINE rest == dirs \ (there \ {from})
  <2>2. dirs \in SUBSET Dirs /\ IsFiniteSet(dirs)
    BY DEF Shaped, Typing, DirsFiled
  <2>3. rest \in SUBSET Dirs /\ from \in rest /\ to \notin rest \ {from} /\ dirs' = (rest \ {from}) \cup {to}
    BY <2>1, <2>2
  <2>4. /\ IsFiniteSet(rest)
        /\ \A name \in Names : Cardinality(Summaries(rest, name)) = Cardinality(Summaries(dirs, name))
    <3>1. CASE there \subseteq {from}
      <4>1. rest = dirs
        BY <3>1
      <4>2. QED
        BY <2>2, <4>1
    <3>2. CASE ~(there \subseteq {from})
      <4>1. PICK t \in there : t # from
        BY <3>2
      <4>2. there \ {from} = {t}
        BY <2>1, <4>1 DEF DirsFiled
      <4>3. rest = dirs \ {t}
        BY <4>2
      <4>4. t \in dirs /\ t.sums = 0
        BY <2>1, <2>2, <4>1 DEF DirsFiled, Dirs
      <4> HIDE DEF rest
      <4>5. ASSUME NEW name \in Names
            PROVE  /\ IsFiniteSet(rest)
                   /\ Cardinality(Summaries(rest, name)) = Cardinality(Summaries(dirs, name))
        <5>1. /\ IsFiniteSet(dirs \ {t}) /\ Cardinality(Summaries(dirs, name)) \in Nat
              /\ Cardinality(Summaries(dirs \ {t}, name))
                   = Cardinality(Summaries(dirs, name)) - IF t.name = name THEN t.sums ELSE 0
          BY <2>2, <4>4, CountLess
        <5>2. QED
          BY <4>3, <4>4, <5>1
      <4>6. IsFiniteSet(rest)
        BY <2>2, <4>3, FS_RemoveElement
      <4>7. QED
        BY <4>5, <4>6
    <3>3. QED
      BY <3>1, <3>2
  <2>5. IsFiniteSet(dirs')
    <3> HIDE DEF rest
    <3>1. IsFiniteSet(rest \ {from})
      BY <2>4, FS_RemoveElement
    <3>2. QED
      BY <2>3, <3>1, FS_AddElement
  <2>6. DirsFiled'
    <3>1. \A f, g \in dirs' : Path(f) = Path(g) => f = g
      BY <2>1 DEF DirsFiled
    <3>2. \A f \in dirs' : f.sums <= f.plans
      BY <2>1 DEF DirsFiled
    <3>3. QED
      BY <1>1, <2>5, <3>1, <3>2 DEF DirsFiled
  <2>7. ASSUME NEW name \in Names PROVE Filed(name)' = Filed(name)
    <3> HIDE DEF rest
    <3>1. /\ Cardinality(Summaries(rest, name)) \in Nat
          /\ Cardinality(Summaries(dirs', name))
               = Cardinality(Summaries(rest, name)) + IF from.name = name THEN to.sums - from.sums ELSE 0
      BY <2>1, <2>3, <2>4, CountSwap
    <3>2. to.sums - from.sums = 0
      BY <2>1, <2>2 DEF Dirs
    <3>3. QED
      BY <1>1, <2>4, <3>1, <3>2 DEF Filed
  <2>8. QED
    BY <1>1, <2>6, <2>7
<1>4. QED
  BY <1>2, <1>3

LEMMA MoveFiled ==
  ASSUME Shaped, DirsFiled, DoMove
  PROVE  /\ UNCHANGED <<done, marred>>
         /\ DirsFiled' /\ \A name \in Names : Filed(name)' = Filed(name)
<1>1. UNCHANGED <<done, marred>>
  BY DEF DoMove
<1>2. /\ Now = todo[1] /\ todo[1].left \subseteq PathsOf(dirs)
  <2>1. todo # <<>> /\ Now.op = "move"
    BY DEF DoMove, Doing
  <2>2. Now = todo[1] /\ Placed(1)
    BY <2>1, NowIs
  <2>3. QED
    BY <2>1, <2>2 DEF Placed
<1>3. PICK path \in todo[1].left :
        LET from == CHOOSE d \in dirs : Path(d) = path
        IN  \/ At(archive, from) = {} /\ dirs' = dirs \ {from} /\ archive' = archive \cup {from}
            \/ UNCHANGED <<dirs, archive>>
  BY <1>2 DEF DoMove
<1> DEFINE from == CHOOSE d \in dirs : Path(d) = path
<1>4. from \in dirs
  BY <1>2, NamedDir
<1>5. \/ At(archive, from) = {} /\ dirs' = dirs \ {from} /\ archive' = archive \cup {from}
      \/ UNCHANGED <<dirs, archive>>
  BY <1>3
<1> HIDE DEF from
<1>6. CASE UNCHANGED <<dirs, archive>>
  BY <1>1, <1>6, SameFiled
<1>7. CASE At(archive, from) = {} /\ dirs' = dirs \ {from} /\ archive' = archive \cup {from}
  <2>1. /\ dirs \in SUBSET Dirs /\ IsFiniteSet(dirs) /\ archive \in SUBSET Dirs /\ IsFiniteSet(archive)
        /\ from \in Dirs /\ from \notin archive
    BY <1>4, <1>7 DEF Shaped, Typing, DirsFiled, At
  <2>2. IsFiniteSet(dirs') /\ IsFiniteSet(archive')
    BY <1>7, <2>1, FS_RemoveElement, FS_AddElement
  <2>3. DirsFiled'
    BY <1>1, <1>7, <2>2 DEF DirsFiled
  <2>4. ASSUME NEW name \in Names PROVE Filed(name)' = Filed(name)
    <3>1. /\ Cardinality(Summaries(dirs, name)) \in Nat
          /\ Cardinality(Summaries(dirs', name))
               = Cardinality(Summaries(dirs, name)) - IF from.name = name THEN from.sums ELSE 0
      BY <1>4, <1>7, <2>1, CountLess
    <3>2. /\ Cardinality(Summaries(archive, name)) \in Nat
          /\ Cardinality(Summaries(archive', name))
               = Cardinality(Summaries(archive, name)) + IF from.name = name THEN from.sums ELSE 0
      BY <1>7, <2>1, CountMore
    <3>3. from.sums \in Int
      BY <2>1 DEF Dirs
    <3>4. QED
      BY <3>1, <3>2, <3>3 DEF Filed
  <2>5. QED
    BY <1>1, <2>3, <2>4
<1>8. QED
  BY <1>5, <1>6, <1>7

LEMMA ScaffoldFiled ==
  ASSUME Shaped, DirsFiled, NEW i \in DOMAIN roadmap, Scaffold(i)
  PROVE  /\ UNCHANGED <<done, marred>>
         /\ DirsFiled' /\ \A name \in Names : Filed(name)' = Filed(name)
<1> DEFINE d == NewDir(roadmap[i].num, roadmap[i].name)
<1>1. roadmap[i] \in Entries
  BY TextIs DEF Shaped, Typing
<1>2. d \in Dirs /\ d.sums = 0 /\ d.num = roadmap[i].num
  BY <1>1, RoadmapAssumption DEF Entries, Sections, NewDir, Dirs, Prep
<1>3. /\ dirs' = dirs \cup {d} /\ UNCHANGED <<archive, done, marred>>
      /\ ExactDirs(dirs, roadmap[i].num) = {}
  BY DEF Scaffold, Replace, Agents
<1> HIDE DEF d
<1>4. \A e \in dirs : Path(e) # Path(d)
  BY <1>2, <1>3 DEF ExactDirs, Path
<1>5. QED
  BY <1>2, <1>3, <1>4, MakeFiled

LEMMA PrepareFiled ==
  ASSUME Shaped, DirsFiled, NEW d \in dirs, Prepare(d)
  PROVE  /\ UNCHANGED <<done, marred>>
         /\ DirsFiled' /\ \A name \in Names : Filed(name)' = Filed(name)
<1>1. d \in Dirs /\ d.sums <= d.plans /\ d.sums \in Int /\ done \in [Names -> Int]
  BY DEF Shaped, Typing, DirsFiled, Dirs
<1>2. PICK e \in Dirs : Path(e) = Path(d) /\ e.sums = d.sums /\ e.sums <= e.plans /\ Replace({d}, e)
  <2>1. \A p \in {"context", "research"} :
          LET e == [d EXCEPT !.prep = p]
          IN  e \in Dirs /\ Path(e) = Path(d) /\ e.sums = d.sums /\ e.sums <= e.plans
    BY <1>1 DEF Dirs, Path, Prep
  <2>2. ASSUME d.plans < MaxPlans
        PROVE  LET e == [d EXCEPT !.plans = @ + 1]
               IN  e \in Dirs /\ Path(e) = Path(d) /\ e.sums = d.sums /\ e.sums <= e.plans
    <3>1. d.plans + 1 \in 0 .. MaxPlans /\ d.sums <= d.plans + 1
      BY <1>1, <2>2, RoadmapAssumption DEF Dirs
    <3>2. QED
      BY <1>1, <3>1 DEF Dirs, Path
  <2>3. QED
    BY <2>1, <2>2 DEF Prepare
<1>3. UNCHANGED <<archive, done, marred>> /\ dirs' = (dirs \ {d}) \cup {e}
  BY <1>2 DEF Prepare, Agents, Replace
<1>4. DirsFiled' /\ \A name \in Names : Filed(name)' = Filed(name) + IF d.name = name THEN e.sums - d.sums ELSE 0
  BY <1>1, <1>2, <1>3, SwapFiled
<1>5. e.sums - d.sums = 0
  BY <1>1, <1>2
<1>6. ASSUME NEW name \in Names PROVE Filed(name) + 0 = Filed(name)
  BY FiledNat DEF Filed
<1>7. QED
  BY <1>3, <1>4, <1>5, <1>6

LEMMA ExecuteFiled ==
  ASSUME Shaped, DirsFiled, NEW e \in Executors, NEW d \in dirs, Execute(e, d)
  PROVE  /\ UNCHANGED marred
         /\ DirsFiled' /\ \A name \in Names : Filed(name)' - done'[name] = Filed(name) - done[name]
<1> DEFINE new == [d EXCEPT !.sums = @ + 1]
<1>1. /\ d \in Dirs /\ d.sums \in Int /\ d.plans \in 0 .. MaxPlans /\ d.sums < d.plans /\ d.name \in Names
      /\ done \in [Names -> Int]
  BY DEF Shaped, Typing, DirsFiled, Dirs, Execute
<1>2. /\ UNCHANGED <<archive, marred>> /\ dirs' = (dirs \ {d}) \cup {new}
      /\ done' = [done EXCEPT ![d.name] = @ + 1]
  BY DEF Execute, Agents, Replace
<1>3. new \in Dirs /\ Path(new) = Path(d) /\ new.sums = d.sums + 1 /\ new.sums <= new.plans
  <2>1. d.sums + 1 \in 0 .. MaxPlans /\ d.sums + 1 <= d.plans
    BY <1>1, RoadmapAssumption DEF Dirs
  <2>2. QED
    BY <1>1, <2>1 DEF Dirs, Path
<1> HIDE DEF new
<1>4. done' \in [Names -> Int]
  BY <1>1, <1>2
<1>5. DirsFiled'
      /\ \A name \in Names : Filed(name)' = Filed(name) + IF d.name = name THEN new.sums - d.sums ELSE 0
  BY <1>2, <1>3, <1>4, SwapFiled
<1>6. ASSUME NEW name \in Names PROVE Filed(name)' - done'[name] = Filed(name) - done[name]
  <2>1. Filed(name) \in Int /\ done[name] \in Int
    BY <1>1, FiledNat DEF Filed
  <2>2. done'[name] = done[name] + IF d.name = name THEN 1 ELSE 0
    BY <1>1, <1>2
  <2>3. Filed(name)' = Filed(name) + IF d.name = name THEN 1 ELSE 0
    BY <1>1, <1>3, <1>5
  <2>4. QED
    BY <2>1, <2>2, <2>3
<1>7. QED
  BY <1>2, <1>5, <1>6

LEMMA JobsFiledNext == Shaped /\ JobsFiled /\ [Next]_vars => JobsFiled'
<1> SUFFICES ASSUME Shaped, JobsFiled, [Next]_vars PROVE JobsFiled'
  OBVIOUS
<1>1. ASSUME NEW name \in Names, PhaseAdd(name) PROVE JobsFiled'
  <2> DEFINE a == Mkdir(<<NextInteger(roadmap), 0>>, name)
             b == Save(AddSection(roadmap, name))
  <2>1. todo' = <<a, b>>
    BY <1>1 DEF PhaseAdd, Begin
  <2>2. a.op = "mkdir" /\ a.dir.sums = 0 /\ b.op = "save"
    BY DEF Mkdir, NewDir, Save
  <2> HIDE DEF a, b
  <2>3. \A i \in DOMAIN todo' : todo'[i] \in {a, b}
    BY <2>1
  <2>4. QED
    BY <2>2, <2>3 DEF JobsFiled
<1>2. ASSUME NEW ref \in Refs, NEW name \in Names, PhaseInsert(ref, name) PROVE JobsFiled'
  <2> DEFINE num == <<ref.num[1], NextDecimal(dirs, ref.num[1])>>
             a == Mkdir(num, name)
             b == Save(InsertSection(roadmap, ref, num, name))
  <2>1. todo' = <<a, b>>
    BY <1>2 DEF PhaseInsert, Begin
  <2>2. a.op = "mkdir" /\ a.dir.sums = 0 /\ b.op = "save"
    BY DEF Mkdir, NewDir, Save
  <2> HIDE DEF a, b
  <2>3. \A i \in DOMAIN todo' : todo'[i] \in {a, b}
    BY <2>1
  <2>4. QED
    BY <2>2, <2>3 DEF JobsFiled
<1>3. ASSUME NEW ref \in Refs, NEW force \in BOOLEAN, PhaseRemove(ref, force) PROVE JobsFiled'
  <2> DEFINE a == RmOf(ref, force)
             b == RenameOf(ref)
             c == ExciseOf(ref)
  <2>1. todo' = RemovalSteps(ref, force) /\ (force \/ \A d \in Target(ref.num) : d.sums = 0)
    BY <1>3 DEF PhaseRemove, Begin
  <2>2. a.op = "rm" /\ a.dir = FirstSorted(ExactDirs(dirs, ref.num)) /\ a.force = force
        /\ b.op = "rename" /\ c.op = "excise"
    BY DEF RmOf, RenameOf, ExciseOf
  <2>3. ExactDirs(dirs, ref.num) # {} => a.force \/ a.dir.sums = 0
    BY <2>1, <2>2 DEF Target, FirstOf
  <2>4. \/ todo' = <<c>>
        \/ todo' = <<b, c>>
        \/ todo' = <<a, c>> /\ ExactDirs(dirs, ref.num) # {}
        \/ todo' = <<a, b, c>> /\ ExactDirs(dirs, ref.num) # {}
    BY <2>1, RemovalStepsAre
  <2> HIDE DEF a, b, c
  <2>5. \A i \in DOMAIN todo' : todo'[i] \in {b, c} \/ (todo'[i] = a /\ ExactDirs(dirs, ref.num) # {})
    BY <2>4
  <2>6. QED
    BY <2>2, <2>3, <2>5 DEF JobsFiled
<1>4. ASSUME NEW ref \in Refs, PhaseComplete(ref) PROVE JobsFiled'
  <2> DEFINE a == Save(Tick(roadmap, ref))
             b == [op |-> "tell", num |-> ref.num]
  <2>1. todo' = <<a, b>>
    BY <1>4 DEF PhaseComplete, Begin
  <2>2. a.op = "save" /\ b.op = "tell"
    BY DEF Save
  <2> HIDE DEF a, b
  <2>3. \A i \in DOMAIN todo' : todo'[i] \in {a, b}
    BY <2>1
  <2>4. QED
    BY <2>2, <2>3 DEF JobsFiled
<1>5. CASE MilestoneComplete
  <2>1. todo' \in Seq(Jobs)
    BY <1>5, ShapedNext DEF Shaped, Typing
  <2>2. QED
    BY <1>5, <2>1, ShippingIs DEF JobsFiled
<1>6. CASE UNCHANGED todo
  BY <1>6 DEF JobsFiled
<1>7. ASSUME todo # <<>>, Advance PROVE JobsFiled'
  <2>1. \A i \in DOMAIN todo' : i + 1 \in DOMAIN todo /\ todo'[i] = todo[i + 1]
    BY <1>7, AdvanceIs
  <2>2. QED
    BY <2>1 DEF JobsFiled
<1>8. CASE DoMkdir \/ DoSave \/ DoRm \/ DoTell \/ DoShip
  BY <1>7, <1>8 DEF DoMkdir, DoSave, DoRm, DoTell, DoShip, Doing
<1>9. CASE DoRename \/ DoMove
  <2>1. todo # <<>> /\ Now.op \in {"rename", "move"}
    BY <1>9 DEF DoRename, DoMove, Doing
  <2>2. Now = todo[1]
    BY <2>1, NowIs
  <2>3. Advance \/ \E path \in todo[1].left : AdvancePast(path)
    BY <1>9, <2>2 DEF DoRename, DoMove
  <2>4. ASSUME NEW path \in todo[1].left, AdvancePast(path) PROVE JobsFiled'
    <3>1. \A i \in DOMAIN todo' : \E j \in DOMAIN todo : todo'[i].op = todo[j].op
      BY <2>1, <2>2, <2>4, AdvancePastIs
    <3>2. \A j \in DOMAIN todo : todo[j].op \notin {"mkdir", "rm"}
      BY <2>1, <2>2 DEF Shaped, Queued, Placed
    <3>3. QED
      BY <3>1, <3>2 DEF JobsFiled
  <2>5. QED
    BY <1>7, <2>1, <2>3, <2>4
<1>10. CASE DoExcise
  <2> DEFINE job == [Save(RemoveSection(roadmap, Now.ref)) EXCEPT !.op = "rewrite"]
  <2>1. todo' = <<job>>
    BY <1>10 DEF DoExcise
  <2>2. job.op = "rewrite"
    BY DEF Save
  <2> HIDE DEF job
  <2>3. \A i \in DOMAIN todo' : todo'[i] = job
    BY <2>1
  <2>4. QED
    BY <2>2, <2>3 DEF JobsFiled
<1>11. CASE Crash
  BY <1>11 DEF Crash, JobsFiled
<1>12. Command => JobsFiled'
  BY <1>1, <1>2, <1>3, <1>4, <1>5 DEF Command
<1>13. Step => JobsFiled'
  BY <1>8, <1>9, <1>10 DEF Step
<1>14. ~Command /\ ~Step /\ ~Crash => UNCHANGED todo
  BY DEF Next, vars, Scaffold, Prepare, Execute, UpdatePlanProgress, SaveProgress, Agents
<1>15. QED
  BY <1>6, <1>11, <1>12, <1>13, <1>14

LEMMA FiledNext ==
  ASSUME Shaped, DirsFiled, JobsFiled, [Next]_vars
  PROVE  /\ DirsFiled'
         /\ "race" \notin marred' => \A name \in Names : Filed(name)' - done'[name] = Filed(name) - done[name]
<1>1. ASSUME DirsFiled', UNCHANGED done, \A name \in Names : Filed(name)' = Filed(name)
      PROVE  /\ DirsFiled'
             /\ "race" \notin marred' =>
                  \A name \in Names : Filed(name)' - done'[name] = Filed(name) - done[name]
  BY <1>1
<1>2. CASE UNCHANGED <<dirs, archive, done>>
  BY <1>1, <1>2, SameFiled
<1>3. CASE DoMkdir
  BY <1>1, <1>3, MkdirFiled DEF DoMkdir
<1>4. CASE DoRm
  BY <1>4, RmFiled
<1>5. CASE DoRename
  BY <1>1, <1>5, RenameFiled
<1>6. CASE DoMove
  BY <1>1, <1>6, MoveFiled
<1>7. ASSUME NEW i \in DOMAIN roadmap, Scaffold(i)
      PROVE  DirsFiled' /\ UNCHANGED done /\ \A name \in Names : Filed(name)' = Filed(name)
  BY <1>7, ScaffoldFiled
<1>8. ASSUME NEW d \in dirs, Prepare(d)
      PROVE  DirsFiled' /\ UNCHANGED done /\ \A name \in Names : Filed(name)' = Filed(name)
  BY <1>8, PrepareFiled
<1>9. ASSUME NEW e \in Executors, NEW d \in dirs, Execute(e, d)
      PROVE  DirsFiled' /\ \A name \in Names : Filed(name)' - done'[name] = Filed(name) - done[name]
  BY <1>9, ExecuteFiled
<1>10. CASE Command
  BY <1>2, <1>10 DEF Command, PhaseAdd, PhaseInsert, PhaseRemove, PhaseComplete, MilestoneComplete, Begin
<1>11. CASE DoSave \/ DoExcise \/ DoTell \/ DoShip \/ Crash
  BY <1>2, <1>11 DEF DoSave, DoExcise, DoTell, DoShip, Crash
<1>12. CASE \E e \in Executors : UpdatePlanProgress(e) \/ SaveProgress(e)
  BY <1>2, <1>12 DEF UpdatePlanProgress, SaveProgress, Agents
<1>13. CASE UNCHANGED vars
  BY <1>2, <1>13 DEF vars
<1>14. QED
  BY <1>1, <1>3, <1>4, <1>5, <1>6, <1>7, <1>8, <1>9, <1>10, <1>11, <1>12, <1>13 DEF Next, Step

LEMMA FiledInit == Init => DirsFiled /\ JobsFiled /\ NoWorkLost
<1> SUFFICES ASSUME Init PROVE DirsFiled /\ JobsFiled /\ NoWorkLost
  OBVIOUS
<1>1. PICK k \in 0 .. Len(Outline), planned \in 0 .. 1 :
        dirs = {[NewDir(<<i, 0>>, Outline[i]) EXCEPT !.plans = planned] : i \in 1 .. k}
  BY DEF Init
<1> DEFINE D(i) == [NewDir(<<i, 0>>, Outline[i]) EXCEPT !.plans = planned]
<1>2. dirs = {D(i) : i \in 1 .. k}
  BY <1>1
<1>3. \A i \in 1 .. k : D(i).num = <<i, 0>> /\ D(i).sums = 0 /\ D(i).plans = planned
  BY DEF NewDir
<1>4. planned \in Nat /\ k \in Int
  BY PhasesAssumption
<1> HIDE DEF D
<1>5. IsFiniteSet(dirs)
  <2> DEFINE f == [i \in 1 .. k |-> D(i)]
  <2>1. f \in Surjection(1 .. k, dirs)
    BY <1>2 DEF Surjection
  <2>2. IsFiniteSet(1 .. k)
    BY <1>4, FS_Interval
  <2> HIDE DEF f
  <2>3. QED
    BY <2>1, <2>2, FS_Surjection
<1>6. archive = {} /\ IsFiniteSet(archive)
  BY FS_EmptySet DEF Init
<1>7. \A d, e \in dirs : Path(d) = Path(e) => d = e
  <2> SUFFICES ASSUME NEW i \in 1 .. k, NEW j \in 1 .. k, Path(D(i)) = Path(D(j)) PROVE D(i) = D(j)
    BY <1>2
  <2>1. D(i).num[1] = i /\ D(j).num[1] = j
    BY <1>3
  <2>2. D(i).num = D(j).num
    BY DEF Path
  <2>3. QED
    BY <2>1, <2>2
<1>8. \A d \in dirs : d.sums = 0 /\ d.sums <= d.plans
  BY <1>2, <1>3, <1>4
<1>9. done \in [Names -> Int] /\ \A n \in Names : done[n] = 0
  BY DEF Init
<1>10. JobsFiled
  BY DEF Init, JobsFiled
<1>11. ASSUME NEW n \in Names PROVE Summaries(dirs, n) = {} /\ Summaries(archive, n) = {}
  BY <1>6, <1>8 DEF Summaries
<1>12. \A n \in Names : Cardinality(Summaries(dirs, n)) + Cardinality(Summaries(archive, n)) = 0 + 0
  BY <1>11, FS_EmptySet
<1>13. QED
  BY <1>5, <1>6, <1>7, <1>8, <1>9, <1>10, <1>12 DEF DirsFiled, NoWorkLost

\* Every summary an executor has written stays in a directory of the name of its phase,
\* through renumbering, archiving and crashes, until it is removed by force, or written
\* while its phase is removed.
THEOREM WorkStays == Spec => []NoWorkLost
<1> DEFINE Inv == Shaped /\ DirsFiled /\ JobsFiled /\ NoWorkLost
<1>1. Init => Inv
  BY ShapedInit, FiledInit
<1>2. Inv /\ [Next]_vars => Inv'
  <2> SUFFICES ASSUME Inv, [Next]_vars PROVE Inv'
    OBVIOUS
  <2>1. Shaped' /\ JobsFiled' /\ DirsFiled'
    BY ShapedNext, JobsFiledNext, FiledNext
  <2>2. ASSUME "race" \notin marred', NEW n \in Names PROVE Filed(n)' = done'[n]
    <3>1. Filed(n) = done[n]
      BY <2>2, MarredGrows DEF NoWorkLost, Filed
    <3>2. Filed(n)' - done'[n] = Filed(n) - done[n]
      BY <2>2, FiledNext
    <3>3. Filed(n) \in Int
      BY FiledNat DEF Filed
    <3>4. Filed(n)' \in Int /\ done'[n] \in Int
      <4>1. dirs' \subseteq Dirs /\ archive' \subseteq Dirs
        BY <2>1 DEF Shaped, Typing
      <4>2. IsFiniteSet(dirs') /\ IsFiniteSet(archive') /\ done' \in [Names -> Int]
        BY <2>1 DEF DirsFiled
      <4>3. Cardinality(Summaries(dirs', n)) \in Nat /\ Cardinality(Summaries(archive', n)) \in Nat
        BY <4>1, <4>2, CountNat
      <4>4. QED
        BY <4>2, <4>3 DEF Filed
    <3>5. QED
      BY <3>1, <3>2, <3>3, <3>4
  <2>3. NoWorkLost'
    BY <2>2 DEF NoWorkLost, Filed
  <2>4. QED
    BY <2>1, <2>3
<1>3. Inv => NoWorkLost
  OBVIOUS
<1>4. QED
  BY <1>1, <1>2, <1>3, PTL DEF Spec

=============================================================================
