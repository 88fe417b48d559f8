--------------------------- MODULE PipelineProofs ---------------------------
(* Theorems about the reports and the OCR gate a document passes, each as a  *)
(* component of the composed specification, for whatever inputs have the     *)
(* shapes the stages read.                                                   *)
EXTENDS MCPipeline, Integers, FunctionTheorems, FiniteSetTheorems, NaturalsInduction,
        WellFoundedInduction, TLAPS

-----------------------------------------------------------------------------
(* Sequences.                                                                *)

LEMMA SeqElement ==
    ASSUME NEW Z, NEW s \in Seq(Z), NEW i \in DOMAIN s
    PROVE  s[i] \in Z /\ i \in 1..Len(s) /\ i \in Nat
  OBVIOUS

LEMMA SeqDomain ==
    ASSUME NEW Z, NEW s \in Seq(Z)
    PROVE  DOMAIN s = 1..Len(s) /\ Len(s) \in Nat
  OBVIOUS

LEMMA SeqMade ==
    ASSUME NEW Z, NEW n \in Nat, NEW s \in [1..n -> Z]
    PROVE  s \in Seq(Z) /\ Len(s) = n
  OBVIOUS

LEMMA SeqAppended ==
    ASSUME NEW Z, NEW s \in Seq(Z), NEW x \in Z
    PROVE  /\ Append(s, x) \in Seq(Z) /\ Len(Append(s, x)) = Len(s) + 1
           /\ DOMAIN Append(s, x) = 1..(Len(s) + 1)
           /\ \A i \in 1..Len(s) : Append(s, x)[i] = s[i]
           /\ Append(s, x)[Len(s) + 1] = x
  OBVIOUS

-----------------------------------------------------------------------------
(* Reports.                                                                  *)

LEMMA ReportsSize ==
    \A Z : S!Cardinality(Z) = Cardinality(Z) /\ (S!IsFiniteSet(Z) <=> IsFiniteSet(Z))
  BY DEF S!Cardinality, Cardinality, S!IsFiniteSet, IsFiniteSet

\* A decision gives one of the four statuses.
LEMMA ResolvedIsStatus ==
    ASSUME NEW d \in S!DECISIONS, NEW n \in S!STATUSES \cup {"none"}, NEW o \in S!STATUSES
    PROVE  S!ResolveReviewStatus(d, n, o) \in S!STATUSES
  BY DEF S!ResolveReviewStatus, S!STATUSES, S!DECISIONS

LEMMA ReportsStart == S!Init => S!ReportsInv
<1> SUFFICES ASSUME S!Init PROVE S!ReportsInv
  OBVIOUS
<1>1. PICK rs \in Requirements : \E status \in [DOMAIN rs -> {"UNKNOWN", "NEEDS_REVIEW"}] :
         reqs = [i \in DOMAIN rs |-> [category |-> rs[i].category, cited |-> rs[i].cited,
                                      lines |-> rs[i].lines, status |-> status[i]]]
  BY DEF S!Init
<1>2. PICK status \in [DOMAIN rs -> {"UNKNOWN", "NEEDS_REVIEW"}] :
         reqs = [i \in DOMAIN rs |-> [category |-> rs[i].category, cited |-> rs[i].cited,
                                      lines |-> rs[i].lines, status |-> status[i]]]
  BY <1>1
<1>3. rs \in Seq([category : S!CATEGORIES, cited : BOOLEAN, lines : Nat])
  BY PipelineAssumption DEF S!ReportsFit
<1>4. reqs \in Seq(S!Item)
  <2>1. ASSUME NEW i \in DOMAIN rs PROVE reqs[i] \in S!Item
    <3>1. rs[i] \in [category : S!CATEGORIES, cited : BOOLEAN, lines : Nat]
      BY <1>3, SeqElement
    <3>2. reqs[i] = [category |-> rs[i].category, cited |-> rs[i].cited, lines |-> rs[i].lines,
                     status |-> status[i]]
      BY <1>2, <2>1
    <3>3. rs[i].category \in S!CATEGORIES /\ rs[i].cited \in BOOLEAN /\ rs[i].lines \in Nat
      BY <3>1
    <3>4. status[i] \in S!STATUSES
      BY <1>2, <2>1 DEF S!STATUSES
    <3>5. QED
      BY <3>2, <3>3, <3>4 DEF S!Item
  <2>2. DOMAIN reqs = 1..Len(rs) /\ Len(rs) \in Nat
    BY <1>2, <1>3, SeqDomain
  <2>3. reqs \in [1..Len(rs) -> S!Item]
    BY <1>2, <2>1, <2>2
  <2>4. QED
    BY <2>2, <2>3, SeqMade
<1>5. S!PassIsCited
  BY <1>2 DEF S!PassIsCited
<1>6. S!TypeOK
  BY <1>4, PipelineAssumption DEF S!TypeOK, S!Init, S!ReportsFit
<1>7. shown.what = "run" /\ stored = S!RequirementCounts(reqs)
  BY DEF S!Init
<1>8. QED
  BY <1>5, <1>6, <1>7 DEF S!ReportsInv, S!RoomBelow, S!BlocksFit, S!ArchiveWhole, S!GateNeedsAll

\* A review keeps the counts and passes nothing uncited.
LEMMA ReviewKeeps ==
    ASSUME S!ReportsInv, NEW i \in DOMAIN reqs, NEW d \in S!DECISIONS,
           NEW n \in S!STATUSES \cup {"none"}, S!Review(i, d, n)
    PROVE  S!ReportsInv'
<1> DEFINE status == S!ResolveReviewStatus(d, n, reqs[i].status)
<1>1. reqs \in Seq(S!Item) /\ reqs[i] \in S!Item
  BY DEF S!ReportsInv, S!TypeOK
<1>2. status \in S!STATUSES
  BY <1>1, ResolvedIsStatus DEF S!Item
<1>3. reqs' = [reqs EXCEPT ![i].status = status] /\ (status = "PASS" => reqs[i].cited)
  BY DEF S!Review
<1> HIDE DEF status
<1>4. [reqs[i] EXCEPT !.status = status] \in S!Item
  BY <1>1, <1>2 DEF S!Item
<1>5. reqs' \in Seq(S!Item)
  <2>1. reqs' = [reqs EXCEPT ![i] = [reqs[i] EXCEPT !.status = status]]
    BY <1>3
  <2>2. QED
    BY <2>1, <1>1, <1>4
<1>6. S!PassIsCited'
  <2> SUFFICES ASSUME NEW k \in DOMAIN reqs', reqs'[k].status = "PASS" PROVE reqs'[k].cited
    BY DEF S!PassIsCited
  <2>1. k \in DOMAIN reqs /\ reqs[k] \in S!Item
    BY <1>1, <1>3
  <2>2. CASE k = i
    BY <1>1, <1>3, <2>2 DEF S!Item
  <2>3. CASE k # i
    BY <1>1, <1>3, <2>1, <2>3 DEF S!ReportsInv, S!PassIsCited
  <2>4. QED
    BY <2>2, <2>3
<1>7. shown'.what = "run" /\ UNCHANGED reports /\ stored' = S!RequirementCounts(reqs')
  BY DEF S!Review
<1>8. S!TypeOK'
  BY <1>5, <1>7 DEF S!ReportsInv, S!TypeOK
<1>9. QED
  BY <1>6, <1>7, <1>8 DEF S!ReportsInv, S!RoomBelow, S!BlocksFit, S!ArchiveWhole, S!GateNeedsAll

LEMMA PdfBegins ==
    ASSUME S!ReportsInv, S!BuildPdfReport
    PROVE  S!ReportsInv'
<1>1. PICK summary \in Summaries :
         shown' = [what |-> "pdf", run |-> reqs, page |-> 1, y |-> 82 + summary * 14 + 8,
                   boxes |-> <<>>]
  BY DEF S!BuildPdfReport
<1>2. summary \in Nat /\ reqs \in Seq(S!Item)
  BY PipelineAssumption DEF S!ReportsFit, S!ReportsInv, S!TypeOK
<1>3. shown'.what = "pdf" /\ shown'.boxes = <<>> /\ shown'.y \in Nat /\ shown'.y >= 76
  BY <1>1, <1>2
<1>4. shown' \in S!Pdf /\ Len(shown'.boxes) <= Len(shown'.run)
  <2>1. <<>> \in Seq([page : Nat, top : Int, bottom : Int]) /\ Len(<<>>) = 0
    OBVIOUS
  <2>2. Len(reqs) \in Nat
    BY <1>2, SeqDomain
  <2>3. 82 + summary * 14 + 8 \in Nat
    BY <1>2
  <2>4. QED
    BY <1>1, <1>2, <2>1, <2>2, <2>3 DEF S!Pdf
<1>5. UNCHANGED <<reqs, stored, reports>>
  BY DEF S!BuildPdfReport
<1>6. S!TypeOK'
  BY <1>3, <1>4, <1>5 DEF S!ReportsInv, S!TypeOK
<1>7. DOMAIN shown'.boxes = {}
  BY <1>3
<1>8. S!RoomBelow' /\ S!BlocksFit'
  BY <1>3, <1>7 DEF S!RoomBelow, S!BlocksFit
<1>9. S!ArchiveWhole' /\ S!GateNeedsAll'
  BY <1>3 DEF S!ArchiveWhole, S!GateNeedsAll
<1>10. QED
  BY <1>5, <1>6, <1>8, <1>9 DEF S!ReportsInv, S!PassIsCited

\* A box goes below those of its page, or to the top of the next one.
LEMMA BoxGoesBelow ==
    ASSUME S!ReportsInv, S!DrawBlock
    PROVE  S!ReportsInv'
<1> DEFINE Box  == [page : Nat, top : Int, bottom : Int]
           n    == Len(shown.boxes)
           h    == S!BlockHeight(shown.run[n + 1].lines)
           br   == S!Breaks(shown.y, h)
           pg   == IF br THEN shown.page + 1 ELSE shown.page
           top  == IF br THEN 76 ELSE shown.y
           box  == [page |-> pg, top |-> top - 4, bottom |-> top + h - 4]
<1>1. /\ shown \in S!Pdf /\ shown.what = "pdf" /\ n < Len(shown.run)
      /\ S!RoomBelow /\ S!BlocksFit /\ S!TypeOK
  BY DEF S!DrawBlock, S!ReportsInv, S!TypeOK
<1>2. /\ shown.boxes \in Seq(Box) /\ shown.run \in Seq(S!Item) /\ shown.page \in Nat
      /\ shown.y \in Nat
  BY <1>1 DEF S!Pdf
<1>3. n \in Nat /\ Len(shown.run) \in Nat /\ DOMAIN shown.boxes = 1..n
  BY <1>2, SeqDomain
<1>4. n + 1 \in DOMAIN shown.run
  BY <1>1, <1>2, <1>3, SeqDomain
<1>5. h \in Nat /\ h >= 18
  <2>1. shown.run[n + 1] \in S!Item
    BY <1>2, <1>4, SeqElement
  <2>2. shown.run[n + 1].lines \in Nat
    BY <2>1 DEF S!Item
  <2>3. \A l \in Nat : S!BlockHeight(l) \in Nat /\ S!BlockHeight(l) >= 18
    BY DEF S!BlockHeight
  <2>4. QED
    BY <2>2, <2>3
<1>6. shown' = [shown EXCEPT !.page = pg, !.y = top + h + 7, !.boxes = Append(@, box)]
  BY DEF S!DrawBlock
<1>7. UNCHANGED <<reqs, stored, reports>>
  BY DEF S!DrawBlock
<1>8. br <=> shown.y + h > 794
  BY <1>2, <1>5 DEF S!Breaks, S!PAGE_HEIGHT
<1> HIDE DEF n, h, br
<1>9. /\ pg \in Nat /\ top \in Nat /\ shown.y >= 76 /\ top >= 76
      /\ br => pg = shown.page + 1 /\ top = 76
      /\ ~br => pg = shown.page /\ top = shown.y /\ top + h <= 794
  BY <1>1, <1>2, <1>5, <1>8 DEF S!RoomBelow
<1>10. box \in Box /\ box.page = pg /\ box.top = top - 4 /\ box.bottom = top + h - 4
  BY <1>5, <1>9
<1> HIDE DEF pg, top, box
<1>11. /\ shown'.what = "pdf" /\ shown'.run = shown.run /\ shown'.page = pg
       /\ shown'.y = top + h + 7 /\ shown'.boxes = Append(shown.boxes, box)
  BY <1>1, <1>6 DEF S!Pdf
<1>12. /\ shown'.boxes \in Seq(Box) /\ Len(shown'.boxes) = n + 1
       /\ DOMAIN shown'.boxes = 1..(n + 1)
       /\ \A k \in 1..n : shown'.boxes[k] = shown.boxes[k]
       /\ shown'.boxes[n + 1] = box
  BY <1>2, <1>10, <1>11, SeqAppended DEF n
<1>13. \A k \in 1..n : shown.boxes[k] \in Box
  BY <1>2, <1>3, SeqElement
<1>14. S!TypeOK'
  <2>1. shown' \in S!Pdf
    <3>1. top + h + 7 \in Nat
      BY <1>5, <1>9
    <3>2. Append(shown.boxes, box) \in Seq(Box)
      BY <1>11, <1>12
    <3>3. QED
      BY <1>1, <1>6, <1>9, <3>1, <3>2 DEF S!Pdf
  <2>2. Len(shown'.boxes) <= Len(shown'.run)
    BY <1>1, <1>3, <1>11, <1>12
  <2>3. QED
    BY <1>1, <1>7, <1>11, <2>1, <2>2 DEF S!TypeOK
<1> HIDE DEF Box
<1>15. \A k \in 1..n : /\ shown.boxes[k].page \in Nat /\ shown.boxes[k].bottom \in Int
                       /\ \/ shown.boxes[k].page < shown.page
                          \/ shown.boxes[k].page = shown.page /\ shown.boxes[k].bottom < shown.y - 4
  BY <1>1, <1>3, <1>13 DEF S!RoomBelow, Box
\* The boxes drawn before end above the new one, on its page or an earlier one.
<1>16. \A k \in 1..n : \/ shown.boxes[k].page < pg
                       \/ shown.boxes[k].page = pg /\ shown.boxes[k].bottom < top - 4
  <2> SUFFICES ASSUME NEW k \in 1..n
               PROVE  \/ shown.boxes[k].page < pg
                      \/ shown.boxes[k].page = pg /\ shown.boxes[k].bottom < top - 4
    OBVIOUS
  <2>1. CASE br
    BY <1>2, <1>9, <1>15, <2>1
  <2>2. CASE ~br
    BY <1>2, <1>9, <1>15, <2>2
  <2>3. QED
    BY <2>1, <2>2
<1>17. S!RoomBelow'
  <2>1. shown'.y >= 76
    BY <1>5, <1>9, <1>11
  <2>2. ASSUME NEW k \in DOMAIN shown'.boxes
        PROVE  \/ shown'.boxes[k].page < shown'.page
               \/ shown'.boxes[k].page = shown'.page /\ shown'.boxes[k].bottom < shown'.y - 4
    <3>1. CASE k \in 1..n
      BY <1>5, <1>9, <1>11, <1>12, <1>15, <1>16, <3>1
    <3>2. CASE k = n + 1
      BY <1>5, <1>9, <1>10, <1>11, <1>12, <3>2
    <3>3. QED
      BY <1>3, <1>12, <3>1, <3>2
  <2>3. QED
    BY <2>1, <2>2 DEF S!RoomBelow
<1>18. S!BlocksFit'
  <2> SUFFICES ASSUME \A i \in DOMAIN shown.run : S!FitsPage(shown.run[i]),
                      NEW i \in 1..(n + 1)
               PROVE  /\ shown'.boxes[i].top > 56 /\ shown'.boxes[i].bottom < S!PAGE_HEIGHT - 24 - 8
                      /\ \A k \in 1..(i - 1) :
                            \/ shown'.boxes[k].page < shown'.boxes[i].page
                            \/ /\ shown'.boxes[k].page = shown'.boxes[i].page
                               /\ shown'.boxes[k].bottom < shown'.boxes[i].top
    BY <1>11, <1>12 DEF S!BlocksFit
  <2>1. CASE i \in 1..n
    <3>1. \A k \in 1..(i - 1) : k \in 1..n
      BY <1>3, <2>1
    <3>2. QED
      BY <1>1, <1>3, <1>12, <2>1, <3>1 DEF S!BlocksFit
  <2>2. CASE i = n + 1
    <3>1. 76 + h <= 794
      <4>1. S!FitsPage(shown.run[n + 1])
        BY <1>4
      <4>2. 76 + h <= S!PAGE_HEIGHT - 48
        BY <4>1 DEF S!FitsPage, h
      <4>3. QED
        BY <4>2 DEF S!PAGE_HEIGHT
    <3>2. box.top > 56 /\ box.bottom < 810
      BY <1>5, <1>9, <1>10, <3>1
    <3>3. \A k \in 1..(i - 1) : k \in 1..n
      BY <1>3, <2>2
    <3>4. QED
      <4>1. shown'.boxes[i] = box
        BY <1>12, <2>2
      <4>2. \A k \in 1..(i - 1) : shown'.boxes[k] = shown.boxes[k]
        BY <1>12, <3>3
      <4>3. S!PAGE_HEIGHT - 24 - 8 = 810
        BY DEF S!PAGE_HEIGHT
      <4>4. QED
        BY <1>10, <1>16, <3>2, <3>3, <4>1, <4>2, <4>3
  <2>3. QED
    BY <1>3, <2>1, <2>2
<1>19. S!ArchiveWhole' /\ S!GateNeedsAll'
  BY <1>11 DEF S!ArchiveWhole, S!GateNeedsAll
<1>20. QED
  BY <1>7, <1>14, <1>17, <1>18, <1>19 DEF S!ReportsInv, S!PassIsCited

LEMMA LeastNumber ==
    ASSUME NEW Z, Z \subseteq Nat, Z # {}
    PROVE  \E i \in Z : \A j \in Z : i <= j
<1>1. PICK i \in Z : \A j \in Z : ~(<<j, i>> \in OpToRel(<, Nat))
  BY NatLessThanWellFounded, WFMin
<1>2. \A j \in Z : ~(j < i)
  BY <1>1 DEF OpToRel
<1>3. QED
  BY <1>2

\* A pigeonhole: one number more than there are names in use, so one of them is free, and
\* the suffix loop ends with a name of its own.
LEMMA FreshIsFree ==
    ASSUME NEW run, NEW used, IsFiniteSet(used)
    PROVE  /\ S!FreshNumber(run, used) \in Nat
           /\ <<run.stem, run.short, S!FreshNumber(run, used)>> \notin used
<1> DEFINE c    == Cardinality(used)
           f    == [m \in 1..(c + 1) |-> <<run.stem, run.short, m>>]
           free == {m \in 1..(c + 1) : <<run.stem, run.short, m>> \notin used}
<1>1. c \in Nat
  BY FS_CardinalityType
<1>2. free # {}
  <2> SUFFICES ASSUME free = {} PROVE FALSE
    OBVIOUS
  <2>1. f \in [1..(c + 1) -> used]
    OBVIOUS
  <2>2. \A x, y \in 1..(c + 1) : f[x] = f[y] => x = y
    OBVIOUS
  <2>3. f \in Injection(1..(c + 1), used)
    BY <2>1, <2>2 DEF Injection, IsInjective
  <2> HIDE DEF c, f, free
  <2>4. Cardinality(1..(c + 1)) <= c
    BY <2>3, FS_Injection DEF c
  <2>5. Cardinality(1..(c + 1)) = c + 1
    BY <1>1, FS_Interval
  <2>6. QED
    BY <1>1, <2>4, <2>5
<1>3. free \subseteq Nat
  BY <1>1
<1>4. PICK n \in free : \A m \in free : n <= m
  BY <1>2, <1>3, LeastNumber
<1>5. n \in 1..(c + 1) /\ <<run.stem, run.short, n>> \notin used
  OBVIOUS
<1>6. \A m \in 1..(n - 1) : <<run.stem, run.short, m>> \in used
  <2> SUFFICES ASSUME NEW m \in 1..(n - 1), <<run.stem, run.short, m>> \notin used PROVE FALSE
    OBVIOUS
  <2> HIDE DEF c
  <2>1. m \in free
    BY <1>1, <1>5
  <2>2. QED
    BY <1>1, <1>4, <1>5, <2>1
<1>7. S!Cardinality(used) = c
  BY ReportsSize
<1> HIDE DEF c, free
<1>8. /\ S!FreshNumber(run, used) \in 1..(c + 1)
      /\ <<run.stem, run.short, S!FreshNumber(run, used)>> \notin used
  BY <1>5, <1>6, <1>7 DEF S!FreshNumber
<1>9. QED
  BY <1>1, <1>8

LEMMA NamesAreFinite ==
    ASSUME NEW Z, NEW s \in Seq(Z)
    PROVE  IsFiniteSet(S!Names(s))
<1> DEFINE f == [i \in 1..Len(s) |-> s[i].name]
<1>1. Len(s) \in Nat /\ DOMAIN s = 1..Len(s)
  OBVIOUS
<1>2. f \in Surjection(1..Len(s), S!Names(s))
  BY <1>1 DEF Surjection, S!Names
<1>3. IsFiniteSet(1..Len(s))
  BY <1>1, FS_Interval
<1>4. QED
  BY <1>2, <1>3, FS_Surjection

LEMMA ArchiveBegins ==
    ASSUME S!ReportsInv, S!BulkExport
    PROVE  S!ReportsInv'
<1>1. PICK ids \in Wanted : shown' = [what |-> "zip", ids |-> ids, done |-> 0, entries |-> <<>>]
  BY DEF S!BulkExport
<1>2. ids \in Seq(STRING)
  BY PipelineAssumption DEF S!ReportsFit
<1>3. UNCHANGED <<reqs, stored, reports>>
  BY DEF S!BulkExport
<1>4. /\ shown'.what = "zip" /\ shown'.entries = <<>> /\ shown'.done = 0 /\ shown'.ids = ids
  BY <1>1
<1>5. S!TypeOK'
  <2>1. Len(ids) \in Nat
    BY <1>2, SeqDomain
  <2>2. shown' \in S!Zip
    BY <1>1, <1>2 DEF S!Zip
  <2>3. QED
    BY <1>3, <1>4, <2>1, <2>2 DEF S!TypeOK, S!ReportsInv
<1>6. S!ArchiveWhole'
  <2>1. DOMAIN shown'.entries = {} /\ 1..shown'.done = {}
    BY <1>4
  <2>2. QED
    BY <2>1 DEF S!ArchiveWhole
<1>7. QED
  BY <1>3, <1>4, <1>5, <1>6
  DEF S!ReportsInv, S!PassIsCited, S!RoomBelow, S!BlocksFit, S!GateNeedsAll

\* An id that was met before or may not be exported changes nothing; another one gets an entry.
LEMMA ArchiveGrows ==
    ASSUME S!ReportsInv, S!AddReport
    PROVE  S!ReportsInv'
<1> DEFINE Entry == [id : STRING, name : S!Name]
           n     == shown.done
           id    == shown.ids[n + 1]
           old   == shown.entries
           skip  == ~S!Exported(id) \/ \E m \in 1..n : shown.ids[m] = id
           name  == <<Library[id].stem, Library[id].short,
                      S!FreshNumber(Library[id], S!Names(old))>>
           new   == [id |-> id, name |-> name]
<1>1. shown \in S!Zip /\ shown.what = "zip" /\ n < Len(shown.ids) /\ S!ArchiveWhole /\ S!TypeOK
  BY DEF S!AddReport, S!ReportsInv, S!TypeOK
<1>2. old \in Seq(Entry) /\ shown.ids \in Seq(STRING) /\ n \in Nat
  BY <1>1 DEF S!Zip
<1>3. Len(shown.ids) \in Nat /\ DOMAIN old = 1..Len(old) /\ Len(old) \in Nat
  BY <1>2, SeqDomain
<1>4. id \in STRING
  <2>1. n + 1 \in DOMAIN shown.ids
    BY <1>1, <1>2, <1>3, SeqDomain
  <2>2. QED
    BY <1>2, <2>1, SeqElement
<1>5. /\ shown' = [shown EXCEPT !.done = n + 1, !.entries = IF skip THEN old ELSE Append(old, new)]
      /\ UNCHANGED <<reqs, stored, reports>>
  BY DEF S!AddReport
<1>6. /\ \A i, k \in DOMAIN old : i # k => old[i].name # old[k].name /\ old[i].id # old[k].id
      /\ {old[i].id : i \in DOMAIN old} = {x \in {shown.ids[m] : m \in 1..n} : S!Exported(x)}
  BY <1>1 DEF S!ArchiveWhole
<1>7. ASSUME ~skip
      PROVE  /\ name \in S!Name
             /\ \A i \in DOMAIN old : old[i].name # name
  <2>1. IsFiniteSet(S!Names(old))
    BY <1>2, NamesAreFinite
  <2>2. S!FreshNumber(Library[id], S!Names(old)) \in Nat /\ name \notin S!Names(old)
    BY <2>1, FreshIsFree
  <2>3. id \in DOMAIN Library
    BY <1>7 DEF S!Exported
  <2>4. \A i \in DOMAIN old : old[i].name # name
    BY <2>2 DEF S!Names
  <2> HIDE DEF id, old
  <2>5. name \in S!Name
    BY <2>2, <2>3 DEF S!Name
  <2>6. QED
    BY <2>4, <2>5
<1> HIDE DEF n, old, skip, name
<1>8. new.id = id /\ new.name = name
  OBVIOUS
<1>9. ~skip => new \in Entry
  BY <1>4, <1>7
<1>10. shown.done = n /\ shown.entries = old
  BY DEF n, old
<1>11. ~skip => S!Exported(id) /\ \A m \in 1..n : shown.ids[m] # id
  BY DEF skip
<1>12. skip => (~S!Exported(id) \/ \E m \in 1..n : shown.ids[m] = id)
  BY DEF skip
<1>13. shown.ids[n + 1] = id
  OBVIOUS
<1> HIDE DEF id, new
<1>14. /\ shown'.what = "zip" /\ shown'.ids = shown.ids /\ shown'.done = n + 1
       /\ shown'.entries = IF skip THEN old ELSE Append(old, new)
  BY <1>1, <1>5 DEF S!Zip
<1>15. shown'.entries \in Seq(Entry)
  <2> HIDE DEF Entry
  <2>1. CASE skip
    BY <1>2, <1>14, <2>1
  <2>2. CASE ~skip
    BY <1>2, <1>9, <1>14, <2>2, SeqAppended
  <2>3. QED
    BY <2>1, <2>2
<1>16. S!TypeOK'
  <2>1. n + 1 \in Nat /\ n + 1 <= Len(shown.ids)
    BY <1>1, <1>2, <1>3
  <2>2. (IF skip THEN old ELSE Append(old, new)) \in Seq(Entry)
    BY <1>14, <1>15
  <2>3. shown' \in S!Zip
    BY <1>1, <1>5, <2>1, <2>2 DEF S!Zip
  <2>4. QED
    BY <1>1, <1>5, <1>14, <2>1, <2>3 DEF S!TypeOK
<1>17. {shown.ids[m] : m \in 1..(n + 1)} = {shown.ids[m] : m \in 1..n} \cup {id}
  <2>1. 1..(n + 1) = 1..n \cup {n + 1}
    BY <1>2
  <2>2. QED
    BY <1>13, <2>1
<1>18. CASE skip
  <2>1. shown'.entries = old
    BY <1>14, <1>18
  <2>2. {x \in {shown.ids[m] : m \in 1..(n + 1)} : S!Exported(x)}
           = {x \in {shown.ids[m] : m \in 1..n} : S!Exported(x)}
    BY <1>12, <1>17, <1>18
  <2>3. S!ArchiveWhole'
    <3>1. {shown'.entries[i].id : i \in DOMAIN shown'.entries}
             = {x \in {shown'.ids[m] : m \in 1..shown'.done} : S!Exported(x)}
      <4>1. {x \in {shown'.ids[m] : m \in 1..shown'.done} : S!Exported(x)}
               = {x \in {shown.ids[m] : m \in 1..(n + 1)} : S!Exported(x)}
        BY <1>14
      <4>2. {shown'.entries[i].id : i \in DOMAIN shown'.entries} = {old[i].id : i \in DOMAIN old}
        BY <2>1
      <4>3. QED
        BY <1>6, <2>2, <4>1, <4>2
    <3>2. \A i, k \in DOMAIN shown'.entries : i # k =>
             /\ shown'.entries[i].name # shown'.entries[k].name
             /\ shown'.entries[i].id # shown'.entries[k].id
      BY <1>6, <2>1
    <3>3. QED
      BY <3>1, <3>2 DEF S!ArchiveWhole
  <2>4. QED
    BY <1>5, <1>14, <1>16, <2>3
    DEF S!ReportsInv, S!PassIsCited, S!RoomBelow, S!BlocksFit, S!GateNeedsAll
<1>19. CASE ~skip
  <2>1. new \in Entry
    BY <1>9, <1>19
  <2> HIDE DEF Entry
  <2>2. /\ shown'.entries = Append(old, new) /\ DOMAIN shown'.entries = 1..(Len(old) + 1)
        /\ \A i \in 1..Len(old) : shown'.entries[i] = old[i]
        /\ shown'.entries[Len(old) + 1] = new
    BY <1>2, <1>14, <1>19, <2>1, SeqAppended
  <2>3. \A i \in 1..Len(old) : old[i].name # name /\ old[i].id # id
    <3>1. \A i \in 1..Len(old) : old[i].id \in {shown.ids[m] : m \in 1..n}
      BY <1>3, <1>6
    <3>2. QED
      BY <1>3, <1>7, <1>11, <1>19, <3>1
  <2>4. \A i \in 1..(Len(old) + 1) : i \in 1..Len(old) \/ i = Len(old) + 1
    BY <1>3
  <2>5. \A i, k \in DOMAIN shown'.entries : i # k =>
           /\ shown'.entries[i].name # shown'.entries[k].name
           /\ shown'.entries[i].id # shown'.entries[k].id
    BY <1>3, <1>6, <1>8, <2>2, <2>3, <2>4
  <2>6. {shown'.entries[i].id : i \in DOMAIN shown'.entries} = {old[i].id : i \in DOMAIN old} \cup {id}
    <3>1. 1..(Len(old) + 1) = 1..Len(old) \cup {Len(old) + 1}
      BY <1>3
    <3>2. QED
      BY <1>3, <1>8, <2>2, <3>1
  <2>7. {x \in {shown.ids[m] : m \in 1..(n + 1)} : S!Exported(x)}
           = {x \in {shown.ids[m] : m \in 1..n} : S!Exported(x)} \cup {id}
    BY <1>11, <1>17, <1>19
  <2>8. S!ArchiveWhole'
    <3>1. {shown'.entries[i].id : i \in DOMAIN shown'.entries}
             = {x \in {shown'.ids[m] : m \in 1..shown'.done} : S!Exported(x)}
      <4>1. {x \in {shown'.ids[m] : m \in 1..shown'.done} : S!Exported(x)}
               = {x \in {shown.ids[m] : m \in 1..(n + 1)} : S!Exported(x)}
        BY <1>14
      <4>2. QED
        BY <1>6, <2>6, <2>7, <4>1
    <3>2. QED
      BY <2>5, <3>1 DEF S!ArchiveWhole
  <2>9. QED
    BY <1>5, <1>14, <1>16, <2>8
    DEF S!ReportsInv, S!PassIsCited, S!RoomBelow, S!BlocksFit, S!GateNeedsAll
<1>20. QED
  BY <1>18, <1>19

LEMMA SnapshotTells ==
    ASSUME S!ReportsInv, S!Snapshot
    PROVE  S!ReportsInv'
<1>1. /\ shown'.what = "gate"
      /\ shown'.value = (IF S!Failures = {} /\ S!Unevaluated = {} THEN "GATE_PASS" ELSE "GATE_FAIL")
      /\ UNCHANGED <<reqs, stored, reports>>
  BY DEF S!Snapshot
<1>2. reports \in [S!Metrics -> S!Verdicts] /\ S!TypeOK
  BY DEF S!ReportsInv, S!TypeOK
<1>3. (S!Failures = {} /\ S!Unevaluated = {}) <=> \A m \in S!Metrics : reports[m] = "good"
  BY <1>2 DEF S!Failures, S!Unevaluated, S!Verdicts
<1>4. S!GateNeedsAll'
  BY <1>1, <1>3 DEF S!GateNeedsAll
<1>5. S!TypeOK'
  BY <1>1, <1>2 DEF S!TypeOK
<1>6. QED
  BY <1>1, <1>4, <1>5 DEF S!ReportsInv, S!PassIsCited, S!RoomBelow, S!BlocksFit, S!ArchiveWhole

LEMMA ReportsStep == S!ReportsInv /\ [S!Next]_(S!vars) => S!ReportsInv'
<1> SUFFICES ASSUME S!ReportsInv, [S!Next]_(S!vars) PROVE S!ReportsInv'
  OBVIOUS
<1>1. CASE \E i \in DOMAIN reqs, d \in S!DECISIONS, n \in S!STATUSES \cup {"none"} : S!Review(i, d, n)
  BY <1>1, ReviewKeeps
<1>2. CASE S!NothingExported
  <2>1. shown'.what = "404" /\ UNCHANGED <<reqs, stored, reports>>
    BY <1>2 DEF S!NothingExported
  <2>2. S!TypeOK'
    BY <2>1 DEF S!TypeOK, S!ReportsInv
  <2>3. QED
    BY <2>1, <2>2 DEF S!ReportsInv, S!PassIsCited, S!RoomBelow, S!BlocksFit, S!ArchiveWhole,
                      S!GateNeedsAll
<1>3. CASE UNCHANGED S!vars
  <2>1. UNCHANGED <<reqs, stored, reports, shown>>
    BY <1>3 DEF S!vars
  <2>2. S!TypeOK' /\ S!PassIsCited' /\ S!RoomBelow' /\ S!GateNeedsAll'
    BY <2>1 DEF S!ReportsInv, S!TypeOK, S!PassIsCited, S!RoomBelow, S!GateNeedsAll
  <2>3. S!BlocksFit'
    BY <2>1 DEF S!ReportsInv, S!BlocksFit
  <2>4. S!ArchiveWhole'
    BY <2>1 DEF S!ReportsInv, S!ArchiveWhole
  <2>5. QED
    BY <2>1, <2>2, <2>3, <2>4 DEF S!ReportsInv
<1>4. QED
  BY <1>1, <1>2, <1>3, PdfBegins, BoxGoesBelow, ArchiveBegins, ArchiveGrows, SnapshotTells
  DEF S!Next

\* Reports is the specification of the reports' variables in the composition.
LEMMA ReportsComposed == Spec => S!Spec
<1>1. Init => S!Init
  BY DEF Init
<1>2. [Next]_vars => [S!Next]_(S!vars)
  BY DEF Next, vars, svars, S!vars
<1>3. QED
  BY <1>1, <1>2, PTL DEF Spec, S!Spec

\* However often and however a run is reviewed (_resolve_review_status, review of
\* run_service.py), its row, its summary and its PDF count the same and nothing uncited passes.
THEOREM ReviewIsSound == Spec => []ReviewStands
<1>1. S!ReportsInv => ReviewStands
  <2> SUFFICES ASSUME S!ReportsInv PROVE S!CountsAgree /\ S!PassIsCited
    BY DEF ReviewStands, S!ReviewStands
  <2>1. stored = S!RequirementCounts(reqs)
    BY DEF S!ReportsInv
  <2>2. stored.blockers
           = S!Cardinality({i \in DOMAIN reqs : S!Grave(reqs[i])
                               /\ (reqs[i].status = "FAIL" \/ S!Open(reqs[i]))})
    BY <2>1 DEF S!RequirementCounts, S!Those
  <2>3. \A i \in DOMAIN reqs : reqs[i].status \in S!STATUSES
    <3>1. \A i \in DOMAIN reqs : reqs[i] \in S!Item
      BY SeqElement DEF S!ReportsInv, S!TypeOK
    <3>2. QED
      BY <3>1 DEF S!Item
  <2>4. {i \in DOMAIN reqs : S!Grave(reqs[i]) /\ reqs[i].status # "PASS"}
           = {i \in DOMAIN reqs : S!Grave(reqs[i]) /\ (reqs[i].status = "FAIL" \/ S!Open(reqs[i]))}
    BY <2>3 DEF S!STATUSES, S!Open
  <2>5. S!PdfBlockers(reqs) = stored.blockers
    BY <2>2, <2>4 DEF S!PdfBlockers, S!Those
  <2>6. S!PublicSummary(reqs, stored) = stored
    BY <2>1 DEF S!PublicSummary
  <2>7. QED
    BY <2>5, <2>6 DEF S!CountsAgree, S!ReportsInv
<1>2. QED
  BY <1>1, ReportsComposed, ReportsStart, ReportsStep, PTL DEF S!Spec

\* For every run, selection and library: no block of a PDF (build_pdf_report) is cut off or
\* printed over, an archive (bulk_export) holds each run once under a name of its own, and a gate
\* (quality_gates.py) passes on three good reports only.
THEOREM ExportsAreSound == Spec => []ExportsStand
<1>1. S!ReportsInv => ExportsStand
  BY DEF S!ReportsInv, ExportsStand, S!ExportsStand
<1>2. QED
  BY <1>1, ReportsComposed, ReportsStart, ReportsStep, PTL DEF S!Spec

-----------------------------------------------------------------------------
(* OCR: engines.                                                             *)

\* The engines an adapter may be made of.
Made(a) == \/ a \in {O!Off, O!Broken}
           \/ /\ a.kind \in {"one", "hybrid"}
              /\ a.first \in {"local", "qwen"} /\ a.second \in {"none", "local", "qwen"}

LEMMA NamedAdapter ==
    ASSUME NEW c, NEW name
    PROVE  /\ O!BuildNamedAdapter(c, name) \in {O!Off, O!Broken, O!One("local"), O!One("qwen")}
           /\ name # "qwen" => O!BuildNamedAdapter(c, name) \in {O!Off, O!Broken, O!One("local")}
  BY DEF O!BuildNamedAdapter

\* Whatever the environment says, the adapter that reads the pages is off, broken or has an engine.
LEMMA PageAdapterMade == \A c : Made(O!PageAdapter(c))
<1> SUFFICES ASSUME NEW c PROVE Made(O!PageAdapter(c))
  OBVIOUS
<1> DEFINE Simple == {O!Off, O!Broken, O!One("local"), O!One("qwen")}
<1>1. \A a \in Simple : Made(a) /\ O!Lenient(a) \in Simple
  BY DEF Made, O!One, O!Lenient, O!Off, O!Broken
<1>2. \A name : O!BuildNamedAdapter(c, name) \in Simple
  BY NamedAdapter
<1>3. \A p, f \in Simple : Made(O!Hybrid(p, f))
  <2> SUFFICES ASSUME NEW p \in Simple, NEW f \in Simple PROVE Made(O!Hybrid(p, f))
    OBVIOUS
  <2>1. CASE O!Broken \in {p, f} \/ p = O!Off
    <3>1. O!Hybrid(p, f) \in {O!Broken, f}
      BY <2>1 DEF O!Hybrid
    <3>2. QED
      BY <1>1, <3>1
  <2>2. CASE O!Broken \notin {p, f} /\ p # O!Off
    <3>1. p \in {O!One("local"), O!One("qwen")}
      BY <2>2
    <3>2. p.first \in {"local", "qwen"} /\ p.second = "none"
      BY <3>1 DEF O!One
    <3>3. CASE f = O!Off
      <4>1. O!Hybrid(p, f) = [p EXCEPT !.kind = "hybrid"]
        BY <2>2, <3>3 DEF O!Hybrid
      <4>2. p = [kind |-> "one", first |-> p.first, second |-> "none"]
        BY <3>1 DEF O!One
      <4>3. O!Hybrid(p, f) = [kind |-> "hybrid", first |-> p.first, second |-> "none"]
        BY <4>1, <4>2
      <4>4. QED
        BY <3>2, <4>3 DEF Made
    <3>4. CASE f # O!Off
      <4>1. O!Hybrid(p, f) = [kind |-> "hybrid", first |-> p.first, second |-> f.first]
        BY <2>2, <3>4 DEF O!Hybrid
      <4>2. f \in {O!One("local"), O!One("qwen")}
        BY <2>2, <3>4
      <4>3. f.first \in {"local", "qwen"}
        BY <4>2 DEF O!One
      <4>4. QED
        BY <3>2, <4>1, <4>3 DEF Made
    <3>5. QED
      BY <3>3, <3>4
  <2>3. QED
    BY <2>1, <2>2
<1> HIDE DEF Simple
<1>4. Made(O!GetOcrAdapter(c))
  BY <1>1, <1>2, <1>3 DEF O!GetOcrAdapter
<1>5. Made(O!GetLocalOcrAdapter(c))
  <2>1. O!Off \in Simple
    BY DEF Simple
  <2>2. QED
    BY <1>1, <1>2, <2>1 DEF O!GetLocalOcrAdapter
<1>6. QED
  BY <1>4, <1>5 DEF O!PageAdapter

\* The local adapter never asks the cloud.
LEMMA LocalStaysLocal ==
    ASSUME NEW c, O!EgressAllowed(c), O!GetLocalOcrAdapter(c) # O!Off
    PROVE  O!RawSent(O!PageAdapter(c)) = {}
<1> DEFINE Simple == {O!Off, O!Broken, O!One("local")}
<1>1. \A name : name # "qwen" => O!BuildNamedAdapter(c, name) \in Simple
  BY NamedAdapter
<1>2. \A a \in Simple : a.first # "qwen" /\ a.second # "qwen" /\ O!Lenient(a) \in Simple
  BY DEF O!One, O!Off, O!Broken, O!Lenient
<1>3. O!Off \in Simple
  OBVIOUS
<1> HIDE DEF Simple
<1>4. O!GetLocalOcrAdapter(c) \in Simple
  BY <1>1, <1>2, <1>3 DEF O!GetLocalOcrAdapter
<1>5. O!PageAdapter(c) = O!GetLocalOcrAdapter(c)
  BY DEF O!PageAdapter
<1>6. QED
  BY <1>2, <1>4, <1>5 DEF O!RawSent

-----------------------------------------------------------------------------
(* OCR: texts.                                                               *)

LEMMA PageSize ==
    /\ Rows \in Nat \ {0} /\ Strips \in Nat \ {0} /\ Overlap \in Nat
    /\ \A p \in Pages : p.rows \in [1..Rows -> O!Kinds \cup {"blank"}] /\ p.native \in Nat
  BY PipelineAssumption DEF O!OcrFit

LEMMA CharsIsNat ==
    ASSUME NEW text \in Seq(O!LineT)
    PROVE  /\ O!Chars(text) \in Nat
           /\ O!Chars(text) > 0 => O!Written(text)
<1>1. \A Z : O!Cardinality(Z) = Cardinality(Z)
  BY DEF O!Cardinality, Cardinality, O!IsFiniteSet, IsFiniteSet
<1> DEFINE x == O!Of(text, {"long"})
           y == O!Of(text, O!Kinds \ {"long"})
<1>2. DOMAIN text = 1..Len(text) /\ Len(text) \in Nat
  BY SeqDomain
<1>3. IsFiniteSet(DOMAIN text)
  BY <1>2, FS_Interval
<1>4. x \subseteq DOMAIN text /\ y \subseteq DOMAIN text
  BY DEF O!Of
<1>5. IsFiniteSet(x) /\ IsFiniteSet(y)
  BY <1>3, <1>4, FS_Subset
<1>6. ~O!Written(text) => x = {} /\ y = {}
  BY DEF O!Written, O!Of, O!Kinds
<1>7. O!Chars(text) = 600 * Cardinality(x) + 30 * Cardinality(y)
  BY <1>1 DEF O!Chars
<1> HIDE DEF x, y
<1>8. Cardinality(x) \in Nat /\ Cardinality(y) \in Nat /\ Cardinality({}) = 0
  BY <1>5, FS_CardinalityType, FS_EmptySet
<1>9. ~O!Written(text) => O!Chars(text) = 0
  <2> SUFFICES ASSUME ~O!Written(text) PROVE O!Chars(text) = 0
    OBVIOUS
  <2>1. Cardinality(x) = 0 /\ Cardinality(y) = 0
    BY <1>6, <1>8
  <2>2. QED
    BY <1>7, <2>1
<1>10. QED
  BY <1>7, <1>8, <1>9

LEMMA EmptyText == <<>> \in Seq(O!LineT) /\ ~O!Written(<<>>)
  BY DEF O!Written, O!Of

LEMMA BlankIsLine ==
    ASSUME NEW l \in O!LineT
    PROVE  O!Blank(l) \in O!LineT
<1>1. 0 \in 0..Rows
  BY PageSize
<1>2. QED
  BY <1>1 DEF O!Blank, O!LineT

LEMMA OnlyIsText ==
    ASSUME NEW view \in Seq(O!LineT), NEW some
    PROVE  O!Only(view, some) \in Seq(O!LineT)
<1>1. DOMAIN view = 1..Len(view) /\ Len(view) \in Nat
  BY SeqDomain
<1>2. \A i \in DOMAIN view : view[i] \in O!LineT /\ O!Blank(view[i]) \in O!LineT
  BY SeqElement, BlankIsLine
<1>3. O!Only(view, some) \in [1..Len(view) -> O!LineT]
  BY <1>1, <1>2 DEF O!Only
<1>4. QED
  BY <1>1, <1>3, SeqMade

LEMMA ViewIsText ==
    ASSUME NEW p \in Pages, NEW first \in 1..Rows, NEW last \in 1..Rows, NEW boxed
    PROVE  O!View(p, first, last, boxed) \in Seq(O!LineT)
<1> DEFINE n == IF last + 1 - first < 0 THEN 0 ELSE last + 1 - first
           v == O!View(p, first, last, boxed)
<1>1. Rows \in Nat /\ p.rows \in [1..Rows -> O!Kinds \cup {"blank"}]
  BY PageSize
<1>2. n \in Nat /\ 1..(last + 1 - first) = 1..n
  BY <1>1
<1>3. ASSUME NEW i \in 1..n PROVE first + i - 1 \in 1..Rows /\ i \in 0..Rows
  BY <1>1, <1>3
<1>4. \A i \in 1..n :
         [row |-> first + i - 1, top |-> first, kind |-> p.rows[first + i - 1],
          at |-> IF boxed /\ p.rows[first + i - 1] # "blank" THEN i ELSE 0] \in O!LineT
  <2> SUFFICES ASSUME NEW i \in 1..n
               PROVE  [row |-> first + i - 1, top |-> first, kind |-> p.rows[first + i - 1],
                       at |-> IF boxed /\ p.rows[first + i - 1] # "blank" THEN i ELSE 0] \in O!LineT
    OBVIOUS
  <2>1. first + i - 1 \in 0..Rows /\ i \in 0..Rows /\ 0 \in 0..Rows
    BY <1>1, <1>3
  <2>2. p.rows[first + i - 1] \in O!Kinds \cup {"blank"}
    BY <1>1, <1>3
  <2>3. first \in 1..Rows /\ (first = 1 => i = first + i - 1)
    BY <1>1
  <2>4. QED
    BY <2>1, <2>2, <2>3 DEF O!LineT
<1>5. v = [i \in 1..n |->
             [row |-> first + i - 1, top |-> first, kind |-> p.rows[first + i - 1],
              at |-> IF boxed /\ p.rows[first + i - 1] # "blank" THEN i ELSE 0]]
  BY <1>2 DEF O!View
<1> HIDE DEF n, v
<1>6. v \in [1..n -> O!LineT]
  BY <1>4, <1>5
<1>7. QED
  BY <1>2, <1>6, SeqMade DEF v

-----------------------------------------------------------------------------
(* OCR: readings.                                                            *)

\* What an engine answers: it failed, or the text and the lines it read.
Answer(r) == /\ {"text", "lines"} \subseteq DOMAIN r
             /\ r = O!Failed \/ O!Written(r.text)
             /\ r.text \in Seq(O!LineT) /\ r.lines \in Seq(O!LineT)

LEMMA FailedIsAnswer == Answer(O!Failed) /\ O!Failed.text = <<>>
  BY EmptyText DEF Answer, O!Failed

LEMMA EngineAnswers ==
    ASSUME NEW view \in Seq(O!LineT), NEW confs, NEW e
    PROVE  /\ \A r \in O!QwenExtract(view) : Answer(r)
           /\ \A r \in O!EngineExtract(e, view, confs) : Answer(r)
<1>1. \A t \in O!Readings(view) : t \in Seq(O!LineT)
  BY OnlyIsText DEF O!Readings
<1>2. ASSUME NEW r \in O!QwenExtract(view) PROVE Answer(r)
  <2>1. PICK t \in O!Readings(view), c \in {None, 35} :
           r = IF O!Written(t) THEN [text |-> t, lines |-> <<>>, conf |-> c, by |-> <<"qwen">>]
               ELSE O!Failed
    BY <1>2 DEF O!QwenExtract
  <2>2. QED
    BY <1>1, <2>1, FailedIsAnswer DEF Answer
<1>3. ASSUME NEW r \in O!LocalExtract(view, confs) PROVE Answer(r)
  <2>1. PICK t \in O!Readings(view), c \in confs :
           r = IF O!Written(t) THEN [text |-> t, lines |-> t, conf |-> c, by |-> <<"local">>]
               ELSE O!Failed
    BY <1>3 DEF O!LocalExtract
  <2>2. QED
    BY <1>1, <2>1, FailedIsAnswer DEF Answer
<1>4. QED
  BY <1>2, <1>3 DEF O!EngineExtract

LEMMA HybridAnswers ==
    ASSUME NEW p, NEW f, Answer(p), Answer(f)
    PROVE  Answer(O!HybridExtract(p, f))
<1>1. ASSUME NEW r, Answer(r), r # O!Failed, NEW b
      PROVE  Answer([r EXCEPT !.by = b])
  <2>1. /\ [r EXCEPT !.by = b].text = r.text /\ [r EXCEPT !.by = b].lines = r.lines
        /\ {"text", "lines"} \subseteq DOMAIN [r EXCEPT !.by = b]
    BY <1>1 DEF Answer
  <2>2. QED
    BY <1>1, <2>1 DEF Answer
<1>2. QED
  BY <1>1 DEF O!HybridExtract

LEMMA PagesAnswer ==
    ASSUME NEW c, O!PageAdapter(c) \notin {O!Broken, O!Off},
           NEW view \in Seq(O!LineT), NEW confs, NEW r \in O!Extract(O!PageAdapter(c), view, confs)
    PROVE  Answer(r)
<1> DEFINE a == O!PageAdapter(c)
<1>1. a.kind \in {"one", "hybrid"}
  BY PageAdapterMade DEF Made
<1>2. CASE a.kind = "one"
  <2>1. r \in O!EngineExtract(a.first, view, confs)
    BY <1>2 DEF O!Extract
  <2>2. QED
    BY <2>1, EngineAnswers
<1>3. CASE a.kind = "hybrid"
  <2>1. PICK p \in O!EngineExtract(a.first, view, confs),
             f \in (IF a.second = "none" THEN {O!Failed} ELSE O!EngineExtract(a.second, view, confs)) :
           r = O!HybridExtract(p, f)
    BY <1>3 DEF O!Extract
  <2>2. Answer(p)
    BY EngineAnswers
  <2>3. Answer(f)
    BY EngineAnswers, FailedIsAnswer
  <2>4. QED
    BY <2>1, <2>2, <2>3, HybridAnswers
<1>4. QED
  BY <1>1, <1>2, <1>3

LEMMA StripsAreOnPage ==
    ASSUME NEW k \in Nat
    PROVE  O!StripTop(k) \in 1..Rows /\ O!StripBottom(k) \in 1..Rows
<1>1. \A x \in Int : O!Within(x) \in 1..Rows
  BY PageSize DEF O!Within
<1>2. \A m \in Nat : m \div Strips \in Int
  BY PageSize
<1>3. k * Rows \in Nat /\ (k + 1) * Rows \in Nat
  BY PageSize
<1>4. (k * Rows) \div Strips \in Int /\ ((k + 1) * Rows) \div Strips \in Int
  BY <1>2, <1>3
<1> DEFINE x == (k * Rows) \div Strips + 1 - (IF k = 0 THEN 0 ELSE Overlap)
           y == ((k + 1) * Rows) \div Strips + (IF k = Strips - 1 THEN 0 ELSE Overlap)
<1>5. x \in Int /\ y \in Int
  <2>1. \A q \in Int : q + 1 - (IF k = 0 THEN 0 ELSE Overlap) \in Int
    BY PageSize
  <2>2. \A q \in Int : q + (IF k = Strips - 1 THEN 0 ELSE Overlap) \in Int
    BY PageSize
  <2>3. QED
    BY <1>4, <2>1, <2>2, Zenon
<1>6. O!StripTop(k) = O!Within(x) /\ O!StripBottom(k) = O!Within(y)
  BY DEF O!StripTop, O!StripBottom
<1> HIDE DEF x, y
<1>7. QED
  BY <1>1, <1>5, <1>6

\* A page claims text exactly when it has embedded some.
LEMMA NativeTells ==
    ASSUME NEW p \in Pages
    PROVE  /\ O!Native(p).hasText <=> O!Written(O!Native(p).text)
           /\ O!Native(p).hasText <=> p.native > 0
           /\ O!Native(p).hasText \in BOOLEAN
<1>1. p.native \in Nat
  BY PageSize
<1>2. O!NativeText(p) = [i \in 1..p.native |-> [row |-> 0, top |-> 1, kind |-> "plain", at |-> 0]]
  BY DEF O!NativeText
<1>3. O!Written(O!NativeText(p)) <=> p.native > 0
  <2>1. ASSUME p.native > 0 PROVE O!Written(O!NativeText(p))
    <3>1. 1 \in DOMAIN O!NativeText(p) /\ O!NativeText(p)[1].kind = "plain"
      BY <1>1, <1>2, <2>1
    <3>2. QED
      BY <3>1 DEF O!Written, O!Of, O!Kinds
  <2>2. ASSUME ~(p.native > 0) PROVE ~O!Written(O!NativeText(p))
    <3>1. DOMAIN O!NativeText(p) = {}
      BY <1>1, <1>2, <2>2
    <3>2. QED
      BY <3>1 DEF O!Written, O!Of
  <2>3. QED
    BY <2>1, <2>2
<1>4. O!Native(p).text = O!NativeText(p)
  BY DEF O!Native
<1>5. CASE p.native > 0
  <2>1. O!Native(p).hasText = TRUE
    BY <1>5 DEF O!Native
  <2>2. QED
    BY <1>3, <1>4, <1>5, <2>1
<1>6. CASE ~(p.native > 0)
  <2>1. O!Native(p).hasText = FALSE
    <3>1. (p.native > 0) = FALSE
      BY <1>6
    <3>2. O!Native(p).hasText = (p.native > 0)
      BY DEF O!Native
    <3>3. QED
      BY <3>1, <3>2
  <2>2. QED
    BY <1>3, <1>4, <1>6, <2>1
<1>7. QED
  BY <1>5, <1>6

LEMMA OcrStart == O!Init => O!OcrInv
<1> SUFFICES ASSUME O!Init PROVE O!OcrInv
  OBVIOUS
<1>1. /\ page \in Pages /\ stage = "open" /\ result = O!Failed /\ tiles = O!NoTiles
      /\ out = O!Native(page) /\ sent = {}
  BY DEF O!Init
<1>2. /\ result.text \in Seq(O!LineT) /\ tiles.text \in Seq(O!LineT) /\ tiles.n \in Nat
      /\ result.lines \in Seq(O!LineT) /\ tiles.lines \in Seq(O!LineT)
  BY <1>1, EmptyText DEF O!Failed, O!NoTiles
<1>3. O!PageProgress /\ O!OnlyScrubbedLeaves /\ O!TextOrReason
  BY <1>1 DEF O!PageProgress, O!OnlyScrubbedLeaves, O!TextOrReason
<1>4. QED
  BY <1>1, <1>2, <1>3 DEF O!OcrInv

\* What a step must keep: the inductive invariant, and no text shorter than before.
ReadingKept == O!OcrInv' /\ (result # O!Failed => O!Chars(result'.text) >= O!Chars(result.text))

LEMMA NoShorter ==
    ASSUME O!OcrInv, UNCHANGED result
    PROVE  O!Chars(result'.text) >= O!Chars(result.text)
<1>1. O!Chars(result.text) \in Nat
  BY CharsIsNat DEF O!OcrInv
<1>2. QED
  BY <1>1

LEMMA OpenKeeps ==
    ASSUME O!OcrInv, O!Open
    PROVE  ReadingKept
<1>1. /\ stage = "open" /\ UNCHANGED <<cfg, page, result, tiles, sent>>
      /\ page \in Pages /\ result = O!Failed /\ out = O!Native(page)
      /\ result.text \in Seq(O!LineT) /\ tiles.text \in Seq(O!LineT) /\ tiles.n \in Nat
      /\ result.lines \in Seq(O!LineT) /\ tiles.lines \in Seq(O!LineT)
  BY DEF O!Open, O!OcrInv, O!PageProgress
<1>2. O!OnlyScrubbedLeaves'
  BY <1>1 DEF O!OcrInv, O!OnlyScrubbedLeaves
<1>3. CASE stage' = "raised" /\ UNCHANGED out
  BY <1>1, <1>2, <1>3 DEF ReadingKept, O!OcrInv, O!PageProgress, O!TextOrReason
<1>4. CASE stage' = "full" /\ UNCHANGED out /\ O!PageAdapter(cfg) \notin {O!Broken, O!Off}
  BY <1>1, <1>2, <1>4 DEF ReadingKept, O!OcrInv, O!PageProgress, O!TextOrReason
<1>5. CASE /\ stage' = "done"
           /\ out' = IF page.native = 0 THEN [out EXCEPT !.status = "DISABLED"] ELSE out
  <2>1. page.native \in Nat
    BY <1>1, PageSize
  <2>2. /\ out'.text = O!Native(page).text /\ out'.hasText = O!Native(page).hasText
        /\ page.native = 0 => out'.status = "DISABLED"
    BY <1>1, <1>5 DEF O!Native
  <2>3. O!TextOrReason'
    BY <1>1, <2>1, <2>2, NativeTells DEF O!TextOrReason
  <2>4. O!PageProgress'
    BY <1>1, <1>5 DEF O!PageProgress
  <2>5. QED
    BY <1>1, <1>2, <2>3, <2>4 DEF ReadingKept, O!OcrInv
<1>6. QED
  BY <1>3, <1>4, <1>5 DEF O!Open

\* A raw image is sent only where nothing forbids it.
LEMMA RawIsAllowed ==
    ASSUME O!OnlyScrubbedLeaves, UNCHANGED cfg, sent' = sent \cup O!RawSent(O!PageAdapter(cfg))
    PROVE  O!OnlyScrubbedLeaves'
<1>1. O!EgressAllowed(cfg) /\ O!GetLocalOcrAdapter(cfg) # O!Off => sent' = sent
  BY LocalStaysLocal
<1>2. QED
  BY <1>1 DEF O!OnlyScrubbedLeaves

LEMMA PublishFinishes ==
    ASSUME NEW r, NEW egress, O!Publish(r, egress), O!Written(r.text), r.text \in Seq(O!LineT)
    PROVE  /\ O!PageProgress' /\ O!TextOrReason'
           /\ result' = r
<1>1. stage' = "done" /\ result' = r /\ out'.hasText = TRUE /\ out'.text = r.text
  BY DEF O!Publish
<1>2. QED
  BY <1>1 DEF O!PageProgress, O!TextOrReason

LEMMA FullPassKeeps ==
    ASSUME O!OcrInv, O!FullPass
    PROVE  ReadingKept
<1>1. /\ stage = "full" /\ UNCHANGED <<cfg, page, attempt>> /\ tiles' = O!NoTiles
      /\ page \in Pages /\ result = O!Failed /\ out = O!Native(page)
      /\ O!PageAdapter(cfg) \notin {O!Broken, O!Off}
      /\ sent' = sent \cup O!RawSent(O!PageAdapter(cfg))
  BY DEF O!FullPass, O!OcrInv, O!PageProgress
<1>2. PICK r \in O!Extract(O!PageAdapter(cfg), O!View(page, 1, Rows, cfg.boxes), Confs) :
         /\ result' = r
         /\ IF r = O!Failed THEN O!OcrFailed
            ELSE /\ stage' = IF O!NeedsPageTiling(r, page) THEN "tiles" ELSE "read"
                 /\ UNCHANGED out
  BY DEF O!FullPass
<1>3. O!View(page, 1, Rows, cfg.boxes) \in Seq(O!LineT)
  <2>1. 1 \in 1..Rows /\ Rows \in 1..Rows
    BY PageSize
  <2>2. QED
    BY <1>1, <2>1, ViewIsText
<1>4. Answer(r)
  BY <1>1, <1>3, PagesAnswer
<1>5. O!OnlyScrubbedLeaves'
  BY <1>1, RawIsAllowed DEF O!OcrInv
<1>6. /\ page' \in Pages /\ result'.text \in Seq(O!LineT) /\ result'.lines \in Seq(O!LineT)
      /\ tiles'.text \in Seq(O!LineT) /\ tiles'.lines \in Seq(O!LineT) /\ tiles'.n \in Nat
  BY <1>1, <1>2, <1>4, EmptyText DEF Answer, O!NoTiles
<1>7. CASE r = O!Failed
  <2>1. stage' = "done" /\ out' = [out EXCEPT !.status = "FAILED", !.low = TRUE, !.egress = "none"]
    BY <1>2, <1>7 DEF O!OcrFailed
  <2>2. /\ out'.text = O!Native(page).text /\ out'.hasText = O!Native(page).hasText
        /\ out'.status = "FAILED"
    BY <1>1, <2>1 DEF O!Native
  <2>3. O!TextOrReason'
    BY <1>1, <2>2, NativeTells DEF O!TextOrReason
  <2>4. O!PageProgress'
    BY <2>1 DEF O!PageProgress
  <2>5. QED
    BY <1>1, <1>5, <1>6, <2>3, <2>4 DEF ReadingKept, O!OcrInv
<1>8. CASE r # O!Failed
  <2>1. stage' \in {"tiles", "read"} /\ UNCHANGED out /\ O!Written(result'.text)
    BY <1>2, <1>4, <1>8 DEF Answer
  <2>2. O!PageProgress' /\ O!TextOrReason'
    BY <1>1, <2>1 DEF O!PageProgress, O!TextOrReason
  <2>3. QED
    BY <1>1, <1>5, <1>6, <2>2 DEF ReadingKept, O!OcrInv
<1>9. QED
  BY <1>7, <1>8

LEMMA StitchedIsLonger ==
    ASSUME NEW full, NEW t, full.text \in Seq(O!LineT), t.text \in Seq(O!LineT), O!Written(full.text),
           full.lines \in Seq(O!LineT), t.lines \in Seq(O!LineT)
    PROVE  LET r == O!Stitched(full, t) IN
           /\ r.text \in Seq(O!LineT) /\ O!Written(r.text) /\ r.lines \in Seq(O!LineT)
           /\ O!Chars(r.text) >= O!Chars(full.text)
<1>1. /\ O!Chars(full.text) \in Nat /\ O!Chars(t.text) \in Nat
      /\ O!Chars(t.text) > 0 => O!Written(t.text)
  BY CharsIsNat
<1>2. CASE O!Chars(t.text) <= O!Chars(full.text)
  <2>1. O!Stitched(full, t) = full
    BY <1>2 DEF O!Stitched
  <2>2. QED
    BY <1>1, <2>1
<1>3. CASE ~(O!Chars(t.text) <= O!Chars(full.text))
  <2>1. O!Stitched(full, t).text = t.text /\ O!Stitched(full, t).lines = full.lines \o t.lines
    BY <1>3 DEF O!Stitched
  <2>2. O!Chars(t.text) >= O!Chars(full.text) /\ O!Chars(t.text) > 0
    BY <1>1, <1>3
  <2>3. QED
    BY <1>1, <2>1, <2>2
<1>4. QED
  BY <1>2, <1>3

LEMMA TileKeeps ==
    ASSUME O!OcrInv, O!Tile
    PROVE  ReadingKept
<1>1. /\ stage = "tiles" /\ UNCHANGED <<cfg, page, attempt, out>>
      /\ page \in Pages /\ O!Written(result.text) /\ out = O!Native(page)
      /\ result.text \in Seq(O!LineT) /\ tiles.text \in Seq(O!LineT) /\ tiles.n \in Nat
      /\ result.lines \in Seq(O!LineT) /\ tiles.lines \in Seq(O!LineT)
      /\ O!PageAdapter(cfg) \notin {O!Broken, O!Off}
      /\ sent' = sent \cup O!RawSent(O!PageAdapter(cfg))
  BY DEF O!Tile, O!OcrInv, O!PageProgress
<1> DEFINE view == O!View(page, O!StripTop(tiles.n), O!StripBottom(tiles.n), cfg.boxes)
           Grown(r) == [n |-> tiles.n + 1, text |-> tiles.text \o r.text,
                        confs |-> IF r.conf = None THEN tiles.confs ELSE Append(tiles.confs, r.conf),
                        lines |-> tiles.lines \o r.lines]
<1>2. PICK r \in O!Extract(O!PageAdapter(cfg), view, Confs) :
         IF Grown(r).n < Strips
         THEN tiles' = Grown(r) /\ UNCHANGED <<stage, result>>
         ELSE tiles' = O!NoTiles /\ stage' = "read" /\ result' = O!Stitched(result, Grown(r))
  BY DEF O!Tile
<1>3. view \in Seq(O!LineT)
  BY <1>1, StripsAreOnPage, ViewIsText
<1>4. Answer(r)
  BY <1>1, <1>3, PagesAnswer
<1>5. O!OnlyScrubbedLeaves'
  BY <1>1, RawIsAllowed DEF O!OcrInv
<1>6. Grown(r).text \in Seq(O!LineT) /\ Grown(r).lines \in Seq(O!LineT) /\ Grown(r).n \in Nat
  <2>1. r.text \in Seq(O!LineT) /\ r.lines \in Seq(O!LineT)
    BY <1>4 DEF Answer
  <2>2. tiles.text \o r.text \in Seq(O!LineT) /\ tiles.lines \o r.lines \in Seq(O!LineT)
    BY <1>1, <2>1
  <2>3. tiles.n + 1 \in Nat
    BY <1>1
  <2>4. QED
    BY <2>2, <2>3
<1> HIDE DEF Grown, view
<1>7. CASE tiles' = Grown(r) /\ UNCHANGED <<stage, result>>
  <2>1. O!PageProgress' /\ O!TextOrReason'
    BY <1>1, <1>7 DEF O!PageProgress, O!TextOrReason
  <2>2. QED
    BY <1>1, <1>5, <1>6, <1>7, <2>1, NoShorter DEF ReadingKept, O!OcrInv
<1>8. CASE tiles' = O!NoTiles /\ stage' = "read" /\ result' = O!Stitched(result, Grown(r))
  <2>1. /\ result'.text \in Seq(O!LineT) /\ O!Written(result'.text) /\ result'.lines \in Seq(O!LineT)
        /\ O!Chars(result'.text) >= O!Chars(result.text)
    BY <1>1, <1>6, <1>8, StitchedIsLonger
  <2>2. O!PageProgress' /\ O!TextOrReason'
    BY <1>1, <1>8, <2>1 DEF O!PageProgress, O!TextOrReason
  <2>3. tiles'.text \in Seq(O!LineT) /\ tiles'.lines \in Seq(O!LineT) /\ tiles'.n \in Nat
    BY <1>8, EmptyText DEF O!NoTiles
  <2>4. QED
    BY <1>1, <1>5, <2>1, <2>2, <2>3 DEF ReadingKept, O!OcrInv
<1>9. QED
  BY <1>2, <1>7, <1>8

LEMMA DecideKeeps ==
    ASSUME O!OcrInv, O!Decide
    PROVE  ReadingKept
<1>1. /\ stage = "read" /\ UNCHANGED <<cfg, page, tiles, attempt, sent>>
      /\ page \in Pages /\ O!Written(result.text) /\ out = O!Native(page)
      /\ result.text \in Seq(O!LineT) /\ tiles.text \in Seq(O!LineT) /\ tiles.n \in Nat
      /\ result.lines \in Seq(O!LineT) /\ tiles.lines \in Seq(O!LineT)
  BY DEF O!Decide, O!OcrInv, O!PageProgress
<1>2. O!OnlyScrubbedLeaves'
  BY <1>1 DEF O!OcrInv, O!OnlyScrubbedLeaves
<1>3. \/ \E egress : O!Publish(result, egress)
      \/ stage' = "raised" /\ UNCHANGED <<out, result>>
      \/ /\ stage' = "cloud" /\ UNCHANGED <<out, result>>
         /\ ~O!Blocked(result.text) /\ O!Clean(result.lines)
  <2>1. CASE ~O!EgressAllowed(cfg) \/ ~O!ShouldEscalate(result, page)
    BY <2>1 DEF O!Decide
  <2>2. CASE O!EgressAllowed(cfg) /\ O!ShouldEscalate(result, page)
    <3>1. ~O!Blocked(result.text)
      BY <2>2 DEF O!ShouldEscalate
    <3>2. CASE O!GetCloudOcrAdapter(cfg) = O!Broken
      BY <2>2, <3>2 DEF O!Decide, O!Off, O!Broken
    <3>3. CASE O!GetCloudOcrAdapter(cfg) = O!Off
      BY <2>2, <3>3 DEF O!Decide, O!Off, O!Broken
    <3>4. CASE O!GetCloudOcrAdapter(cfg) \notin {O!Broken, O!Off} /\ ~O!Clean(result.lines)
      BY <2>2, <3>4 DEF O!Decide
    <3>5. CASE O!GetCloudOcrAdapter(cfg) \notin {O!Broken, O!Off} /\ O!Clean(result.lines)
      BY <2>2, <3>1, <3>5 DEF O!Decide
    <3>6. QED
      BY <3>2, <3>3, <3>4, <3>5
  <2>3. QED
    BY <2>1, <2>2
<1>4. CASE \E egress : O!Publish(result, egress)
  <2>1. O!PageProgress' /\ O!TextOrReason' /\ UNCHANGED result
    BY <1>1, <1>4, PublishFinishes
  <2>2. QED
    BY <1>1, <1>2, <2>1, NoShorter DEF ReadingKept, O!OcrInv
<1>5. CASE stage' = "raised" /\ UNCHANGED <<out, result>>
  <2>1. O!PageProgress' /\ O!TextOrReason'
    BY <1>5 DEF O!PageProgress, O!TextOrReason
  <2>2. QED
    BY <1>1, <1>2, <1>5, <2>1, NoShorter DEF ReadingKept, O!OcrInv
<1>6. CASE /\ stage' = "cloud" /\ UNCHANGED <<out, result>>
           /\ ~O!Blocked(result.text) /\ O!Clean(result.lines)
  <2>1. O!PageProgress' /\ O!TextOrReason'
    BY <1>1, <1>6 DEF O!PageProgress, O!TextOrReason
  <2>2. QED
    BY <1>1, <1>2, <1>6, <2>1, NoShorter DEF ReadingKept, O!OcrInv
<1>7. QED
  BY <1>3, <1>4, <1>5, <1>6

\* What leaves for the cloud shows no line to be masked that was read from the top of the page on.
LEMMA RedactedIsScrubbed ==
    ASSUME O!OcrInv, O!Cloud
    PROVE  O!OnlyScrubbedLeaves'
<1> DEFINE new == [redacted |-> TRUE, local |-> result, rows |-> 1..Rows \ O!Masked(result.lines)]
<1>1. /\ ~O!Blocked(result.text) /\ O!Clean(result.lines) /\ result.lines \in Seq(O!LineT)
      /\ O!OnlyScrubbedLeaves /\ UNCHANGED cfg /\ sent' = sent \cup {new}
  BY DEF O!Cloud, O!OcrInv, O!PageProgress
<1>2. \A i \in DOMAIN result.lines :
         O!LineNeedsMask(result.lines[i]) =>
            /\ result.lines[i].at # 0
            /\ result.lines[i].top = 1 => result.lines[i].row \in O!Masked(result.lines)
  <2> SUFFICES ASSUME NEW i \in DOMAIN result.lines, O!LineNeedsMask(result.lines[i])
               PROVE  /\ result.lines[i].at # 0
                      /\ result.lines[i].top = 1 => result.lines[i].row \in O!Masked(result.lines)
    OBVIOUS
  <2>1. result.lines[i].at # 0 /\ result.lines[i].at \in O!Masked(result.lines)
    BY <1>1 DEF O!Clean, O!Masked
  <2>2. result.lines[i] \in O!LineT
    BY <1>1, SeqElement
  <2>3. QED
    BY <2>1, <2>2 DEF O!LineT
<1>3. new.redacted /\ new.local = result /\ new.rows = 1..Rows \ O!Masked(result.lines)
  OBVIOUS
<1>4. /\ new.redacted /\ ~O!Blocked(new.local.text)
      /\ \A i \in DOMAIN new.local.lines :
            O!LineNeedsMask(new.local.lines[i]) =>
               /\ new.local.lines[i].at # 0
               /\ new.local.lines[i].top = 1 => new.local.lines[i].row \notin new.rows
  BY <1>1, <1>2, <1>3
<1> HIDE DEF new
<1>5. QED
  BY <1>1, <1>4 DEF O!OnlyScrubbedLeaves

LEMMA CloudKeeps ==
    ASSUME O!OcrInv, O!Cloud
    PROVE  ReadingKept
<1>1. /\ stage = "cloud" /\ UNCHANGED <<cfg, page, tiles>>
      /\ page \in Pages /\ O!Written(result.text) /\ out = O!Native(page)
      /\ result.text \in Seq(O!LineT) /\ tiles.text \in Seq(O!LineT) /\ tiles.n \in Nat
      /\ result.lines \in Seq(O!LineT) /\ tiles.lines \in Seq(O!LineT)
      /\ ~O!Blocked(result.text) /\ O!Clean(result.lines)
  BY DEF O!Cloud, O!OcrInv, O!PageProgress
<1>2. O!OnlyScrubbedLeaves'
  BY RedactedIsScrubbed
<1> DEFINE view == O!Only(O!View(page, 1, Rows, FALSE), 1..Rows \ O!Masked(result.lines))
<1>3. view \in Seq(O!LineT)
  <2>1. 1 \in 1..Rows /\ Rows \in 1..Rows
    BY PageSize
  <2>2. QED
    BY <1>1, <2>1, ViewIsText, OnlyIsText
<1>4. \/ UNCHANGED <<stage, out, result>>
      \/ \E egress : O!Publish(result, egress)
      \/ \E r \in O!QwenExtract(view) : \E conf, by, egress :
            /\ O!Chars(r.text) > O!Chars(result.text)
            /\ O!Publish([text |-> O!MergeOcrTexts(result.text, r.text), lines |-> result.lines,
                          conf |-> conf, by |-> by], egress)
  BY DEF O!Cloud
<1>5. CASE UNCHANGED <<stage, out, result>>
  <2>1. O!PageProgress' /\ O!TextOrReason'
    BY <1>1, <1>5 DEF O!PageProgress, O!TextOrReason
  <2>2. QED
    BY <1>1, <1>2, <1>5, <2>1, NoShorter DEF ReadingKept, O!OcrInv
<1>6. CASE \E egress : O!Publish(result, egress)
  <2>1. O!PageProgress' /\ O!TextOrReason' /\ UNCHANGED result
    BY <1>1, <1>6, PublishFinishes
  <2>2. QED
    BY <1>1, <1>2, <2>1, NoShorter DEF ReadingKept, O!OcrInv
<1>7. ASSUME NEW r \in O!QwenExtract(view), NEW conf, NEW by, NEW egress,
             O!Chars(r.text) > O!Chars(result.text),
             O!Publish([text |-> O!MergeOcrTexts(result.text, r.text), lines |-> result.lines,
                        conf |-> conf, by |-> by], egress)
      PROVE  ReadingKept
  <2> DEFINE new == [text |-> O!MergeOcrTexts(result.text, r.text), lines |-> result.lines,
                     conf |-> conf, by |-> by]
  <2>1. r.text \in Seq(O!LineT)
    BY <1>3, EngineAnswers DEF Answer
  <2>2. /\ O!Chars(r.text) \in Nat /\ O!Chars(result.text) \in Nat
        /\ O!Chars(r.text) > 0 => O!Written(r.text)
    BY <1>1, <2>1, CharsIsNat
  <2>3. O!Written(r.text) /\ O!Chars(r.text) >= O!Chars(result.text)
    BY <1>7, <2>2
  <2>4. new.text \in {result.text, r.text}
    BY DEF O!MergeOcrTexts
  <2>5. O!Publish(new, egress)
    BY <1>7
  <2>6. new.lines = result.lines
    OBVIOUS
  <2> HIDE DEF new
  <2>7. /\ new.text \in Seq(O!LineT) /\ O!Written(new.text) /\ new.lines \in Seq(O!LineT)
        /\ O!Chars(new.text) >= O!Chars(result.text)
    BY <1>1, <2>1, <2>2, <2>3, <2>4, <2>6
  <2>8. O!PageProgress' /\ O!TextOrReason' /\ result' = new
    BY <2>5, <2>7, PublishFinishes
  <2>9. QED
    BY <1>1, <1>2, <2>7, <2>8 DEF ReadingKept, O!OcrInv
<1>8. QED
  BY <1>4, <1>5, <1>6, <1>7

LEMMA OcrStep == O!OcrInv /\ [O!Next]_(O!vars) => ReadingKept
<1> SUFFICES ASSUME O!OcrInv, [O!Next]_(O!vars) PROVE ReadingKept
  OBVIOUS
<1>1. CASE UNCHANGED O!vars
  <2>1. UNCHANGED <<cfg, page, stage, result, tiles, attempt, out, sent>>
    BY <1>1 DEF O!vars
  <2>2. O!OcrInv'
    BY <2>1 DEF O!OcrInv, O!PageProgress, O!OnlyScrubbedLeaves, O!TextOrReason
  <2>3. QED
    BY <2>1, <2>2, NoShorter DEF ReadingKept
<1>2. QED
  BY <1>1, OpenKeeps, FullPassKeeps, TileKeeps, DecideKeeps, CloudKeeps DEF O!Next

LEMMA OcrComposed == Spec => O!Spec
<1>1. Init => O!Init
  BY DEF Init
<1>2. [Next]_vars => [O!Next]_(O!vars)
  BY DEF Next, vars, ovars, O!vars
<1>3. QED
  BY <1>1, <1>2, PTL DEF Spec, O!Spec

\* Along every way a page can take through engines, strips, the privacy gate and the cloud
\* (extract_pdf, get_local_ocr_adapter, redact_png_bytes, _maybe_escalate_cloud): only redacted
\* images leave, of pages that are not barred, with every line to be masked boxed and with the row
\* of every such line read from the whole page or its first strip blacked out; a finished page has
\* text or a reason, and no pass loses what was read. Of the lines of lower strips, whose boxes the
\* mask puts elsewhere, it claims nothing more.
THEOREM ReadingIsSafe == Spec => ReadSafely
<1>1. O!OcrInv => O!OnlyScrubbedLeaves /\ O!TextOrReason
  BY DEF O!OcrInv
<1>2. O!OcrInv /\ [O!Next]_(O!vars) =>
         /\ O!OcrInv'
         /\ [result # O!Failed => O!Chars(result'.text) >= O!Chars(result.text)]_(O!vars)
  BY OcrStep DEF ReadingKept
<1>3. QED
  BY <1>1, <1>2, OcrComposed, OcrStart, PTL
  DEF O!Spec, ReadSafely, O!ReadSafely, O!NeverShorter
=============================================================================
