------------------------------ MODULE Reports ------------------------------
(* A run under review and what is shown of it: review of                     *)
(* src/app/services/run_service.py, the projections of                       *)
(* src/app/presenters.py, the PDF of src/app/reporting.py, the bulk export   *)
(* of src/app/services/report_service.py, and the engineering gates of       *)
(* src/app/quality_gates.py.                                                 *)
EXTENDS Integers, Sequences, FiniteSets

CONSTANTS
    Requirements,  \* what a scan may find: sequences of [category, cited, lines]
    Summaries,     \* heights of the summary of a PDF: lines of 14 points
    Library,       \* other runs a bulk export may name: [workspace, stem, short] by run id
    Wanted,        \* sequences of run ids a bulk export may name
    Evaluations    \* states of the evaluation reports

CATEGORIES == {"FATAL", "QUALIFICATION", "CREDENTIAL", "SCORING"}
STATUSES   == {"PASS", "FAIL", "UNKNOWN", "NEEDS_REVIEW"}
DECISIONS  == STATUSES \cup {"CONFIRM", "REJECT", "REQUEST_EVIDENCE"}
Metrics    == {"line_cer", "key_field_f1", "teds"}

VARIABLES
    reqs,      \* the requirements with their status
    stored,    \* the count columns of the row
    reports,   \* what the evaluation reports say of each metric: "absent", "good", "bad"
    shown      \* the last thing shown: the run, a PDF (what is drawn of it: boxes of [page, top,
               \* bottom]), an archive (its entries [id, name]), or engineering_gate

vars == <<reqs, stored, reports, shown>>


-----------------------------------------------------------------------------
(* Counts: written by save_run, computed by public_summary and by the PDF. *)

Open(r)  == r.status \in {"UNKNOWN", "NEEDS_REVIEW"}
Grave(r) == r.category \in {"FATAL", "QUALIFICATION"}
Those(rs, Test(_)) == Cardinality({i \in DOMAIN rs : Test(rs[i])})

RequirementCounts(rs) ==
    [requirements |-> Len(rs), unresolved |-> Those(rs, Open),
     blockers |-> Those(rs, LAMBDA r : Grave(r) /\ (r.status = "FAIL" \/ Open(r))),
     fatal |-> Those(rs, LAMBDA r : r.category = "FATAL")]

\* A listing has no requirements at hand and shows the columns.
PublicSummary(rs, columns) == IF rs # <<>> THEN RequirementCounts(rs) ELSE columns

PdfBlockers(rs) == Those(rs, LAMBDA r : Grave(r) /\ r.status # "PASS")

-----------------------------------------------------------------------------
(* Review *)

ResolveReviewStatusMutant(decision, newStatus, old) ==
    IF decision \in STATUSES THEN decision
    ELSE IF decision = "CONFIRM" THEN IF newStatus # "none" THEN newStatus ELSE old
    ELSE decision
ResolveReviewStatus(decision, newStatus, old) ==
    IF decision \in STATUSES THEN decision
    ELSE IF decision = "CONFIRM"
         THEN IF newStatus # "none" THEN newStatus
              ELSE IF old \in {"PASS", "FAIL"} THEN old ELSE "NEEDS_REVIEW"
    ELSE IF decision = "REJECT" THEN "NEEDS_REVIEW" ELSE "UNKNOWN"

\* has_complete_citation is settled by the scan: cited.
Review(i, decision, newStatus) ==
    LET status == ResolveReviewStatus(decision, newStatus, reqs[i].status) IN
    /\ status = "PASS" => reqs[i].cited       \* otherwise 422
    /\ reqs' = [reqs EXCEPT ![i].status = status]
    /\ stored' = RequirementCounts(reqs')     \* save_run; RunRecords has its conditions
    /\ shown' = [what |-> "run", value |-> i]
    /\ UNCHANGED reports

-----------------------------------------------------------------------------
(* The PDF: one box per requirement, in points from the top of the page. *)

PAGE_HEIGHT == 842

BlockHeight(lines) == 18 + lines * 12

BreaksMutant(y, height) == y > PAGE_HEIGHT - 48
Breaks(y, height) == y + height > PAGE_HEIGHT - 48

\* A report is made from a copy of the run and shares nothing with other requests: nothing is
\* lost by letting none in while it is made.
Idle ==
    /\ shown.what = "pdf" => Len(shown.boxes) = Len(shown.run)
    /\ shown.what = "zip" => shown.done = Len(shown.ids) /\ shown.entries # <<>>

BuildPdfReport ==
    /\ Idle
    /\ \E summary \in Summaries :
          shown' = [what |-> "pdf", run |-> reqs, page |-> 1, y |-> 82 + summary * 14 + 8,
                    boxes |-> <<>>]
    /\ UNCHANGED <<reqs, stored, reports>>

\* One turn of the loop over the requirements.
DrawBlock ==
    /\ shown.what = "pdf" /\ Len(shown.boxes) < Len(shown.run)
    /\ LET height == BlockHeight(shown.run[Len(shown.boxes) + 1].lines)
           breaks == Breaks(shown.y, height)
           page   == IF breaks THEN shown.page + 1 ELSE shown.page
           y      == IF breaks THEN 76 ELSE shown.y
       IN  shown' = [shown EXCEPT !.page = page, !.y = y + height + 7,
                        !.boxes = Append(@, [page |-> page, top |-> y - 4, bottom |-> y + height - 4])]
    /\ UNCHANGED <<reqs, stored, reports>>

-----------------------------------------------------------------------------
(* The bulk export *)

BulkExport ==
    /\ Idle
    /\ \E ids \in Wanted : shown' = [what |-> "zip", ids |-> ids, done |-> 0, entries |-> <<>>]
    /\ UNCHANGED <<reqs, stored, reports>>

\* The suffix loop: 1 stands for the name without one.
FreshNumber(run, used) ==
    CHOOSE n \in 1..(Cardinality(used) + 1) :
        /\ <<run.stem, run.short, n>> \notin used
        /\ \A m \in 1..(n - 1) : <<run.stem, run.short, m>> \in used

Exported(id) == id \in DOMAIN Library /\ Library[id].workspace = "ours"

Names(entries) == {entries[i].name : i \in DOMAIN entries}

\* One turn of the loop over dict.fromkeys(run_ids): an id that was met before, that of no run
\* and that of another workspace's run are passed over.
AddReport ==
    /\ shown.what = "zip" /\ shown.done < Len(shown.ids)
    /\ LET id  == shown.ids[shown.done + 1]
           run == Library[id]
       IN  shown' = [shown EXCEPT !.done = @ + 1,
               !.entries = IF ~Exported(id) \/ \E m \in 1..shown.done : shown.ids[m] = id THEN @
                           ELSE Append(@, [id |-> id,
                                   name |-> <<run.stem, run.short, FreshNumber(run, Names(@))>>])]
    /\ UNCHANGED <<reqs, stored, reports>>

\* 404 when no run could be exported.
NothingExported ==
    /\ shown.what = "zip" /\ shown.done = Len(shown.ids) /\ shown.entries = <<>>
    /\ shown' = [what |-> "404"]
    /\ UNCHANGED <<reqs, stored, reports>>

-----------------------------------------------------------------------------
(* The gates *)

Unevaluated == {m \in Metrics : reports[m] = "absent"}
Failures    == {m \in Metrics : reports[m] = "bad"}

Snapshot ==
    /\ shown' = [what |-> "gate", value |-> IF Failures = {} /\ Unevaluated = {}
                                            THEN "GATE_PASS" ELSE "GATE_FAIL"]
    /\ UNCHANGED <<reqs, stored, reports>>

-----------------------------------------------------------------------------

\* A scan leaves everything open: what it has matched is cited and to be reviewed, what it looked
\* for and did not find is unknown, and what it does not look for is to be reviewed.
Init ==
    /\ \E rs \in Requirements : \E status \in [DOMAIN rs -> {"UNKNOWN", "NEEDS_REVIEW"}] :
          /\ \A i \in DOMAIN rs : rs[i].cited => status[i] = "NEEDS_REVIEW"
          /\ reqs = [i \in DOMAIN rs |-> [category |-> rs[i].category, cited |-> rs[i].cited,
                                          lines |-> rs[i].lines, status |-> status[i]]]
    /\ stored = RequirementCounts(reqs)
    /\ reports \in Evaluations
    /\ shown = [what |-> "run", value |-> 0]

Next ==
    \/ /\ Idle
       /\ \E i \in DOMAIN reqs, decision \in DECISIONS, new \in STATUSES \cup {"none"} :
             Review(i, decision, new)
    \/ BuildPdfReport \/ DrawBlock \/ BulkExport \/ AddReport \/ NothingExported
    \/ Idle /\ Snapshot

Spec == Init /\ [][Next]_vars

-----------------------------------------------------------------------------

Item   == [category : CATEGORIES, cited : BOOLEAN, lines : Nat, status : STATUSES]
Verdicts == {"absent", "good", "bad"}
Pdf    == [what : {"pdf"}, run : Seq(Item), page : Nat, y : Nat,
           boxes : Seq([page : Nat, top : Int, bottom : Int])]
Name   == {Library[id].stem : id \in DOMAIN Library} \X {Library[id].short : id \in DOMAIN Library} \X Nat
Zip    == [what : {"zip"}, ids : Seq(STRING), done : Nat, entries : Seq([id : STRING, name : Name])]

\* What is assumed of the inputs: that they have these shapes.
ReportsFit ==
    /\ Requirements \subseteq Seq([category : CATEGORIES, cited : BOOLEAN, lines : Nat])
    /\ Summaries \subseteq Nat
    /\ Wanted \subseteq Seq(STRING)
    /\ Evaluations \subseteq [Metrics -> Verdicts]

TypeOK ==
    /\ reqs \in Seq(Item)
    /\ reports \in [Metrics -> Verdicts]
    /\ shown.what \in {"run", "pdf", "zip", "gate", "404"}
    /\ shown.what = "pdf" => shown \in Pdf /\ Len(shown.boxes) <= Len(shown.run)
    /\ shown.what = "zip" => shown \in Zip /\ shown.done <= Len(shown.ids)

\* After any series of reviews the list, the page of a run and its PDF show the same numbers,
\* although each counts by a rule of its own.
CountsAgree ==
    /\ PublicSummary(reqs, stored) = stored
    /\ PdfBlockers(reqs) = stored.blockers

\* A requirement passes only with a citation on both sides, by whichever decision a reviewer
\* came to it.
PassIsCited == \A i \in DOMAIN reqs : reqs[i].status = "PASS" => reqs[i].cited

FitsPage(r) == 76 + BlockHeight(r.lines) <= PAGE_HEIGHT - 48

\* No requirement of a report is cut off or printed over another, over the heading or over
\* the footer, as long as it is not longer than a page.
BlocksFit ==
    shown.what = "pdf" /\ (\A i \in DOMAIN shown.run : FitsPage(shown.run[i])) =>
        \A i \in DOMAIN shown.boxes :
            LET box == shown.boxes[i] IN
            /\ box.top > 56 /\ box.bottom < PAGE_HEIGHT - 24 - 8
            /\ \A k \in 1..(i - 1) :
                  \/ shown.boxes[k].page < box.page
                  \/ shown.boxes[k].page = box.page /\ shown.boxes[k].bottom < box.top

\* An archive has one entry for every run asked for that may be exported, under a name of
\* its own, however often a run was asked for and whatever the names have in common.
ArchiveWhole ==
    shown.what = "zip" =>
        /\ \A i, k \in DOMAIN shown.entries : i # k =>
              /\ shown.entries[i].name # shown.entries[k].name
              /\ shown.entries[i].id # shown.entries[k].id
        /\ {shown.entries[i].id : i \in DOMAIN shown.entries}
              = {id \in {shown.ids[m] : m \in 1..shown.done} : Exported(id)}

\* A gate is passed only on the evidence of all three reports.
GateNeedsAll ==
    shown.what = "gate" =>
        (shown.value = "GATE_PASS") = (\A m \in Metrics : reports[m] = "good")

\* A review leaves the three views of a run in agreement and passes nothing uncited.
ReviewStands == CountsAgree /\ PassIsCited

\* What is exported is complete and readable, and a gate is passed on full evidence only.
ExportsStand == BlocksFit /\ ArchiveWhole /\ GateNeedsAll

-----------------------------------------------------------------------------
(* The inductive invariant *)

\* The next box goes below every box of the page.
RoomBelow ==
    shown.what = "pdf" =>
        /\ shown.y >= 76
        /\ \A k \in DOMAIN shown.boxes :
              \/ shown.boxes[k].page < shown.page
              \/ shown.boxes[k].page = shown.page /\ shown.boxes[k].bottom < shown.y - 4

ReportsInv ==
    /\ TypeOK
    /\ stored = RequirementCounts(reqs)
    /\ PassIsCited
    /\ RoomBelow /\ BlocksFit
    /\ ArchiveWhole
    /\ GateNeedsAll

=============================================================================
