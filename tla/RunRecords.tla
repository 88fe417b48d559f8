----------------------------- MODULE RunRecords -----------------------------
(***************************************************************************)
(* The record of a scan (a row of the runs table and its upload directory) *)
(* under the handlers that read it, change the copy and write it back.     *)
(* Reviews and decisions are written by compare-and-swap on the revision;  *)
(* metadata, archiving and the rescan link write the whole copy back       *)
(* unconditionally (db.save_run without expected_revision).                *)
(*                                                                         *)
(* A request is one HTTP call.  Its database transactions are its steps;   *)
(* a request that fails between two of them is one that takes no more.     *)
(***************************************************************************)
EXTENDS Naturals

CONSTANTS Runs,        \* run ids
          Requests,    \* HTTP requests, each of which is made at most once
          None,        \* no request, no run
          Production   \* config.ENVIRONMENT = "production"

ASSUME RecordsAssumption == None \notin Requests \cup Runs /\ Production \in BOOLEAN

VARIABLES
    row,       \* the runs table
    born,      \* run ids ever published
    files,     \* runs whose upload directory is on disk
    step,      \* request -> where its handler is
    op,        \* request -> what it asks for
    run,       \* request -> the run it works on
    view,      \* request -> the record its user was looking at
    snap,      \* request -> the copy its handler loaded
    todo,      \* purge request -> candidates still to delete
    audited,   \* requests with an audit event
    accepted,  \* history: reviews and decisions that were answered 200
    latest,    \* history: run -> the last accepted decision
    stale      \* history: runs an unconditional save took back to an old copy

vars == <<row, born, files, step, op, run, view, snap, todo, audited,
          accepted, latest, stale>>

reqVars  == <<step, op, run, view, snap, todo>>
histVars == <<accepted, latest, stale>>

-----------------------------------------------------------------------------

CasOps    == {"review", "decide"}
OverOps   == {"metadata", "archive", "restore", "rescan"}
DeleteOps == {"delete", "purge"}
Steps     == {"idle", "viewed", "published", "listed", "loaded", "deleted",
              "saved", "done"}

\* A row; revision 0 stands for no row.
Record == [rev : Nat, reviews : SUBSET Requests, decision : Requests \cup {None},
           meta : Requests \cup {None}, archived : BOOLEAN, parent : BOOLEAN]

NoRun == [rev |-> 0, reviews |-> {}, decision |-> None, meta |-> None,
          archived |-> FALSE, parent |-> FALSE]

NewRun == [NoRun EXCEPT !.rev = 1]

Live(r) == row[r].rev # 0

\* What reviewers and deciders rely on.
Core(rec) == <<rec.rev, rec.reviews, rec.decision>>

TypeOK ==
    /\ row \in [Runs -> Record]
    /\ born \subseteq Runs /\ files \subseteq Runs
    /\ step \in [Requests -> Steps]
    /\ op \in [Requests -> CasOps \cup OverOps \cup DeleteOps \cup {"none"}]
    /\ run \in [Requests -> Runs \cup {None}]
    /\ view \in [Requests -> Record]
    /\ snap \in [Requests -> Record]
    /\ todo \in [Requests -> SUBSET Runs]
    /\ audited \subseteq Requests /\ accepted \subseteq Requests
    /\ latest \in [Runs -> Requests \cup {None}]
    /\ stale \subseteq Runs

Init ==
    /\ row = [r \in Runs |-> NoRun]
    /\ born = {} /\ files = {}
    /\ step = [q \in Requests |-> "idle"]
    /\ op = [q \in Requests |-> "none"]
    /\ run = [q \in Requests |-> None]
    /\ view = [q \in Requests |-> NoRun]
    /\ snap = [q \in Requests |-> NoRun]
    /\ todo = [q \in Requests |-> {}]
    /\ audited = {} /\ accepted = {} /\ stale = {}
    /\ latest = [r \in Runs |-> None]

Goto(q, s) == step' = [step EXCEPT ![q] = s]

-----------------------------------------------------------------------------

\* create_run commits a new run; the insert has no revision and gets 1.
Insert(r) ==
    /\ r \notin born
    /\ row' = [row EXCEPT ![r] = NewRun]
    /\ born' = born \cup {r} /\ files' = files \cup {r}

Publish(r) ==
    /\ Insert(r)
    /\ UNCHANGED <<reqVars, audited, histVars>>

\* POST /rescan: create_run, then the handler goes on to load the child it
\* has just published.  Production refuses it.
RescanPublish(q, r) ==
    /\ ~Production
    /\ step[q] = "idle"
    /\ Insert(r)
    /\ Goto(q, "published")
    /\ op' = [op EXCEPT ![q] = "rescan"]
    /\ run' = [run EXCEPT ![q] = r]
    /\ UNCHANGED <<view, snap, todo, audited, histVars>>

\* GET /api/runs/{run_id}: the user has the record on the screen, and the
\* revision that the next submission will carry.
View(q, r) ==
    /\ step[q] = "idle" /\ Live(r)
    /\ Goto(q, "viewed")
    /\ run' = [run EXCEPT ![q] = r]
    /\ view' = [view EXCEPT ![q] = row[r]]
    /\ UNCHANGED <<row, born, files, op, snap, todo, audited, histVars>>

\* require_scoped at the start of a handler.  A client may leave the revision
\* out, except for a decision in production.
Load(q, r, o) ==
    /\ Live(r)
    /\ \/ step[q] = "viewed" /\ run[q] = r /\ o \in CasOps
       \/ step[q] = "idle" /\ o \in (CasOps \cup OverOps \cup {"delete"}) \ {"rescan"}
                           /\ ~(o = "decide" /\ Production)
       \/ step[q] = "published" /\ run[q] = r /\ o = "rescan"
    /\ Goto(q, "loaded")
    /\ op' = [op EXCEPT ![q] = o]
    /\ run' = [run EXCEPT ![q] = r]
    /\ snap' = [snap EXCEPT ![q] = row[r]]
    /\ UNCHANGED <<row, born, files, view, todo, audited, histVars>>

\* The handler refuses what it loaded: unknown requirement, PASS without
\* citations, unknown unresolved ids.
Refuse(q) ==
    /\ step[q] = "loaded" /\ op[q] \in CasOps
    /\ Goto(q, "done")
    /\ UNCHANGED <<row, born, files, op, run, view, snap, todo, audited, histVars>>

\* Mutant: the revision of the request is ignored.
ExpectedMutant(q) == snap[q].rev

\* payload.revision if there is one, else the revision of the loaded copy.
Expected(q) == IF view[q].rev # 0 THEN view[q].rev ELSE snap[q].rev

\* Mutant: the revision is not advanced.
AmendedMutant(q) ==
    IF op[q] = "review"
    THEN [snap[q] EXCEPT !.rev = Expected(q), !.reviews = @ \cup {q}]
    ELSE [snap[q] EXCEPT !.rev = Expected(q), !.decision = q]

\* The copy with the review or the decision in it and the next revision.
Amended(q) ==
    IF op[q] = "review"
    THEN [snap[q] EXCEPT !.rev = Expected(q) + 1, !.reviews = @ \cup {q}]
    ELSE [snap[q] EXCEPT !.rev = Expected(q) + 1, !.decision = q]

\* Mutant: UPDATE without the revision in its WHERE clause.
SaveReviewedMutant(q) ==
    /\ step[q] = "loaded" /\ op[q] \in CasOps
    /\ Live(run[q])
    /\ row' = [row EXCEPT ![run[q]] = Amended(q)]
    /\ accepted' = accepted \cup {q}
    /\ latest' = IF op[q] = "decide" THEN [latest EXCEPT ![run[q]] = q] ELSE latest
    /\ Goto(q, "saved")
    /\ UNCHANGED <<born, files, op, run, view, snap, todo, audited, stale>>

\* save_run with expected_revision: one conditional UPDATE.
SaveReviewed(q) ==
    /\ step[q] = "loaded" /\ op[q] \in CasOps
    /\ Live(run[q]) /\ row[run[q]].rev = Expected(q)
    /\ row' = [row EXCEPT ![run[q]] = Amended(q)]
    /\ accepted' = accepted \cup {q}
    /\ latest' = IF op[q] = "decide" THEN [latest EXCEPT ![run[q]] = q] ELSE latest
    /\ Goto(q, "saved")
    /\ UNCHANGED <<born, files, op, run, view, snap, todo, audited, stale>>

\* Mutant: a conflict is recorded as if it had been saved.
ConflictMutant(q) ==
    /\ step[q] = "loaded" /\ op[q] \in CasOps
    /\ row[run[q]].rev # Expected(q)
    /\ Goto(q, "saved")
    /\ UNCHANGED <<row, born, files, op, run, view, snap, todo, audited, histVars>>

\* No row matched: 409.
Conflict(q) ==
    /\ step[q] = "loaded" /\ op[q] \in CasOps
    /\ row[run[q]].rev # Expected(q)
    /\ Goto(q, "done")
    /\ UNCHANGED <<row, born, files, op, run, view, snap, todo, audited, histVars>>

\* update_metadata, bulk_manage (ARCHIVE, RESTORE) and rescan_run on the copy.
Edited(q) ==
    CASE op[q] = "metadata" -> [snap[q] EXCEPT !.meta = q]
      [] op[q] = "archive"  -> [snap[q] EXCEPT !.archived = TRUE]
      [] op[q] = "restore"  -> [snap[q] EXCEPT !.archived = FALSE]
      [] OTHER              -> [snap[q] EXCEPT !.parent = TRUE]

\* save_run without expected_revision: INSERT ... ON CONFLICT DO UPDATE of
\* every column, the revision of the copy included.
SaveOver(q) ==
    LET r == run[q]
    IN  /\ step[q] = "loaded" /\ op[q] \in OverOps
        /\ row' = [row EXCEPT ![r] = Edited(q)]
        /\ stale' = IF Core(snap[q]) = Core(row[r]) THEN stale ELSE stale \cup {r}
        /\ Goto(q, "saved")
        /\ UNCHANGED <<born, files, op, run, view, snap, todo, audited, accepted, latest>>

\* run_service.delete and bulk DELETE: the row, whether or not it is still
\* there.
DeleteRow(q) ==
    /\ step[q] = "loaded" /\ op[q] = "delete"
    /\ row' = [row EXCEPT ![run[q]] = NoRun]
    /\ Goto(q, "deleted")
    /\ UNCHANGED <<born, files, op, run, view, snap, todo, audited, histVars>>

\* remove_tree; a purge then goes on with its next candidate.
RemoveFiles(q) ==
    /\ step[q] = "deleted"
    /\ files' = files \ {run[q]}
    /\ Goto(q, IF op[q] = "purge" THEN "listed" ELSE "saved")
    /\ UNCHANGED <<row, born, op, run, view, snap, todo, audited, histVars>>

\* retention_candidates: some of the archived runs are past the cutoff.
PurgeList(q, candidates) ==
    /\ step[q] = "idle"
    /\ \A r \in candidates : Live(r) /\ row[r].archived
    /\ Goto(q, "listed")
    /\ op' = [op EXCEPT ![q] = "purge"]
    /\ todo' = [todo EXCEPT ![q] = candidates]
    /\ UNCHANGED <<row, born, files, run, view, snap, audited, histVars>>

\* require_scoped on the next candidate; it raises 404, and ends the purge,
\* when somebody else has deleted the run.
PurgeLoad(q, r) ==
    /\ step[q] = "listed" /\ r \in todo[q]
    /\ todo' = [todo EXCEPT ![q] = @ \ {r}]
    /\ run' = [run EXCEPT ![q] = r]
    /\ snap' = [snap EXCEPT ![q] = row[r]]
    /\ Goto(q, IF Live(r) THEN "loaded" ELSE "done")
    /\ UNCHANGED <<row, born, files, op, view, audited, histVars>>

\* The directory is removed only if the row was still there.
PurgeRow(q) ==
    /\ step[q] = "loaded" /\ op[q] = "purge"
    /\ row' = [row EXCEPT ![run[q]] = NoRun]
    /\ Goto(q, IF Live(run[q]) THEN "deleted" ELSE "listed")
    /\ UNCHANGED <<born, files, op, run, view, snap, todo, audited, histVars>>

PurgeEnd(q) ==
    /\ step[q] = "listed" /\ todo[q] = {}
    /\ Goto(q, "saved")
    /\ UNCHANGED <<row, born, files, op, run, view, snap, todo, audited, histVars>>

\* The audit event of a handler that got to its end.
Audit(q) ==
    /\ step[q] = "saved"
    /\ audited' = audited \cup {q}
    /\ Goto(q, "done")
    /\ UNCHANGED <<row, born, files, op, run, view, snap, todo, histVars>>

Handle(q) ==
    \/ Refuse(q) \/ SaveReviewed(q) \/ Conflict(q) \/ SaveOver(q)
    \/ DeleteRow(q) \/ RemoveFiles(q) \/ PurgeRow(q) \/ PurgeEnd(q) \/ Audit(q)

Next ==
    \/ \E r \in Runs : Publish(r)
    \/ \E q \in Requests, r \in Runs :
          \/ RescanPublish(q, r) \/ View(q, r) \/ PurgeLoad(q, r)
          \/ \E o \in CasOps \cup OverOps \cup {"delete"} : Load(q, r, o)
    \/ \E q \in Requests, candidates \in SUBSET Runs : PurgeList(q, candidates)
    \/ \E q \in Requests : Handle(q)

Spec == Init /\ [][Next]_vars

-----------------------------------------------------------------------------
(* Safety.  `stale' marks the runs that an unconditional save took back to  *)
(* an older copy; what such a save breaks is stated for the other runs.     *)

\* The answered reviews and the last answered decision of a run are in its
\* record, whichever other requests were between their load and their save.
AcceptedKept ==
    \A r \in born \ stale :
        Live(r) =>
           /\ row[r].reviews = {q \in accepted : op[q] = "review" /\ run[q] = r}
           /\ row[r].decision = latest[r]

\* A submission that carries a revision is accepted only while the record is
\* what its user was looking at.
ViewIsCurrent ==
    [][\A q \in accepted' \ accepted :
          view[q].rev # 0 /\ run[q] \notin stale =>
             Core(view[q]) = Core(row[run[q]])]_vars

\* The revision never falls, and it grows with every review and decision.
RevisionGrows ==
    [][\A r \in born \ stale' :
          Live(r) /\ row'[r].rev # 0 =>
             \/ Core(row'[r]) = Core(row[r])
             \/ row'[r].rev > row[r].rev]_vars

\* A run has its originals; originals without a run belong to a delete that has
\* not got to its end.
FilesMatchRows ==
    \A r \in born \ stale :
        IF Live(r) THEN r \in files
        ELSE r \in files => \E q \in Requests : step[q] = "deleted" /\ run[q] = r

\* An audit event of a review or decision is about one that was accepted.
AuditTruthful ==
    \A q \in audited : op[q] \in CasOps => q \in accepted

-----------------------------------------------------------------------------
(* The inductive invariant.                                                 *)

\* A copy or a view is never newer than the row, and one of the same revision
\* agrees with it on reviews and decision.
NotNewer(rec, r) ==
    rec.rev # 0 /\ Live(r) =>
       /\ rec.rev <= row[r].rev
       /\ rec.rev = row[r].rev => Core(rec) = Core(row[r])

CopiesNotNewer ==
    \A q \in Requests :
        run[q] # None /\ run[q] \notin stale =>
           NotNewer(view[q], run[q]) /\ NotNewer(snap[q], run[q])

\* A handler loads its copy after its user has seen the record.
ViewBeforeCopy ==
    \A q \in Requests :
        step[q] = "loaded" =>
           /\ run[q] # None /\ snap[q].rev # 0
           /\ op[q] \in CasOps /\ run[q] \notin stale => view[q].rev <= snap[q].rev

\* Only published runs have a row, a request, a candidate or a decision.
OnlyBorn ==
    /\ \A r \in Runs \ born : ~Live(r) /\ latest[r] = None
    /\ \A q \in Requests : run[q] \in born \cup {None} /\ todo[q] \subseteq born

\* Where a request is says what it may have done.
RequestProgress ==
    \A q \in Requests :
        /\ step[q] = "idle" => run[q] = None /\ view[q].rev = 0 /\ snap[q].rev = 0
        /\ step[q] \in {"idle", "viewed"} => op[q] = "none"
        /\ step[q] = "published" => op[q] = "rescan"
        /\ step[q] = "listed" => op[q] = "purge"
        /\ op[q] = "purge" => view[q].rev = 0
        /\ step[q] = "deleted" => /\ op[q] \in DeleteOps
                                  /\ run[q] # None
                                  /\ run[q] \in stale \/ ~Live(run[q])
        /\ step[q] = "saved" /\ op[q] \in CasOps => q \in accepted
        /\ q \in accepted => /\ step[q] \in {"saved", "done"}
                              /\ run[q] # None /\ op[q] \in CasOps
        /\ q \in audited => step[q] = "done"

\* AcceptedKept, FilesMatchRows and AuditTruthful with what makes them
\* inductive.
RecordsInv ==
    /\ TypeOK
    /\ OnlyBorn /\ RequestProgress
    /\ CopiesNotNewer /\ ViewBeforeCopy
    /\ AcceptedKept /\ FilesMatchRows /\ AuditTruthful

-----------------------------------------------------------------------------
(* What the documentation says and the code does not do.                    *)

\* ViewIsCurrent of every run: a decision never overwrites what changed after
\* its user loaded the task.
ViewIsAlwaysCurrent ==
    [][\A q \in accepted' \ accepted :
          view[q].rev # 0 => Core(view[q]) = Core(row[run[q]])]_vars

=============================================================================
