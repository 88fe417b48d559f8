----------------------------- MODULE Workbench -----------------------------
(* Comments, remediation items and projects beside a run: src/app/db.py      *)
(* 511-562, 882-976 and delete_run, as the handlers of api/runs.py and       *)
(* api/projects.py call them.  A handler first loads the run; its insert is  *)
(* a later transaction, refused by the foreign key when the run is gone.     *)
(* An update selects the row and later writes it back whole: PostgreSQL does *)
(* not lock the row for the SELECT, and SQLite's driver begins a transaction *)
(* only with the UPDATE, so another update may come between on either.       *)
EXTENDS Naturals, FiniteSets

CONSTANTS
    Handlers,     \* requests in flight
    Statuses,     \* of a remediation
    Notes,
    None

VARIABLES
    run,          \* the run exists
    comments,     \* handlers whose comment is stored
    item,         \* the remediation, or None: [status, note]
    project,      \* the DEFAULT project, or None: [archived]
    req           \* what each handler has loaded and is about to do

vars == <<run, comments, item, project, req>>

Idle == [op |-> "idle"]

Init ==
    /\ run = TRUE
    /\ comments = {}
    /\ item = None
    /\ project = None
    /\ req = [h \in Handlers |-> Idle]

Set(h, r) == req' = [req EXCEPT ![h] = r]

\* h ends. The history field since names, for a handler that holds a copy of the row, the
\* updates of others that have changed the row since the copy was read.
Written(h, op, changed) ==
    req' = [g \in Handlers |->
              IF g = h THEN Idle
              ELSE IF req[g].op = op /\ changed THEN [req[g] EXCEPT !.since = @ \cup {h}]
              ELSE req[g]]

\* require_scoped: 404 unless the run is there.
Load(h) ==
    /\ req[h] = Idle /\ run
    /\ \E op \in {"comment", "remediate"} : Set(h, [op |-> op])
    /\ UNCHANGED <<run, comments, item, project>>

AddComment(h) ==
    /\ req[h].op = "comment"
    /\ comments' = IF run THEN comments \cup {h} ELSE comments
    /\ Set(h, Idle)
    /\ UNCHANGED <<run, item, project>>

CreateRemediation(h) ==
    /\ req[h].op = "remediate"
    /\ IF run /\ item = None
       THEN item' = [status |-> "OPEN", note |-> ""]
       ELSE UNCHANGED item
    /\ Set(h, Idle)
    /\ UNCHANGED <<run, comments, project>>

\* update_remediation reads the row...
ReadItem(h) ==
    /\ req[h] = Idle /\ item # None
    /\ \E s \in Statuses \cup {None}, n \in Notes \cup {None} :
          Set(h, [op |-> "update", status |-> s, note |-> n, row |-> item, since |-> {}])
    /\ UNCHANGED <<run, comments, item, project>>

\* Only the fields that were sent replace what was read.
MergedMutant(row, p) == [status |-> p.status, note |-> p.note]
Merged(row, p) ==
    [status |-> IF p.status = None THEN row.status ELSE p.status,
     note   |-> IF p.note = None THEN row.note ELSE p.note]

\* ...and writes all its fields; the UPDATE finds nothing when the run has been deleted.
WriteItem(h) ==
    /\ req[h].op = "update"
    /\ item' = IF item = None THEN None ELSE Merged(req[h].row, req[h])
    /\ Written(h, "update", item' # item)
    /\ UNCHANGED <<run, comments, project>>

\* delete_run: the dependants and the row, in one transaction.
DeleteRun ==
    /\ run
    /\ run' = FALSE
    /\ comments' = {}
    /\ item' = None
    /\ UNCHANGED <<project, req>>

\* ensure_default_project reads; without a row it inserts, which the unique (workspace,
\* code) index refuses if another request was first.
FindDefault(h) ==
    /\ req[h] = Idle
    /\ project = None
    /\ Set(h, [op |-> "default"])
    /\ UNCHANGED <<run, comments, item, project>>

InsertDefault(h) ==
    /\ req[h].op = "default"
    /\ project' = IF project = None THEN [archived |-> FALSE] ELSE project
    /\ Set(h, Idle)
    /\ UNCHANGED <<run, comments, item>>

\* update_project: load_project, then an UPDATE of name and archived_at from the copy.
LoadProject(h) ==
    /\ req[h] = Idle /\ project # None
    /\ \E a \in {TRUE, FALSE, None} :
          Set(h, [op |-> "project", archived |-> a, row |-> project, since |-> {}])
    /\ UNCHANGED <<run, comments, item, project>>

UpdateProject(h) ==
    /\ req[h].op = "project"
    /\ project' = [project EXCEPT !.archived =
                      IF req[h].archived = None THEN req[h].row.archived ELSE req[h].archived]
    /\ Written(h, "project", project' # project)
    /\ UNCHANGED <<run, comments, item>>

Next ==
    \/ DeleteRun
    \/ \E h \in Handlers :
          \/ Load(h) \/ AddComment(h) \/ CreateRemediation(h) \/ ReadItem(h) \/ WriteItem(h)
          \/ FindDefault(h) \/ InsertDefault(h) \/ LoadProject(h) \/ UpdateProject(h)

Spec == Init /\ [][Next]_vars

-----------------------------------------------------------------------------

Item    == [status : Statuses \cup {"OPEN"}, note : Notes \cup {""}]
Project == [archived : BOOLEAN]
Update  == [op : {"update"}, status : Statuses \cup {None}, note : Notes \cup {None}, row : Item,
            since : SUBSET Handlers]
Patch   == [op : {"project"}, archived : BOOLEAN \cup {None}, row : Project, since : SUBSET Handlers]

TypeOK ==
    /\ run \in BOOLEAN /\ comments \subseteq Handlers
    /\ item \in Item \cup {None} /\ project \in Project \cup {None}
    /\ req \in [Handlers -> [op : {"idle", "comment", "remediate", "default"}] \cup Update \cup Patch]

\* A handler that loaded the run before its deletion leaves no row behind that belongs to
\* no run: delete_run takes all dependants and the foreign keys refuse later ones.
NoOrphans == ~run => comments = {} /\ item = None

\* A field of a remediation changes only to what an update sent for it, although every update
\* writes all fields; one that sent nothing for the field may undo another's only if that one
\* was written between its own read and its write.
FieldsOnRequest ==
    [][item # None /\ item' # None =>
          \A f \in {"status", "note"} : item'[f] # item[f] =>
              \E h \in Handlers :
                  /\ req[h].op = "update" /\ req'[h] = Idle
                  /\ IF req[h][f] = None THEN req[h].since # {} ELSE item'[f] = req[h][f]]_vars

\* A project changes its archived state only by a request to do so, unless the request that
\* changes it had loaded its copy before another request changed the state.
ArchivedOnRequest ==
    [][(project # None /\ project' # project) =>
          \E h \in Handlers :
              /\ req[h].op = "project" /\ req'[h] = Idle
              /\ req[h].archived # None \/ req[h].since # {}]_vars

\* What users write beside a run is kept as they wrote it, or gone with the run.
WorkKept == []NoOrphans /\ FieldsOnRequest /\ ArchivedOnRequest

-----------------------------------------------------------------------------
(* What makes them inductive.                                               *)

\* A copy that no update of another request has overtaken is the row.
CopiesFit == \A h \in Handlers :
    /\ req[h].op = "update" =>
          /\ run => item # None
          /\ item # None /\ req[h].since = {} => req[h].row = item
    /\ req[h].op = "project" =>
          /\ project # None
          /\ req[h].since = {} => req[h].row = project

WorkbenchInv == TypeOK /\ CopiesFit /\ NoOrphans

=============================================================================
