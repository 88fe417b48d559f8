------------------------------- MODULE Backup -------------------------------
(* Backups made beside a running system and restored with the system         *)
(* stopped: src/work/backup_restore.py and the backup routes of              *)
(* src/app/api/admin.py.  A run has one original; its file is written before *)
(* its row and removed after it.                                             *)
EXTENDS Naturals, FiniteSets

CONSTANTS
    Runs,
    Backups,      \* directories a behaviour may create; mkdir never reuses a name
    None

VARIABLES
    rows,         \* runs in the database, or Torn while its file is being replaced
    files,        \* each run's original: "absent", "partial", "whole"
    backup,       \* the backup directories
    restore       \* the offline restore: [at, from]

vars == <<rows, files, backup, restore>>

Torn == {None}

NoBackup == [stage |-> "none", db |-> {}, todo |-> {}, zip |-> [r \in Runs |-> "absent"],
             intact |-> TRUE, valid |-> None, gone |-> {}]
Stopped  == [at |-> "idle", from |-> None]

Init ==
    /\ rows = {}
    /\ files = [r \in Runs |-> "absent"]
    /\ backup = [b \in Backups |-> NoBackup]
    /\ restore = Stopped

Running == restore.at = "idle" /\ rows # Torn

-----------------------------------------------------------------------------
(* The system that is backed up. *)

WriteFile(r) ==
    /\ Running
    /\ \/ files[r] = "absent" /\ r \notin rows /\ files' = [files EXCEPT ![r] = "partial"]
       \/ files[r] = "partial" /\ files' = [files EXCEPT ![r] = "whole"]
    /\ UNCHANGED <<rows, backup, restore>>

InsertRow(r) ==
    /\ Running /\ files[r] = "whole" /\ r \notin rows
    /\ rows' = rows \cup {r}
    /\ UNCHANGED <<files, backup, restore>>

\* The history field gone also collects the runs that were deleted while a backup was made.
DeleteRow(r) ==
    /\ Running /\ r \in rows
    /\ rows' = rows \ {r}
    /\ backup' = [b \in Backups |-> IF backup[b].stage \in {"database", "listed"}
                                    THEN [backup[b] EXCEPT !.gone = @ \cup {r}] ELSE backup[b]]
    /\ UNCHANGED <<files, restore>>

RemoveFile(r) ==
    /\ Running /\ r \notin rows /\ files[r] # "absent"
    /\ files' = [files EXCEPT ![r] = "absent"]
    /\ UNCHANGED <<rows, backup, restore>>

-----------------------------------------------------------------------------
(* create_backup: a new directory, the database, the uploads, the manifest. *)

NewBackupDir(b) ==
    /\ Running /\ backup[b].stage = "none"
    /\ backup' = [backup EXCEPT ![b].stage = "directory"]
    /\ UNCHANGED <<rows, files, restore>>

\* source.backup and pg_dump copy one committed state. The history field gone starts with
\* the runs that have lost their original before.
CopyDatabase(b) ==
    /\ Running /\ backup[b].stage = "directory"
    /\ backup' = [backup EXCEPT ![b].stage = "database", ![b].db = rows,
                                ![b].gone = {r \in rows : files[r] # "whole"}]
    /\ UNCHANGED <<rows, files, restore>>

ListUploads(b) ==
    /\ Running /\ backup[b].stage = "database"
    /\ backup' = [backup EXCEPT ![b].stage = "listed",
                                ![b].todo = {r \in Runs : files[r] # "absent"}]
    /\ UNCHANGED <<rows, files, restore>>

\* A listed file that is no longer there raises, and the backup has no manifest.
ArchiveUpload(b, r) ==
    /\ Running /\ backup[b].stage = "listed" /\ r \in backup[b].todo
    /\ backup' = IF files[r] = "absent"
                 THEN [backup EXCEPT ![b].stage = "failed"]
                 ELSE [backup EXCEPT ![b].todo = @ \ {r}, ![b].zip[r] = files[r]]
    /\ UNCHANGED <<rows, files, restore>>

WriteManifestMutant(b) ==
    /\ Running /\ backup[b].stage = "listed" /\ backup[b].todo = {}
    /\ backup' = [backup EXCEPT ![b].stage = "complete", ![b].db = rows]
    /\ UNCHANGED <<rows, files, restore>>
WriteManifest(b) ==
    /\ Running /\ backup[b].stage = "listed" /\ backup[b].todo = {}
    /\ backup' = [backup EXCEPT ![b].stage = "complete"]
    /\ UNCHANGED <<rows, files, restore>>

\* pg_dump fails, the disk is full or the process is killed.
CreateFails(b) ==
    /\ backup[b].stage \in {"directory", "database", "listed"}
    /\ backup' = [backup EXCEPT ![b].stage = "failed"]
    /\ UNCHANGED <<rows, files, restore>>

\* A backup medium loses data. (While a restore reads it, its answer is not modelled.)
Damage(b) ==
    /\ Running /\ backup[b].stage = "complete" /\ backup[b].intact
    /\ backup' = [backup EXCEPT ![b].intact = FALSE, ![b].zip = [r \in Runs |-> "absent"]]
    /\ UNCHANGED <<rows, files, restore>>

\* verify_backup: the manifest is there and both files have the hashes it records.
Verify(b) == backup[b].stage = "complete" /\ backup[b].intact

\* record_backup_verification, after a create or on request.
RecordVerification(b) ==
    /\ Running /\ backup[b].stage # "none"
    /\ backup' = [backup EXCEPT ![b].valid = Verify(b)]
    /\ UNCHANGED <<rows, files, restore>>

\* list_backup_records: what the page calls valid.
ListedValid(b) == backup[b].stage = "complete" /\ backup[b].valid = TRUE

-----------------------------------------------------------------------------
(* restore_backup, by an operator, with the system stopped. *)

\* Stopping the system ends the backups it is making.
BeginRestore(b) ==
    /\ restore.at = "idle" /\ Verify(b)
    /\ \A c \in Backups : backup[c].stage \in {"none", "failed", "complete"}
    /\ restore' = [at |-> "verified", from |-> b]
    /\ UNCHANGED <<rows, files, backup>>

\* copy2 onto the target is not atomic.
OpenDatabase ==
    /\ restore.at = "verified"
    /\ rows' = Torn
    /\ restore' = [restore EXCEPT !.at = "copying"]
    /\ UNCHANGED <<files, backup>>

ReplaceDatabase ==
    /\ restore.at = "copying"
    /\ rows' = backup[restore.from].db
    /\ restore' = [restore EXCEPT !.at = "replaced"]
    /\ UNCHANGED <<files, backup>>

\* extractall: over what is there; files that are not in the archive stay.
ExtractUploads ==
    /\ restore.at = "replaced"
    /\ files' = [r \in Runs |-> LET z == backup[restore.from].zip[r] IN
                                IF z = "absent" THEN files[r] ELSE z]
    /\ restore' = [restore EXCEPT !.at = "restored"]
    /\ UNCHANGED <<rows, backup>>

\* The operator starts the system after a restore that returned; one that was killed
\* is run again, from this or another backup.
Start ==
    /\ restore.at = "restored"
    /\ restore' = Stopped
    /\ UNCHANGED <<rows, files, backup>>

Killed ==
    /\ restore.at \in {"verified", "copying", "replaced"}
    /\ \E b \in Backups : Verify(b) /\ restore' = [at |-> "verified", from |-> b]
    /\ UNCHANGED <<rows, files, backup>>

Next ==
    \/ \E r \in Runs : WriteFile(r) \/ InsertRow(r) \/ DeleteRow(r) \/ RemoveFile(r)
    \/ \E b \in Backups :
          \/ NewBackupDir(b) \/ CopyDatabase(b) \/ ListUploads(b) \/ WriteManifest(b)
          \/ CreateFails(b) \/ Damage(b) \/ RecordVerification(b) \/ BeginRestore(b)
          \/ \E r \in Runs : ArchiveUpload(b, r)
    \/ OpenDatabase \/ ReplaceDatabase \/ ExtractUploads \/ Start \/ Killed

Spec == Init /\ [][Next]_vars

-----------------------------------------------------------------------------

FileState == {"absent", "partial", "whole"}
Directory == [stage : {"none", "directory", "database", "listed", "failed", "complete"},
              db : SUBSET Runs, todo : SUBSET Runs, zip : [Runs -> FileState],
              intact : BOOLEAN, valid : BOOLEAN \cup {None}, gone : SUBSET Runs]

TypeOK ==
    /\ rows = Torn \/ rows \subseteq Runs
    /\ files \in [Runs -> FileState]
    /\ backup \in [Backups -> Directory]
    /\ restore \in [at : {"idle", "verified", "copying", "replaced", "restored"},
                    from : Backups \cup {None}]

\* After a restore every run that is listed has its whole original, although the system ran,
\* published and deleted while the backup was made and the medium may have failed since; the
\* only exceptions are runs deleted during that time, or without their original before it. A
\* backup the page calls valid holds
\* what such a restore needs for as long as the medium keeps it.
RestoredWhole ==
    /\ restore.at = "restored" =>
          \A r \in rows \ backup[restore.from].gone : files[r] = "whole"
    /\ \A b \in Backups : ListedValid(b) /\ backup[b].intact =>
          \A r \in backup[b].db \ backup[b].gone : backup[b].zip[r] = "whole"

-----------------------------------------------------------------------------
(* What makes it inductive.                                                 *)

Making == {"directory", "database", "listed"}

\* While a backup is made, the runs of its copy that were not deleted since keep their
\* originals, and what was listed is in the archive or still to come; a complete one has it.
BackupsHold == \A b \in Backups :
    /\ backup[b].stage \in {"database", "listed"} =>
          \A r \in backup[b].db \ backup[b].gone : r \in rows /\ files[r] = "whole"
    /\ backup[b].stage = "listed" =>
          \A r \in backup[b].db \ backup[b].gone : r \in backup[b].todo \/ backup[b].zip[r] = "whole"
    /\ Verify(b) => \A r \in backup[b].db \ backup[b].gone : backup[b].zip[r] = "whole"

\* A restore reads a verified backup, and no backup is made meanwhile.
RestoreHolds ==
    restore.at # "idle" =>
        /\ \A c \in Backups : backup[c].stage \notin Making
        /\ restore.from \in Backups /\ Verify(restore.from)
        /\ restore.at \in {"replaced", "restored"} => rows = backup[restore.from].db

BackupInv == TypeOK /\ BackupsHold /\ RestoreHolds /\ RestoredWhole

=============================================================================
