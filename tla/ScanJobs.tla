------------------------------ MODULE ScanJobs ------------------------------
(***************************************************************************)
(* The durable scan-job queue of BidProof: the scan_jobs table, execution  *)
(* leases, the worker that supervises one child process per scan, the      *)
(* inline and interactive runners, and the two directory trees (staged     *)
(* inputs and stored originals) the table must stay consistent with.       *)
(*                                                                         *)
(* A token names one execution attempt: the lease uuid of a claim and, by  *)
(* attempt_run_id, the run the attempt would publish and the upload        *)
(* directory it writes.  An interactive scan has a run id but no lease.    *)
(*                                                                         *)
(* Every UPDATE of a row is one step.  The publication transaction is two: *)
(* Fence takes the row lock, Commit releases it, and the steps that write  *)
(* the row wait in between, as they do in PostgreSQL and SQLite.           *)
(***************************************************************************)
EXTENDS Naturals

CONSTANTS Jobs,         \* job ids
          Tokens,       \* attempt ids (lease tokens and run ids)
          None,         \* SQL NULL
          MaxAttempts,  \* db.MAX_JOB_ATTEMPTS
          Deployment    \* which process runs the jobs

ASSUME ConstantsAssumption ==
    /\ None \notin Tokens \cup Jobs
    /\ MaxAttempts \in Nat \ {0}
    /\ Deployment \in {"production", "worker", "inline"}

VARIABLES
    row,        \* the scan_jobs table
    runs,       \* run ids present in the runs table
    tx,         \* attempts whose publication transaction is open
    staging,    \* jobs whose staged inputs are on disk
    uploads,    \* run ids whose upload directory is on disk
    doomed,     \* deleted runs whose upload directory is still to be removed
    jobOf,      \* attempt -> the job it executes
    leaseOf,    \* attempt -> the lease_token create_run was given
    pc,         \* attempt -> where process_job / create_run is
    sup,        \* attempt -> where supervise is
    stage,      \* job -> how far the request that created it is
    ahead,      \* job -> the jobs with an earlier created_at
    tasks,      \* inline runner: jobs with a scheduled process_job
    published,  \* history: every attempt that ever published
    early       \* history: jobs claimed before stage_job's second write

dbVars   == <<row, runs, tx>>
fileVars == <<staging, uploads, doomed>>
attVars  == <<jobOf, leaseOf, pc, sup>>
apiVars  == <<stage, ahead, tasks>>
histVars == <<published, early>>
vars     == <<dbVars, fileVars, attVars, apiVars, histVars>>

-----------------------------------------------------------------------------

Status == {"ABSENT", "PENDING", "RUNNING", "FAILED", "CANCELLED",
           "COMPLETED", "DEAD"}

\* fresh: updated_at is not older than the stale cutoff.  Only requeue_stale
\* reads updated_at, and only of RUNNING rows.
Row == [status : Status, attempts : 0..MaxAttempts, cancel : BOOLEAN,
        lease : Tokens \cup {None}, run : Tokens \cup {None}, fresh : BOOLEAN]

NoRow == [status |-> "ABSENT", attempts |-> 0, cancel |-> FALSE,
          lease |-> None, run |-> None, fresh |-> TRUE]

Stages == {"idle", "saved", "created", "done", "sync"}

Pcs == {"unused", "unspawned", "load", "begin", "open", "scan", "fenced",
        "committed", "failing", "lost", "exited", "dead"}

Sups == {"none", "starting", "watch", "stop", "after", "clean", "done",
         "crashed"}

Alive == {"unspawned", "load", "begin", "open", "scan", "fenced",
          "committed", "failing", "lost"}

TypeOK ==
    /\ row \in [Jobs -> Row]
    /\ runs \subseteq Tokens
    /\ tx \subseteq Tokens
    /\ staging \subseteq Jobs
    /\ uploads \subseteq Tokens
    /\ doomed \subseteq Tokens
    /\ jobOf \in [Tokens -> Jobs \cup {None}]
    /\ leaseOf \in [Tokens -> Tokens \cup {None}]
    /\ pc \in [Tokens -> Pcs]
    /\ sup \in [Tokens -> Sups]
    /\ stage \in [Jobs -> Stages]
    /\ ahead \in [Jobs -> SUBSET Jobs]
    /\ tasks \subseteq Jobs
    /\ published \subseteq Tokens
    /\ early \subseteq Jobs

Init ==
    /\ row = [j \in Jobs |-> NoRow]
    /\ runs = {} /\ tx = {}
    /\ staging = {} /\ uploads = {} /\ doomed = {}
    /\ jobOf = [t \in Tokens |-> None]
    /\ leaseOf = [t \in Tokens |-> None]
    /\ pc = [t \in Tokens |-> "unused"]
    /\ sup = [t \in Tokens |-> "none"]
    /\ stage = [j \in Jobs |-> "idle"]
    /\ ahead = [j \in Jobs |-> {}]
    /\ tasks = {} /\ published = {} /\ early = {}

-----------------------------------------------------------------------------
(* Row access.                                                             *)

\* Mutant: fencing does not hold the row lock until the commit.
UnlockedMutant(j) == TRUE

\* No publication transaction holds the row's lock.
Unlocked(j) == \A t \in tx : jobOf[t] # j

\* Mutant: the fence compares the lease and forgets status and cancellation.
OwnsMutant(t) == row[jobOf[t]].lease = leaseOf[t]

\* The WHERE clause of job_leases.update and fence_publication.
Owns(t) ==
    LET r == row[jobOf[t]]
    IN  r.status = "RUNNING" /\ ~r.cancel /\ r.lease = leaseOf[t]

\* job_leases.update(job_id, token, status=s): a no-op unless the lease holds.
LeaseUpdate(t, s) ==
    /\ Unlocked(jobOf[t])
    /\ row' = IF Owns(t)
              THEN [row EXCEPT ![jobOf[t]] =
                       [@ EXCEPT !.status = s, !.fresh = TRUE]]
              ELSE row

\* Mutant: a RUNNING row can be claimed again.
ClaimableRunningMutant(j) ==
    /\ row[j].status \in {"PENDING", "RUNNING"} /\ ~row[j].cancel
    /\ row[j].attempts < MaxAttempts

\* The WHERE clause of job_leases.claim.
Claimable(j) ==
    row[j].status = "PENDING" /\ ~row[j].cancel /\ row[j].attempts < MaxAttempts

\* Mutant: no dead-lettering at the attempt limit.
ReclaimedMutant(r) == [r EXCEPT !.status = "PENDING", !.lease = None, !.fresh = TRUE]

\* requeue_stale_scan_jobs on one stale row.
Reclaimed(r) ==
    [r EXCEPT !.status = IF r.attempts >= MaxAttempts THEN "DEAD" ELSE "PENDING",
              !.lease = None, !.fresh = TRUE]

Stale(j) == /\ row[j].status = "RUNNING" /\ ~row[j].cancel
            /\ ~row[j].fresh /\ Unlocked(j)

RequeuedTable == [j \in Jobs |-> IF Stale(j) THEN Reclaimed(row[j]) ELSE row[j]]

\* db.delete_run removes the run and the job rows linked to it.
TableWithout(t) == [j \in Jobs |-> IF row[j].run = t THEN NoRow ELSE row[j]]

Existing == {j \in Jobs : row[j].status # "ABSENT"}

-----------------------------------------------------------------------------
(* The API: enqueue, interactive scan, retry, cancel, delete.              *)

\* stage_job up to the staged files on disk.
StageFiles(j) ==
    /\ stage[j] = "idle"
    /\ stage' = [stage EXCEPT ![j] = "saved"]
    /\ staging' = staging \cup {j}
    /\ UNCHANGED <<dbVars, uploads, doomed, attVars, ahead, tasks, histVars>>

\* A rejected upload removes the staging directory and creates no row.
StageReject(j) ==
    /\ stage[j] = "saved"
    /\ stage' = [stage EXCEPT ![j] = "done"]
    /\ staging' = staging \ {j}
    /\ UNCHANGED <<dbVars, uploads, doomed, attVars, ahead, tasks, histVars>>

\* jobs.create: the row is committed PENDING.
StageCreate(j) ==
    /\ stage[j] = "saved"
    /\ stage' = [stage EXCEPT ![j] = "created"]
    /\ row' = [row EXCEPT ![j] = [NoRow EXCEPT !.status = "PENDING"]]
    /\ ahead' = [ahead EXCEPT ![j] = Existing]
    /\ UNCHANGED <<runs, tx, fileVars, attVars, tasks, histVars>>

\* jobs.update(job_id, "PENDING", ...), a transaction of its own that is
\* conditional on nothing but the row not being CANCELLED; then dispatch.
StageUpdate(j) ==
    /\ stage[j] = "created"
    /\ Unlocked(j)
    /\ stage' = [stage EXCEPT ![j] = "done"]
    /\ row' = IF row[j].status \in {"ABSENT", "CANCELLED"} THEN row
              ELSE [row EXCEPT ![j] = [@ EXCEPT !.status = "PENDING", !.fresh = TRUE]]
    /\ tasks' = IF Deployment = "inline" THEN tasks \cup {j} ELSE tasks
    /\ UNCHANGED <<runs, tx, fileVars, attVars, ahead, histVars>>

\* The API process dies between the steps of stage_job.
StageAbandon(j) ==
    /\ Deployment # "inline"
    /\ stage[j] \in {"saved", "created"}
    /\ stage' = [stage EXCEPT ![j] = "done"]
    /\ UNCHANGED <<dbVars, fileVars, attVars, ahead, tasks, histVars>>

\* POST /api/runs: create_run without a queued job, refused in production.
\* The row is created RUNNING with no lease and an empty payload.
SyncStart(j, t) ==
    /\ Deployment # "production"
    /\ stage[j] = "idle" /\ pc[t] = "unused"
    /\ stage' = [stage EXCEPT ![j] = "sync"]
    /\ row' = [row EXCEPT ![j] = [NoRow EXCEPT !.status = "RUNNING"]]
    /\ ahead' = [ahead EXCEPT ![j] = Existing]
    /\ jobOf' = [jobOf EXCEPT ![t] = j]
    /\ pc' = [pc EXCEPT ![t] = "scan"]
    /\ uploads' = uploads \cup {t}
    /\ UNCHANGED <<runs, tx, staging, doomed, leaseOf, sup, tasks, histVars>>

\* Mutant: retry accepts a COMPLETED job.
RetryMutant(j) ==
    /\ row[j].status \in {"FAILED", "PENDING", "COMPLETED"}
    /\ ~row[j].cancel /\ row[j].attempts < MaxAttempts
    /\ row' = [row EXCEPT ![j] = [@ EXCEPT !.status = "PENDING", !.lease = None,
                                           !.fresh = TRUE]]
    /\ tasks' = IF Deployment = "inline" THEN tasks \cup {j} ELSE tasks
    /\ UNCHANGED <<runs, tx, fileVars, attVars, stage, ahead, histVars>>

\* retry_scan_job: the conditional UPDATE repeats the handler's own checks.
Retry(j) ==
    /\ row[j].status \in {"FAILED", "PENDING"}
    /\ ~row[j].cancel /\ row[j].attempts < MaxAttempts
    /\ row' = [row EXCEPT ![j] = [@ EXCEPT !.status = "PENDING", !.lease = None,
                                           !.fresh = TRUE]]
    /\ tasks' = IF Deployment = "inline" THEN tasks \cup {j} ELSE tasks
    /\ UNCHANGED <<runs, tx, fileVars, attVars, stage, ahead, histVars>>

\* Mutant: cancel_scan_job without its status condition.
CancelMutant(j) ==
    /\ row[j].status # "ABSENT" /\ Unlocked(j)
    /\ row' = [row EXCEPT ![j] = [@ EXCEPT !.status = "CANCELLED", !.cancel = TRUE,
                                           !.fresh = TRUE]]
    /\ UNCHANGED <<runs, tx, fileVars, attVars, apiVars, histVars>>

\* cancel_job.
Cancel(j) ==
    /\ row[j].status \in {"PENDING", "RUNNING"} /\ Unlocked(j)
    /\ row' = [row EXCEPT ![j] = [@ EXCEPT !.status = "CANCELLED", !.cancel = TRUE,
                                           !.fresh = TRUE]]
    /\ UNCHANGED <<runs, tx, fileVars, attVars, apiVars, histVars>>

\* Deleting a run: the database transaction, then remove_tree.
DeleteRun(t) ==
    /\ t \in runs
    /\ \A j \in Jobs : row[j].run = t => Unlocked(j)
    /\ runs' = runs \ {t}
    /\ row' = TableWithout(t)
    /\ doomed' = doomed \cup {t}
    /\ UNCHANGED <<tx, staging, uploads, attVars, apiVars, histVars>>

DeleteFiles(t) ==
    /\ t \in doomed
    /\ doomed' = doomed \ {t}
    /\ uploads' = uploads \ {t}
    /\ UNCHANGED <<dbVars, staging, attVars, apiVars, histVars>>

-----------------------------------------------------------------------------
(* Claiming and reclaiming.                                                *)

\* job_leases.claim: PENDING -> RUNNING under a lease never used before.
Take(j, t, at, watcher) ==
    /\ Claimable(j) /\ pc[t] = "unused"
    /\ row' = [row EXCEPT ![j] = [@ EXCEPT !.status = "RUNNING", !.lease = t,
                                           !.fresh = TRUE,
                                           !.attempts = row[j].attempts + 1]]
    /\ jobOf' = [jobOf EXCEPT ![t] = j]
    /\ leaseOf' = [leaseOf EXCEPT ![t] = t]
    /\ pc' = [pc EXCEPT ![t] = at]
    /\ sup' = [sup EXCEPT ![t] = watcher]
    /\ early' = IF stage[j] = "created" THEN early \cup {j} ELSE early

\* run_one: the oldest claimable row; supervised in production.
ClaimNext(j, t) ==
    /\ Deployment # "inline"
    /\ \A k \in ahead[j] : ~Claimable(k)
    /\ IF Deployment = "production" THEN Take(j, t, "unspawned", "starting")
                                    ELSE Take(j, t, "load", "none")
    /\ UNCHANGED <<runs, tx, fileVars, apiVars, published>>

\* Mutant: the inline claim may run between the two writes of stage_job.
ClaimTaskMutant(j, t) ==
    /\ j \in tasks
    /\ tasks' = tasks \ {j}
    /\ Take(j, t, "begin", "none")
    /\ UNCHANGED <<runs, tx, fileVars, stage, ahead, published>>

\* Inline process_job(job_id) claims on the API's event loop, which stage_job
\* does not release between its two writes.
ClaimTask(j, t) ==
    /\ j \in tasks
    /\ \A k \in Jobs : stage[k] # "created"
    /\ tasks' = tasks \ {j}
    /\ Take(j, t, "begin", "none")
    /\ UNCHANGED <<runs, tx, fileVars, stage, ahead, published>>

\* The scheduled task finds nothing to claim.
DropTask(j) ==
    /\ j \in tasks /\ ~Claimable(j)
    /\ \A k \in Jobs : stage[k] # "created"
    /\ tasks' = tasks \ {j}
    /\ UNCHANGED <<dbVars, fileVars, attVars, stage, ahead, histVars>>

\* JOB_STALE_SECONDS pass without a write to a RUNNING row.
Expire(j) ==
    /\ row[j].status = "RUNNING" /\ row[j].fresh
    /\ row' = [row EXCEPT ![j].fresh = FALSE]
    /\ UNCHANGED <<runs, tx, fileVars, attVars, apiVars, histVars>>

\* Each worker iteration calls requeue_stale.
RequeueStale ==
    /\ Deployment # "inline"
    /\ \E j \in Jobs : Stale(j)
    /\ row' = RequeuedTable
    /\ UNCHANGED <<runs, tx, fileVars, attVars, apiVars, histVars>>

\* The inline runner dies with the API process; its restart runs
\* start_inline_recovery.
ApiRestart ==
    /\ Deployment = "inline"
    /\ pc' = [t \in Tokens |-> IF pc[t] \in Alive THEN "dead" ELSE pc[t]]
    /\ stage' = [j \in Jobs |-> IF stage[j] \in {"saved", "created"} THEN "done"
                                ELSE stage[j]]
    /\ row' = RequeuedTable
    /\ tasks' = {j \in Jobs : RequeuedTable[j].status \in {"PENDING", "RUNNING"}}
    /\ UNCHANGED <<runs, tx, fileVars, jobOf, leaseOf, sup, ahead, histVars>>

-----------------------------------------------------------------------------
(* process_job and create_run, for one attempt.                            *)

Goto(t, at) == pc' = [pc EXCEPT ![t] = at]

\* process_job with a lease: return at once unless the lease is still held.
LoadJob(t) ==
    /\ pc[t] = "load"
    /\ Goto(t, IF Owns(t) THEN "begin" ELSE "exited")
    /\ UNCHANGED <<dbVars, fileVars, jobOf, leaseOf, sup, apiVars, histVars>>

\* Report progress and open the staged inputs; an interactive job's payload
\* names none.
OpenInputs(t) ==
    /\ pc[t] = "begin"
    /\ LeaseUpdate(t, "RUNNING")
    /\ Goto(t, IF jobOf[t] \in staging THEN "open" ELSE "failing")
    /\ UNCHANGED <<runs, tx, fileVars, jobOf, leaseOf, sup, apiVars, histVars>>

\* create_run validates again: the project may be archived by now.
EnterRefused(t) ==
    /\ pc[t] = "open"
    /\ Goto(t, "failing")
    /\ UNCHANGED <<dbVars, fileVars, jobOf, leaseOf, sup, apiVars, histVars>>

\* create_run: update_job("RUNNING") or LeaseLost, then mkdir of the upload
\* directory.
Enter(t) ==
    /\ pc[t] = "open"
    /\ LeaseUpdate(t, "RUNNING")
    /\ Goto(t, IF Owns(t) THEN "scan" ELSE "lost")
    /\ uploads' = IF Owns(t) THEN uploads \cup {t} ELSE uploads
    /\ UNCHANGED <<runs, tx, staging, doomed, jobOf, leaseOf, sup, apiVars, histVars>>

\* A rejected upload or failed extraction: remove the upload directory and
\* mark the job FAILED.
RejectLeased(t) ==
    /\ pc[t] = "scan" /\ leaseOf[t] # None
    /\ LeaseUpdate(t, "FAILED")
    /\ Goto(t, IF Owns(t) THEN "exited" ELSE "lost")
    /\ uploads' = uploads \ {t}
    /\ UNCHANGED <<runs, tx, staging, doomed, jobOf, leaseOf, sup, apiVars, histVars>>

\* The same path without a lease: jobs.update is conditional only on the row
\* not being CANCELLED, and it sets attempts to 1.
RejectSync(t) ==
    LET j == jobOf[t]
    IN  /\ pc[t] = "scan" /\ leaseOf[t] = None
        /\ Unlocked(j)
        /\ row' = IF row[j].status \in {"ABSENT", "CANCELLED"} THEN row
                  ELSE [row EXCEPT ![j] = [@ EXCEPT !.status = "FAILED",
                                              !.attempts = 1, !.fresh = TRUE]]
        /\ Goto(t, "exited")
        /\ uploads' = uploads \ {t}
        /\ UNCHANGED <<runs, tx, staging, doomed, jobOf, leaseOf, sup, apiVars, histVars>>

AfterError(t) == IF leaseOf[t] = None THEN "exited" ELSE "failing"

\* Any other exception while scanning: the upload directory stays.
ScanError(t) ==
    /\ pc[t] = "scan"
    /\ Goto(t, AfterError(t))
    /\ UNCHANGED <<dbVars, fileVars, jobOf, leaseOf, sup, apiVars, histVars>>

\* Mutant: publication without a fence.
FenceMutant(t) ==
    /\ pc[t] = "scan" /\ Unlocked(jobOf[t])
    /\ tx' = tx \cup {t}
    /\ Goto(t, "fenced")
    /\ UNCHANGED <<row, runs, fileVars, jobOf, leaseOf, sup, apiVars, histVars>>

\* fence_publication succeeds: the transaction is open and holds the row.
Fence(t) ==
    /\ pc[t] = "scan"
    /\ Unlocked(jobOf[t]) /\ Owns(t)
    /\ tx' = tx \cup {t}
    /\ Goto(t, "fenced")
    /\ UNCHANGED <<row, runs, fileVars, jobOf, leaseOf, sup, apiVars, histVars>>

\* fence_publication raises LeaseLost: remove the upload directory.
FenceLost(t) ==
    /\ pc[t] = "scan"
    /\ Unlocked(jobOf[t]) /\ ~Owns(t)
    /\ uploads' = uploads \ {t}
    /\ Goto(t, IF leaseOf[t] = None THEN "exited" ELSE "lost")
    /\ UNCHANGED <<dbVars, staging, doomed, jobOf, leaseOf, sup, apiVars, histVars>>

\* The transaction's writes: save_run, link_run, update_job("COMPLETED").
Publish(t) ==
    LET j == jobOf[t]
    IN  /\ tx' = tx \ {t}
        /\ runs' = runs \cup {t}
        /\ published' = published \cup {t}
        /\ row' = [row EXCEPT ![j] =
              [@ EXCEPT !.status = "COMPLETED", !.run = t, !.fresh = TRUE,
                        !.attempts = IF leaseOf[t] = None THEN 1
                                      ELSE row[j].attempts]]

Commit(t) ==
    /\ pc[t] = "fenced"
    /\ Publish(t)
    /\ Goto(t, IF leaseOf[t] = None THEN "exited" ELSE "committed")
    /\ UNCHANGED <<fileVars, jobOf, leaseOf, sup, apiVars, early>>

\* Another write of the transaction fails: roll back, keep the directory.
Rollback(t) ==
    /\ pc[t] = "fenced"
    /\ tx' = tx \ {t}
    /\ Goto(t, AfterError(t))
    /\ UNCHANGED <<row, runs, fileVars, jobOf, leaseOf, sup, apiVars, histVars>>

\* process_job after create_run returned.
Finish(t) ==
    /\ pc[t] = "committed"
    /\ staging' = staging \ {jobOf[t]}
    /\ Goto(t, "exited")
    /\ UNCHANGED <<dbVars, uploads, doomed, jobOf, leaseOf, sup, apiVars, histVars>>

\* Mutant: a lost lease always removes the staged inputs.
HandleLostMutant(t) ==
    /\ pc[t] = "lost"
    /\ staging' = staging \ {jobOf[t]}
    /\ Goto(t, "exited")
    /\ UNCHANGED <<dbVars, uploads, doomed, jobOf, leaseOf, sup, apiVars, histVars>>

\* except LeaseLost: only cancellation permits removing the staged inputs.
HandleLost(t) ==
    /\ pc[t] = "lost"
    /\ staging' = IF row[jobOf[t]].status = "CANCELLED" THEN staging \ {jobOf[t]}
                  ELSE staging
    /\ Goto(t, "exited")
    /\ UNCHANGED <<dbVars, uploads, doomed, jobOf, leaseOf, sup, apiVars, histVars>>

\* except Exception.
HandleError(t) ==
    /\ pc[t] = "failing"
    /\ LeaseUpdate(t, "FAILED")
    /\ Goto(t, "exited")
    /\ UNCHANGED <<runs, tx, fileVars, jobOf, leaseOf, sup, apiVars, histVars>>

\* The process running the attempt is killed.  An open transaction stays with
\* the database server, which commits it if COMMIT had reached it.
Crash(t) ==
    /\ Deployment # "inline"
    /\ pc[t] \in Alive \ {"unspawned"}
    /\ Goto(t, "dead")
    /\ UNCHANGED <<dbVars, fileVars, jobOf, leaseOf, sup, apiVars, histVars>>

LateCommit(t) ==
    /\ pc[t] = "dead" /\ t \in tx
    /\ Publish(t)
    /\ UNCHANGED <<fileVars, attVars, apiVars, early>>

LateRollback(t) ==
    /\ pc[t] = "dead" /\ t \in tx
    /\ tx' = tx \ {t}
    /\ UNCHANGED <<row, runs, fileVars, attVars, apiVars, histVars>>

-----------------------------------------------------------------------------
(* job_runner.supervise, in production.                                    *)

SupGoto(t, at) == sup' = [sup EXCEPT ![t] = at]

Spawn(t) ==
    /\ sup[t] = "starting"
    /\ SupGoto(t, "watch")
    /\ Goto(t, "load")
    /\ UNCHANGED <<dbVars, fileVars, jobOf, leaseOf, apiVars, histVars>>

\* create_subprocess_exec raises OSError.
SpawnFails(t) ==
    /\ sup[t] = "starting"
    /\ LeaseUpdate(t, "FAILED")
    /\ SupGoto(t, "done")
    /\ Goto(t, "exited")
    /\ UNCHANGED <<runs, tx, fileVars, jobOf, leaseOf, apiVars, histVars>>

\* A heartbeat: job_leases.update without a status.
Beat(t) ==
    /\ sup[t] = "watch" /\ pc[t] \in Alive /\ Owns(t)
    /\ LeaseUpdate(t, "RUNNING")
    /\ UNCHANGED <<runs, tx, fileVars, attVars, apiVars, histVars>>

\* The heartbeat finds the lease gone.
BeatLost(t) ==
    /\ sup[t] = "watch" /\ pc[t] \in Alive
    /\ Unlocked(jobOf[t]) /\ ~Owns(t)
    /\ SupGoto(t, "stop")
    /\ UNCHANGED <<dbVars, fileVars, jobOf, leaseOf, pc, apiVars, histVars>>

\* JOB_TIMEOUT_SECONDS are over, right after a heartbeat that succeeded.
Deadline(t) ==
    /\ sup[t] = "watch" /\ pc[t] \in Alive /\ Owns(t)
    /\ LeaseUpdate(t, "RUNNING")
    /\ SupGoto(t, "stop")
    /\ UNCHANGED <<runs, tx, fileVars, jobOf, leaseOf, pc, apiVars, histVars>>

\* _stop: terminate the child and wait for it.
StopChild(t) ==
    /\ sup[t] = "stop"
    /\ pc' = [pc EXCEPT ![t] = IF @ \in Alive THEN "dead" ELSE @]
    /\ SupGoto(t, "after")
    /\ UNCHANGED <<dbVars, fileVars, jobOf, leaseOf, apiVars, histVars>>

ChildExited(t) ==
    /\ sup[t] = "watch" /\ pc[t] \notin Alive
    /\ SupGoto(t, "after")
    /\ UNCHANGED <<dbVars, fileVars, jobOf, leaseOf, pc, apiVars, histVars>>

\* Mutant: the supervisor goes to its clean-up without the barrier UPDATE.
MarkExitedMutant(t) ==
    /\ sup[t] = "after"
    /\ SupGoto(t, "clean")
    /\ UNCHANGED <<dbVars, fileVars, jobOf, leaseOf, pc, apiVars, histVars>>

\* FAILED (SCAN_TIMEOUT or WORKER_EXITED) if the attempt still owns the job.
\* The UPDATE waits for the row, hence for a late commit of the child.
MarkExited(t) ==
    /\ sup[t] = "after"
    /\ LeaseUpdate(t, "FAILED")
    /\ SupGoto(t, "clean")
    /\ UNCHANGED <<runs, tx, fileVars, jobOf, leaseOf, pc, apiVars, histVars>>

\* finally: remove the directory of an unpublished attempt, and the inputs of
\* a job that needs them no more.
CleanUp(t) ==
    /\ sup[t] = "clean"
    /\ uploads' = IF t \in runs THEN uploads ELSE uploads \ {t}
    /\ staging' = IF row[jobOf[t]].status \in {"CANCELLED", "COMPLETED"}
                  THEN staging \ {jobOf[t]} ELSE staging
    /\ SupGoto(t, "done")
    /\ UNCHANGED <<dbVars, doomed, jobOf, leaseOf, pc, apiVars, histVars>>

\* The worker is killed; a child it had started may go on.
SupCrash(t) ==
    /\ sup[t] \in {"starting", "watch", "stop", "after", "clean"}
    /\ SupGoto(t, "crashed")
    /\ pc' = [pc EXCEPT ![t] = IF @ = "unspawned" THEN "dead" ELSE @]
    /\ UNCHANGED <<dbVars, fileVars, jobOf, leaseOf, apiVars, histVars>>

-----------------------------------------------------------------------------

Request(j) ==
    \/ StageFiles(j) \/ StageReject(j) \/ StageCreate(j) \/ StageUpdate(j)
    \/ StageAbandon(j) \/ Retry(j) \/ Cancel(j) \/ Expire(j) \/ DropTask(j)

Start(j, t) == SyncStart(j, t) \/ ClaimNext(j, t) \/ ClaimTask(j, t)

Attempt(t) ==
    \/ LoadJob(t) \/ OpenInputs(t) \/ EnterRefused(t) \/ Enter(t)
    \/ RejectLeased(t) \/ RejectSync(t) \/ ScanError(t)
    \/ Fence(t) \/ FenceLost(t) \/ Commit(t) \/ Rollback(t)
    \/ Finish(t) \/ HandleLost(t) \/ HandleError(t)
    \/ Crash(t) \/ LateCommit(t) \/ LateRollback(t)

Supervise(t) ==
    \/ Spawn(t) \/ SpawnFails(t) \/ Beat(t) \/ BeatLost(t) \/ Deadline(t)
    \/ StopChild(t) \/ ChildExited(t) \/ MarkExited(t) \/ CleanUp(t)
    \/ SupCrash(t)

Next ==
    \/ \E j \in Jobs : Request(j)
    \/ \E j \in Jobs, t \in Tokens : Start(j, t)
    \/ \E t \in Tokens : Attempt(t) \/ Supervise(t) \/ DeleteRun(t) \/ DeleteFiles(t)
    \/ RequeueStale
    \/ ApiRestart

Spec == Init /\ [][Next]_vars

-----------------------------------------------------------------------------
(* Safety.  `early' marks the jobs that a worker claimed between the two    *)
(* writes of stage_job; the properties that such a claim breaks are stated  *)
(* for the other jobs.                                                      *)

AttemptsOf(j) == {t \in Tokens : jobOf[t] = j}

\* A job publishes at most one run, whatever happens to its attempts: lease
\* loss, crash, orphaned child, late commit, retry
\* (scan_service.create_run's fenced transaction).
PublishOnce ==
    \A s, t \in published :
        jobOf[s] = jobOf[t] /\ jobOf[s] \notin early => s = t

\* PublishOnce without exception: the inline runner claims on the event loop
\* that stage_job occupies, so no claim is early.
PublishOnceAlways ==
    \A s, t \in published : jobOf[s] = jobOf[t] => s = t

\* A cancelled job has published nothing and never will: cancellation and
\* publication have one order (job_leases.fence_publication).
CancelledUnpublished ==
    \A j \in Jobs \ early :
        row[j].status = "CANCELLED" => AttemptsOf(j) \cap published = {}

\* The two encodings of a cancellation never disagree, although
\* update_scan_job tests only the status and job_leases tests both.
CancelFlagAgrees ==
    \A j \in Jobs : row[j].cancel <=> row[j].status = "CANCELLED"

\* A run in the database has its originals on disk: no clean-up of any
\* attempt (create_run, supervise) removes the directory of a published run.
RunHasFiles == runs \subseteq uploads

\* A COMPLETED job's row points at a run that exists.
CompletedHasRun ==
    \A j \in Jobs : row[j].status = "COMPLETED" => row[j].run \in runs

\* A queued job that may still run keeps its staged inputs: no attempt that
\* lost the lease deletes what its successor reads (process_job, supervise).
InputsKept ==
    \A j \in Jobs \ early :
        /\ stage[j] \in {"created", "done"}
        /\ row[j].status \in {"PENDING", "RUNNING", "FAILED"}
        => j \in staging

\* A PENDING row is claimable: it is not beyond the attempt limit, where
\* neither claim nor requeue_stale would ever pick it up again.
PendingIsClaimable ==
    \A j \in Jobs \ early : row[j].status = "PENDING" => Claimable(j)

\* When a supervisor has finished its clean-up, an attempt that published
\* nothing has left no upload directory (supervise's finally block).
NoOrphanUpload ==
    \A t \in Tokens : sup[t] = "done" /\ t \in uploads => t \in runs \cup doomed

\* A run appears only in the step that completes its job, and only for the
\* attempt that holds the job's lease at that moment.
FencedPublication ==
    [][\A t \in runs' \ runs :
          /\ Owns(t)
          /\ row'[jobOf[t]].status = "COMPLETED" /\ row'[jobOf[t]].run = t]_vars

\* A lease passes to another attempt only after retry or requeue_stale has
\* cleared it: a claim never takes a job from a replica that still holds it.
LeaseHandover ==
    [][\A j \in Jobs \ early' :
          row[j].lease # None /\ row'[j].lease # row[j].lease =>
             row'[j].lease = None]_vars

\* A job leaves CANCELLED, COMPLETED and DEAD only by deletion of its run;
\* the one exception is an interactive scan that reports its own failure.
TerminalIsFinal ==
    [][\A j \in Jobs \ early :
          row[j].status \in {"CANCELLED", "COMPLETED", "DEAD"} =>
             \/ row'[j].status = row[j].status
             \/ row[j].status = "COMPLETED" /\ row'[j].status = "ABSENT"
             \/ row[j].status = "DEAD" /\ stage[j] = "sync"
                                       /\ row'[j].status = "FAILED"]_vars

-----------------------------------------------------------------------------
(* Liveness, for the production deployment.                                 *)

\* Somebody refreshes the row: a supervisor watching a live child.
Attended(j) ==
    \E t \in AttemptsOf(j) : Owns(t) /\ sup[t] = "watch" /\ pc[t] \in Alive

\* The worker keeps polling, transactions end, a live supervisor takes its
\* next step, and an unattended row grows old.  Nothing is assumed of a scan:
\* it may hang, and any process may be killed.
Fairness ==
    /\ WF_vars(RequeueStale)
    /\ \A j \in Jobs :
          /\ WF_vars(\E t \in Tokens : ClaimNext(j, t))
          /\ WF_vars(Expire(j) /\ ~Attended(j))
    /\ \A t \in Tokens :
          /\ WF_vars(Commit(t) \/ Rollback(t))
          /\ WF_vars(LateCommit(t) \/ LateRollback(t))
          /\ WF_vars(Spawn(t) \/ SpawnFails(t))
          /\ WF_vars(BeatLost(t) \/ Deadline(t) \/ ChildExited(t))
          /\ WF_vars(StopChild(t)) /\ WF_vars(MarkExited(t)) /\ WF_vars(CleanUp(t))

FairSpec == Spec /\ Fairness

\* Every job that is waiting or running is eventually settled (completed,
\* failed, cancelled, dead-lettered or deleted), unless it was claimed before
\* stage_job's second write.
EventuallySettled ==
    \A j \in Jobs :
        row[j].status \in {"PENDING", "RUNNING"} ~>
            \/ row[j].status \in {"ABSENT", "FAILED", "CANCELLED", "COMPLETED", "DEAD"}
            \/ j \in early

-----------------------------------------------------------------------------
(* The queue implements the contract of JobLifecycle.                       *)

PhaseOf(j) ==
    CASE j \in early                                      -> "disowned"
      [] j \notin early /\ row[j].status = "ABSENT"       ->
            IF AttemptsOf(j) \cap published = {} THEN "none" ELSE "gone"
      [] j \notin early /\ row[j].status \in {"PENDING", "RUNNING"} -> "open"
      [] j \notin early /\ row[j].status \in {"FAILED", "DEAD"}     -> "failed"
      [] j \notin early /\ row[j].status = "CANCELLED"    -> "cancelled"
      [] j \notin early /\ row[j].status = "COMPLETED"    -> "completed"

ResultsOf(j) == IF j \in early THEN {} ELSE AttemptsOf(j) \cap published

Contract == INSTANCE JobLifecycle WITH
    Results <- Tokens,
    phase   <- [j \in Jobs |-> PhaseOf(j)],
    results <- [j \in Jobs |-> ResultsOf(j)]

\* Every step of the queue is a step of the contract or leaves the job where
\* it was: claims, requeues, fencing, crashes and clean-up are invisible.
ImplementsLifecycle == Contract!LifecycleSpec

-----------------------------------------------------------------------------
(* What the documentation says and the code does not do.                    *)

\* queue.py: "two replicas cannot take the same job"; LeaseHandover would hold
\* of every job.
LeaseHandoverAlways ==
    [][\A j \in Jobs :
          row[j].lease # None /\ row'[j].lease # row[j].lease =>
             row'[j].lease = None]_vars

=============================================================================
