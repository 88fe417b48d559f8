--------------------------- MODULE ScanJobsProofs ---------------------------
(***************************************************************************)
(* IInv is an inductive invariant of ScanJobs for all sets of jobs and     *)
(* tokens, every attempt limit and every deployment; the safety and action *)
(* properties follow from it, and so does that the queue implements        *)
(* JobLifecycle.                                                           *)
(***************************************************************************)
EXTENDS ScanJobsInvariant, TLAPS

USE ConstantsAssumption
USE DEF Status, Row, NoRow, Stages, Pcs, Sups, Alive, Used, Owns, Unlocked, Claimable,
        Goto, SupGoto, dbVars, fileVars, attVars, apiVars, histVars

-----------------------------------------------------------------------------
(* The operators that rewrite the table return a table.                    *)

\* job_leases.update keeps the table well typed.
LEMMA LeaseUpdateType ==
  ASSUME NEW t \in Tokens, NEW s \in Status, TypeOK, jobOf[t] \in Jobs,
         LeaseUpdate(t, s)
  PROVE  row' \in [Jobs -> Row]
<1>1. row[jobOf[t]] \in Row
  BY DEF TypeOK
<1>2. [row[jobOf[t]] EXCEPT !.status = s, !.fresh = TRUE] \in Row
  BY <1>1
<1>3. QED
  BY <1>2 DEF TypeOK, LeaseUpdate

\* requeue_stale keeps the table well typed.
LEMMA RequeueType ==
  ASSUME TypeOK PROVE RequeuedTable \in [Jobs -> Row]
<1>1. ASSUME NEW j \in Jobs PROVE Reclaimed(row[j]) \in Row
  <2>1. row[j] \in Row
    BY DEF TypeOK
  <2>2. QED
    BY <2>1 DEF Reclaimed
<1>2. QED
  BY <1>1 DEF TypeOK, RequeuedTable

\* claim keeps the table well typed: the limit bounds the counter.
LEMMA TakeType ==
  ASSUME NEW j \in Jobs, NEW t \in Tokens, NEW at, NEW watcher, TypeOK,
         Take(j, t, at, watcher)
  PROVE  row' \in [Jobs -> Row]
<1>1. row[j] \in Row /\ row[j].attempts + 1 \in 0..MaxAttempts
  BY DEF TypeOK, Take
<1>2. [row[j] EXCEPT !.status = "RUNNING", !.lease = t, !.fresh = TRUE,
                     !.attempts = row[j].attempts + 1] \in Row
  BY <1>1
<1>3. QED
  BY <1>2 DEF TypeOK, Take

\* A new row is well typed.
LEMMA NewRowType ==
  ASSUME NEW s \in Status PROVE [NoRow EXCEPT !.status = s] \in Row
<1>1. 0 \in 0..MaxAttempts
  OBVIOUS
<1>2. QED
  BY <1>1

\* What requeue_stale does to a row: nothing, or it takes the lease of a
\* RUNNING row that no publication holds.
LEMMA RequeuedRow ==
  ASSUME TypeOK, NEW j \in Jobs
  PROVE  \/ RequeuedTable[j] = row[j]
         \/ /\ row[j].status = "RUNNING" /\ ~row[j].cancel /\ Unlocked(j)
            /\ RequeuedTable[j].status \in {"PENDING", "DEAD"}
            /\ RequeuedTable[j].status = "PENDING" => row[j].attempts < MaxAttempts
            /\ RequeuedTable[j].attempts = row[j].attempts
            /\ ~RequeuedTable[j].cancel
            /\ RequeuedTable[j].lease = None
            /\ RequeuedTable[j].run = row[j].run
<1>1. row[j] \in Row
  BY DEF TypeOK
<1>2. QED
  BY <1>1 DEF RequeuedTable, Reclaimed, Stale

\* Publication keeps the table well typed.
LEMMA PublishType ==
  ASSUME NEW t \in Tokens, TypeOK, jobOf[t] \in Jobs, Publish(t)
  PROVE  row' \in [Jobs -> Row]
<1> DEFINE r == row[jobOf[t]]
<1>1. r \in Row
  BY DEF TypeOK
<1> DEFINE n == IF leaseOf[t] = None THEN 1 ELSE r.attempts
<1>2. n \in 0..MaxAttempts
  BY <1>1
<1> HIDE DEF n
<1>4. [r EXCEPT !.status = "COMPLETED", !.run = t, !.fresh = TRUE,
                !.attempts = n] \in Row
  BY <1>1, <1>2
<1>3. QED
  BY <1>4 DEF TypeOK, Publish, n

\* A claim preserves the invariant, whoever goes on to run the attempt.
LEMMA TakeStep ==
  ASSUME NEW j \in Jobs, NEW t \in Tokens, NEW at, NEW watcher,
         \/ at = "unspawned" /\ watcher = "starting" /\ Deployment = "production"
         \/ at \in {"load", "begin"} /\ watcher = "none",
         IInv, Take(j, t, at, watcher), tasks' \subseteq Jobs,
         UNCHANGED <<runs, tx, fileVars, stage, ahead, published>>
  PROVE  IInv'
<1> USE DEF IInv, FreshTokens, AttemptOwner, OpenTransactions, AttemptProgress,
            PublishedRuns, InteractiveJobs, StagedRows, PublishOnce,
            CancelFlagAgrees, RunHasFiles, CompletedHasRun, InputsKept,
            PendingIsClaimable, NoOrphanUpload
<1>1. row' \in [Jobs -> Row]
  BY TakeType
<1>2. TypeOK'
  BY <1>1 DEF TypeOK, Take
<1>3. FreshTokens'
  BY <1>2 DEF TypeOK, Take
<1>4. AttemptOwner'
  BY <1>2 DEF TypeOK, Take
<1>5. OpenTransactions'
  BY <1>2 DEF TypeOK, Take
<1>6. AttemptProgress'
  BY <1>2 DEF TypeOK, Take
<1>7. PublishedRuns'
  BY <1>2 DEF TypeOK, Take
<1>8. InteractiveJobs'
  BY <1>2 DEF TypeOK, Take
<1>9. StagedRows'
  BY <1>2 DEF TypeOK, Take
<1>10. PublishOnce'
  BY <1>2 DEF TypeOK, Take
<1>11. CancelFlagAgrees'
  BY <1>2 DEF TypeOK, Take
<1>12. RunHasFiles'
  BY <1>2 DEF TypeOK, Take
<1>13. CompletedHasRun'
  BY <1>2 DEF TypeOK, Take
<1>14. InputsKept'
  BY <1>2 DEF TypeOK, Take
<1>15. PendingIsClaimable'
  BY <1>2 DEF TypeOK, Take
<1>16. NoOrphanUpload'
  BY <1>2 DEF TypeOK, Take
<1> QED
  BY <1>2, <1>3, <1>4, <1>5, <1>6, <1>7, <1>8, <1>9, <1>10, <1>11, <1>12, <1>13,
     <1>14, <1>15, <1>16

\* The requests about one job preserve the invariant.
LEMMA RequestStep ==
  ASSUME NEW j \in Jobs, IInv, Request(j)
  PROVE  IInv'
<1> USE DEF IInv, FreshTokens, AttemptOwner, OpenTransactions, AttemptProgress,
            PublishedRuns, InteractiveJobs, StagedRows, PublishOnce,
            CancelFlagAgrees, RunHasFiles, CompletedHasRun, InputsKept,
            PendingIsClaimable, NoOrphanUpload
<1>1. CASE StageFiles(j)
  <2>3. TypeOK'
    BY <1>1 DEF TypeOK, StageFiles
  <2> QED
    BY <1>1, <2>3, SMTT(30) DEF TypeOK, StageFiles
<1>2. CASE StageReject(j)
  <2>3. TypeOK'
    BY <1>2 DEF TypeOK, StageReject
  <2> QED
    BY <1>2, <2>3, SMTT(30) DEF TypeOK, StageReject
<1>3. CASE StageCreate(j)
  <2>1. [NoRow EXCEPT !.status = "PENDING"] \in Row
    BY NewRowType
  <2>2. row' \in [Jobs -> Row]
    BY <1>3, <2>1 DEF TypeOK, StageCreate
  <2>3. TypeOK'
    BY <1>3, <2>2 DEF TypeOK, StageCreate, Existing
  <2> QED
    BY <1>3, <2>3, SMTT(30) DEF TypeOK, StageCreate, Existing
<1>4. CASE StageUpdate(j)
  <2>1. row[j] \in Row
    BY DEF TypeOK
  <2>2. row' \in [Jobs -> Row]
    BY <1>4, <2>1 DEF TypeOK, StageUpdate
  <2>3. TypeOK'
    BY <1>4, <2>2 DEF TypeOK, StageUpdate
  <2> QED
    BY <1>4, <2>3, SMTT(30) DEF TypeOK, StageUpdate
<1>5. CASE StageAbandon(j)
  <2>3. TypeOK'
    BY <1>5 DEF TypeOK, StageAbandon
  <2> QED
    BY <1>5, <2>3, SMTT(30) DEF TypeOK, StageAbandon
<1>6. CASE Retry(j)
  <2>1. row[j] \in Row
    BY DEF TypeOK
  <2>2. row' \in [Jobs -> Row]
    BY <1>6, <2>1 DEF TypeOK, Retry
  <2>3. TypeOK'
    BY <1>6, <2>2 DEF TypeOK, Retry
  <2> QED
    BY <1>6, <2>3, SMTT(30) DEF TypeOK, Retry
<1>7. CASE Cancel(j)
  <2>1. row[j] \in Row
    BY DEF TypeOK
  <2>2. row' \in [Jobs -> Row]
    BY <1>7, <2>1 DEF TypeOK, Cancel
  <2>3. TypeOK'
    BY <1>7, <2>2 DEF TypeOK, Cancel
  <2> QED
    BY <1>7, <2>3, SMTT(30) DEF TypeOK, Cancel
<1>8. CASE Expire(j)
  <2>1. row[j] \in Row
    BY DEF TypeOK
  <2>2. row' \in [Jobs -> Row]
    BY <1>8, <2>1 DEF TypeOK, Expire
  <2>3. TypeOK'
    BY <1>8, <2>2 DEF TypeOK, Expire
  <2> QED
    BY <1>8, <2>3, SMTT(30) DEF TypeOK, Expire
<1>9. CASE DropTask(j)
  <2>3. TypeOK'
    BY <1>9 DEF TypeOK, DropTask
  <2> QED
    BY <1>9, <2>3, SMTT(30) DEF TypeOK, DropTask
<1> QED
  BY <1>1, <1>2, <1>3, <1>4, <1>5, <1>6, <1>7, <1>8, <1>9 DEF Request

\* Starting an attempt preserves the invariant.
LEMMA StartStep ==
  ASSUME NEW j \in Jobs, NEW t \in Tokens, IInv, Start(j, t)
  PROVE  IInv'
<1> USE DEF IInv, FreshTokens, AttemptOwner, OpenTransactions, AttemptProgress,
            PublishedRuns, InteractiveJobs, StagedRows, PublishOnce,
            CancelFlagAgrees, RunHasFiles, CompletedHasRun, InputsKept,
            PendingIsClaimable, NoOrphanUpload
<1>1. CASE SyncStart(j, t)
  <2>1. [NoRow EXCEPT !.status = "RUNNING"] \in Row
    BY NewRowType
  <2>2. row' \in [Jobs -> Row]
    BY <1>1, <2>1 DEF TypeOK, SyncStart
  <2>3. TypeOK'
    BY <1>1, <2>2 DEF TypeOK, SyncStart, Existing
  <2> QED
    BY <1>1, <2>3, SMTT(30) DEF TypeOK, SyncStart, Existing
<1>2. CASE ClaimNext(j, t)
  <2>1. CASE Deployment = "production"
    BY <1>2, <2>1, TakeStep DEF ClaimNext, TypeOK
  <2>2. CASE Deployment # "production"
    BY <1>2, <2>2, TakeStep DEF ClaimNext, TypeOK
  <2> QED
    BY <2>1, <2>2
<1>3. CASE ClaimTask(j, t)
  BY <1>3, TakeStep DEF ClaimTask, TypeOK
<1> QED
  BY <1>1, <1>2, <1>3 DEF Start

\* Every step of process_job and create_run preserves the invariant.
LEMMA AttemptStep ==
  ASSUME NEW t \in Tokens, IInv, Attempt(t)
  PROVE  IInv'
<1> USE DEF IInv, FreshTokens, AttemptOwner, OpenTransactions, AttemptProgress,
            PublishedRuns, InteractiveJobs, StagedRows, PublishOnce,
            CancelFlagAgrees, RunHasFiles, CompletedHasRun, InputsKept,
            PendingIsClaimable, NoOrphanUpload
<1>1. CASE LoadJob(t)
  <2>3. TypeOK'
    BY <1>1 DEF TypeOK, LoadJob
  <2> QED
    BY <1>1, <2>3, SMTT(30) DEF TypeOK, LoadJob
<1>2. CASE OpenInputs(t)
  <2>1. jobOf[t] \in Jobs
    BY <1>2 DEF OpenInputs, AttemptOwner, AttemptProgress
  <2>2. row' \in [Jobs -> Row]
    BY <1>2, <2>1, LeaseUpdateType DEF OpenInputs
  <2>3. TypeOK'
    BY <1>2, <2>2 DEF TypeOK, OpenInputs, LeaseUpdate
  <2> QED
    BY <1>2, <2>3, SMTT(30) DEF TypeOK, OpenInputs, LeaseUpdate
<1>3. CASE EnterRefused(t)
  <2>3. TypeOK'
    BY <1>3 DEF TypeOK, EnterRefused
  <2> QED
    BY <1>3, <2>3, SMTT(30) DEF TypeOK, EnterRefused
<1>4. CASE Enter(t)
  <2>1. jobOf[t] \in Jobs
    BY <1>4 DEF Enter, AttemptOwner, AttemptProgress
  <2>2. row' \in [Jobs -> Row]
    BY <1>4, <2>1, LeaseUpdateType DEF Enter
  <2>3. TypeOK'
    BY <1>4, <2>2 DEF TypeOK, Enter, LeaseUpdate
  <2> QED
    BY <1>4, <2>3, SMTT(30) DEF TypeOK, Enter, LeaseUpdate
<1>5. CASE RejectLeased(t)
  <2>1. jobOf[t] \in Jobs
    BY <1>5 DEF RejectLeased, AttemptOwner, AttemptProgress
  <2>2. row' \in [Jobs -> Row]
    BY <1>5, <2>1, LeaseUpdateType DEF RejectLeased
  <2>3. TypeOK'
    BY <1>5, <2>2 DEF TypeOK, RejectLeased, LeaseUpdate
  <2> QED
    BY <1>5, <2>3, SMTT(30) DEF TypeOK, RejectLeased, LeaseUpdate
<1>6. CASE RejectSync(t)
  <2>1. row[jobOf[t]] \in Row /\ 1 \in 0..MaxAttempts
    BY <1>6 DEF TypeOK, RejectSync
  <2>0. [row[jobOf[t]] EXCEPT !.status = "FAILED", !.attempts = 1, !.fresh = TRUE] \in Row
    BY <2>1
  <2>2. row' \in [Jobs -> Row]
    BY <1>6, <2>0 DEF TypeOK, RejectSync
  <2>3. TypeOK'
    BY <1>6, <2>2 DEF TypeOK, RejectSync
  <2>4. FreshTokens'
    BY <1>6, <2>3 DEF TypeOK, RejectSync
  <2>5. AttemptOwner'
    BY <1>6, <2>3 DEF TypeOK, RejectSync
  <2>6. OpenTransactions'
    BY <1>6, <2>3 DEF TypeOK, RejectSync
  <2>7. AttemptProgress'
    BY <1>6, <2>3 DEF TypeOK, RejectSync
  <2>8. PublishedRuns'
    BY <1>6, <2>3 DEF TypeOK, RejectSync
  <2>9. InteractiveJobs'
    BY <1>6, <2>3 DEF TypeOK, RejectSync
  <2>10. StagedRows'
    BY <1>6, <2>3 DEF TypeOK, RejectSync
  <2>11. PublishOnce'
    BY <1>6, <2>3 DEF TypeOK, RejectSync
  <2>12. CancelFlagAgrees'
    BY <1>6, <2>3 DEF TypeOK, RejectSync
  <2>13. RunHasFiles'
    BY <1>6, <2>3 DEF TypeOK, RejectSync
  <2>14. CompletedHasRun'
    BY <1>6, <2>3 DEF TypeOK, RejectSync
  <2>15. InputsKept'
    BY <1>6, <2>3 DEF TypeOK, RejectSync
  <2>16. PendingIsClaimable'
    BY <1>6, <2>3 DEF TypeOK, RejectSync
  <2>17. NoOrphanUpload'
    BY <1>6, <2>3 DEF TypeOK, RejectSync
  <2> QED
    BY <2>3, <2>4, <2>5, <2>6, <2>7, <2>8, <2>9, <2>10, <2>11, <2>12, <2>13, <2>14, <2>15, <2>16, <2>17
<1>7. CASE ScanError(t)
  <2>3. TypeOK'
    BY <1>7 DEF TypeOK, ScanError, AfterError
  <2> QED
    BY <1>7, <2>3, SMTT(30) DEF TypeOK, ScanError, AfterError
<1>8. CASE Fence(t)
  <2>3. TypeOK'
    BY <1>8 DEF TypeOK, Fence
  <2>4. FreshTokens'
    BY <1>8, <2>3 DEF TypeOK, Fence
  <2>5. AttemptOwner'
    BY <1>8, <2>3 DEF TypeOK, Fence
  <2>6. OpenTransactions'
    BY <1>8, <2>3 DEF TypeOK, Fence
  <2>7. AttemptProgress'
    BY <1>8, <2>3 DEF TypeOK, Fence
  <2>8. PublishedRuns'
    BY <1>8, <2>3 DEF TypeOK, Fence
  <2>9. InteractiveJobs'
    BY <1>8, <2>3 DEF TypeOK, Fence
  <2>10. StagedRows'
    BY <1>8, <2>3 DEF TypeOK, Fence
  <2>11. PublishOnce'
    BY <1>8, <2>3 DEF TypeOK, Fence
  <2>12. CancelFlagAgrees'
    BY <1>8, <2>3 DEF TypeOK, Fence
  <2>13. RunHasFiles'
    BY <1>8, <2>3 DEF TypeOK, Fence
  <2>14. CompletedHasRun'
    BY <1>8, <2>3 DEF TypeOK, Fence
  <2>15. InputsKept'
    BY <1>8, <2>3 DEF TypeOK, Fence
  <2>16. PendingIsClaimable'
    BY <1>8, <2>3 DEF TypeOK, Fence
  <2>17. NoOrphanUpload'
    BY <1>8, <2>3 DEF TypeOK, Fence
  <2> QED
    BY <2>3, <2>4, <2>5, <2>6, <2>7, <2>8, <2>9, <2>10, <2>11, <2>12, <2>13, <2>14, <2>15, <2>16, <2>17
<1>9. CASE FenceLost(t)
  <2>3. TypeOK'
    BY <1>9 DEF TypeOK, FenceLost
  <2> QED
    BY <1>9, <2>3, SMTT(30) DEF TypeOK, FenceLost
<1>10. CASE Commit(t)
  <2>1. jobOf[t] \in Jobs
    BY <1>10 DEF Commit, AttemptOwner
  <2>2. row' \in [Jobs -> Row]
    BY <1>10, <2>1, PublishType DEF Commit
  <2>3. TypeOK'
    BY <1>10, <2>2 DEF TypeOK, Commit, Publish
  <2>4. FreshTokens'
    BY <1>10, <2>3 DEF TypeOK, Commit, Publish
  <2>5. AttemptOwner'
    BY <1>10, <2>3 DEF TypeOK, Commit, Publish
  <2>6. OpenTransactions'
    BY <1>10, <2>3 DEF TypeOK, Commit, Publish
  <2>7. AttemptProgress'
    BY <1>10, <2>3 DEF TypeOK, Commit, Publish
  <2>8. PublishedRuns'
    BY <1>10, <2>3 DEF TypeOK, Commit, Publish
  <2>9. InteractiveJobs'
    BY <1>10, <2>3 DEF TypeOK, Commit, Publish
  <2>10. StagedRows'
    BY <1>10, <2>3 DEF TypeOK, Commit, Publish
  <2>11. PublishOnce'
    BY <1>10, <2>3 DEF TypeOK, Commit, Publish
  <2>12. CancelFlagAgrees'
    BY <1>10, <2>3 DEF TypeOK, Commit, Publish
  <2>13. RunHasFiles'
    BY <1>10, <2>3 DEF TypeOK, Commit, Publish
  <2>14. CompletedHasRun'
    BY <1>10, <2>3 DEF TypeOK, Commit, Publish
  <2>15. InputsKept'
    BY <1>10, <2>3 DEF TypeOK, Commit, Publish
  <2>16. PendingIsClaimable'
    BY <1>10, <2>3 DEF TypeOK, Commit, Publish
  <2>17. NoOrphanUpload'
    BY <1>10, <2>3 DEF TypeOK, Commit, Publish
  <2> QED
    BY <2>3, <2>4, <2>5, <2>6, <2>7, <2>8, <2>9, <2>10, <2>11, <2>12, <2>13, <2>14, <2>15, <2>16, <2>17
<1>11. CASE Rollback(t)
  <2>3. TypeOK'
    BY <1>11 DEF TypeOK, Rollback, AfterError
  <2> QED
    BY <1>11, <2>3, SMTT(30) DEF TypeOK, Rollback, AfterError
<1>12. CASE Finish(t)
  <2>3. TypeOK'
    BY <1>12 DEF TypeOK, Finish
  <2> QED
    BY <1>12, <2>3, SMTT(30) DEF TypeOK, Finish
<1>13. CASE HandleLost(t)
  <2>3. TypeOK'
    BY <1>13 DEF TypeOK, HandleLost
  <2> QED
    BY <1>13, <2>3, SMTT(30) DEF TypeOK, HandleLost
<1>14. CASE HandleError(t)
  <2>1. jobOf[t] \in Jobs
    BY <1>14 DEF HandleError, AttemptOwner, AttemptProgress
  <2>2. row' \in [Jobs -> Row]
    BY <1>14, <2>1, LeaseUpdateType DEF HandleError
  <2>3. TypeOK'
    BY <1>14, <2>2 DEF TypeOK, HandleError, LeaseUpdate
  <2> QED
    BY <1>14, <2>3, SMTT(30) DEF TypeOK, HandleError, LeaseUpdate
<1>15. CASE Crash(t)
  <2>3. TypeOK'
    BY <1>15 DEF TypeOK, Crash
  <2> QED
    BY <1>15, <2>3, SMTT(30) DEF TypeOK, Crash
<1>16. CASE LateCommit(t)
  <2>1. jobOf[t] \in Jobs
    BY <1>16 DEF LateCommit, AttemptOwner
  <2>2. row' \in [Jobs -> Row]
    BY <1>16, <2>1, PublishType DEF LateCommit
  <2>3. TypeOK'
    BY <1>16, <2>2 DEF TypeOK, LateCommit, Publish
  <2>4. FreshTokens'
    BY <1>16, <2>3 DEF TypeOK, LateCommit, Publish
  <2>5. AttemptOwner'
    BY <1>16, <2>3 DEF TypeOK, LateCommit, Publish
  <2>6. OpenTransactions'
    BY <1>16, <2>3 DEF TypeOK, LateCommit, Publish
  <2>7. AttemptProgress'
    BY <1>16, <2>3 DEF TypeOK, LateCommit, Publish
  <2>8. PublishedRuns'
    BY <1>16, <2>3 DEF TypeOK, LateCommit, Publish
  <2>9. InteractiveJobs'
    BY <1>16, <2>3 DEF TypeOK, LateCommit, Publish
  <2>10. StagedRows'
    BY <1>16, <2>3 DEF TypeOK, LateCommit, Publish
  <2>11. PublishOnce'
    BY <1>16, <2>3 DEF TypeOK, LateCommit, Publish
  <2>12. CancelFlagAgrees'
    BY <1>16, <2>3 DEF TypeOK, LateCommit, Publish
  <2>13. RunHasFiles'
    BY <1>16, <2>3 DEF TypeOK, LateCommit, Publish
  <2>14. CompletedHasRun'
    BY <1>16, <2>3 DEF TypeOK, LateCommit, Publish
  <2>15. InputsKept'
    BY <1>16, <2>3 DEF TypeOK, LateCommit, Publish
  <2>16. PendingIsClaimable'
    BY <1>16, <2>3 DEF TypeOK, LateCommit, Publish
  <2>17. NoOrphanUpload'
    BY <1>16, <2>3 DEF TypeOK, LateCommit, Publish
  <2> QED
    BY <2>3, <2>4, <2>5, <2>6, <2>7, <2>8, <2>9, <2>10, <2>11, <2>12, <2>13, <2>14, <2>15, <2>16, <2>17
<1>17. CASE LateRollback(t)
  <2>3. TypeOK'
    BY <1>17 DEF TypeOK, LateRollback
  <2> QED
    BY <1>17, <2>3, SMTT(30) DEF TypeOK, LateRollback
<1> QED
  BY <1>1, <1>2, <1>3, <1>4, <1>5, <1>6, <1>7, <1>8, <1>9, <1>10, <1>11,
     <1>12, <1>13, <1>14, <1>15, <1>16, <1>17 DEF Attempt

\* Every step of supervise preserves the invariant.
LEMMA SuperviseStep ==
  ASSUME NEW t \in Tokens, IInv, Supervise(t)
  PROVE  IInv'
<1> USE DEF IInv, FreshTokens, AttemptOwner, OpenTransactions, AttemptProgress,
            PublishedRuns, InteractiveJobs, StagedRows, PublishOnce,
            CancelFlagAgrees, RunHasFiles, CompletedHasRun, InputsKept,
            PendingIsClaimable, NoOrphanUpload
<1>1. CASE Spawn(t)
  <2>3. TypeOK'
    BY <1>1 DEF TypeOK, Spawn
  <2> QED
    BY <1>1, <2>3, SMTT(30) DEF TypeOK, Spawn
<1>2. CASE SpawnFails(t)
  <2>1. jobOf[t] \in Jobs
    BY <1>2 DEF SpawnFails, AttemptOwner, AttemptProgress
  <2>2. row' \in [Jobs -> Row]
    BY <1>2, <2>1, LeaseUpdateType DEF SpawnFails
  <2>3. TypeOK'
    BY <1>2, <2>2 DEF TypeOK, SpawnFails, LeaseUpdate
  <2> QED
    BY <1>2, <2>3, SMTT(30) DEF TypeOK, SpawnFails, LeaseUpdate
<1>3. CASE Beat(t)
  <2>1. jobOf[t] \in Jobs
    BY <1>3 DEF Beat, AttemptOwner, AttemptProgress
  <2>2. row' \in [Jobs -> Row]
    BY <1>3, <2>1, LeaseUpdateType DEF Beat
  <2>3. TypeOK'
    BY <1>3, <2>2 DEF TypeOK, Beat, LeaseUpdate
  <2> QED
    BY <1>3, <2>3, SMTT(30) DEF TypeOK, Beat, LeaseUpdate
<1>4. CASE BeatLost(t)
  <2>3. TypeOK'
    BY <1>4 DEF TypeOK, BeatLost
  <2> QED
    BY <1>4, <2>3, SMTT(30) DEF TypeOK, BeatLost
<1>5. CASE Deadline(t)
  <2>1. jobOf[t] \in Jobs
    BY <1>5 DEF Deadline, AttemptOwner, AttemptProgress
  <2>2. row' \in [Jobs -> Row]
    BY <1>5, <2>1, LeaseUpdateType DEF Deadline
  <2>3. TypeOK'
    BY <1>5, <2>2 DEF TypeOK, Deadline, LeaseUpdate
  <2> QED
    BY <1>5, <2>3, SMTT(30) DEF TypeOK, Deadline, LeaseUpdate
<1>6. CASE StopChild(t)
  <2>3. TypeOK'
    BY <1>6 DEF TypeOK, StopChild
  <2> QED
    BY <1>6, <2>3, SMTT(30) DEF TypeOK, StopChild
<1>7. CASE ChildExited(t)
  <2>3. TypeOK'
    BY <1>7 DEF TypeOK, ChildExited
  <2> QED
    BY <1>7, <2>3, SMTT(30) DEF TypeOK, ChildExited
<1>8. CASE MarkExited(t)
  <2>1. jobOf[t] \in Jobs
    BY <1>8 DEF MarkExited, AttemptOwner, AttemptProgress
  <2>2. row' \in [Jobs -> Row]
    BY <1>8, <2>1, LeaseUpdateType DEF MarkExited
  <2>3. TypeOK'
    BY <1>8, <2>2 DEF TypeOK, MarkExited, LeaseUpdate
  <2> QED
    BY <1>8, <2>3, SMTT(30) DEF TypeOK, MarkExited, LeaseUpdate
<1>9. CASE CleanUp(t)
  <2>3. TypeOK'
    BY <1>9 DEF TypeOK, CleanUp
  <2> QED
    BY <1>9, <2>3, SMTT(30) DEF TypeOK, CleanUp
<1>10. CASE SupCrash(t)
  <2>3. TypeOK'
    BY <1>10 DEF TypeOK, SupCrash
  <2> QED
    BY <1>10, <2>3, SMTT(30) DEF TypeOK, SupCrash
<1> QED
  BY <1>1, <1>2, <1>3, <1>4, <1>5, <1>6, <1>7, <1>8, <1>9, <1>10 DEF Supervise

\* Deleting a run preserves the invariant.
LEMMA DeleteStep ==
  ASSUME NEW t \in Tokens, IInv, DeleteRun(t) \/ DeleteFiles(t)
  PROVE  IInv'
<1> USE DEF IInv, FreshTokens, AttemptOwner, OpenTransactions, AttemptProgress,
            PublishedRuns, InteractiveJobs, StagedRows, PublishOnce,
            CancelFlagAgrees, RunHasFiles, CompletedHasRun, InputsKept,
            PendingIsClaimable, NoOrphanUpload
<1>1. CASE DeleteRun(t)
  <2>3. TypeOK'
    BY <1>1 DEF TypeOK, DeleteRun, TableWithout
  <2> QED
    BY <1>1, <2>3, SMTT(30) DEF TypeOK, DeleteRun, TableWithout
<1>2. CASE DeleteFiles(t)
  <2>3. TypeOK'
    BY <1>2 DEF TypeOK, DeleteFiles
  <2> QED
    BY <1>2, <2>3, SMTT(30) DEF TypeOK, DeleteFiles
<1> QED
  BY <1>1, <1>2 DEF IInv

\* Recovery of stale jobs preserves the invariant.
LEMMA RecoveryStep ==
  ASSUME IInv, RequeueStale \/ ApiRestart
  PROVE  IInv'
<1> DEFINE RowOutcome(j) ==
       \/ row'[j] = row[j]
       \/ /\ row[j].status = "RUNNING" /\ ~row[j].cancel /\ Unlocked(j)
          /\ row'[j].status \in {"PENDING", "DEAD"}
          /\ row'[j].status = "PENDING" => row[j].attempts < MaxAttempts
          /\ row'[j].attempts = row[j].attempts
          /\ ~row'[j].cancel /\ row'[j].lease = None
          /\ row'[j].run = row[j].run
<1> USE DEF IInv, FreshTokens, AttemptOwner, OpenTransactions, AttemptProgress,
            PublishedRuns, InteractiveJobs, StagedRows, PublishOnce,
            CancelFlagAgrees, RunHasFiles, CompletedHasRun, InputsKept,
            PendingIsClaimable, NoOrphanUpload
<1>1. CASE RequeueStale
  <2>1. row' \in [Jobs -> Row]
    BY <1>1, RequeueType DEF RequeueStale
  <2>2. TypeOK'
    BY <1>1, <2>1 DEF TypeOK, RequeueStale
  <2>3. ASSUME NEW j \in Jobs
        PROVE  RowOutcome(j)
    BY <1>1, RequeuedRow DEF RequeueStale
  <2>4. FreshTokens'
    BY <1>1, <2>2, <2>3 DEF TypeOK, RequeueStale
  <2>5. AttemptOwner'
    BY <1>1, <2>2, <2>3 DEF TypeOK, RequeueStale
  <2>6. OpenTransactions'
    BY <1>1, <2>2, <2>3 DEF TypeOK, RequeueStale
  <2>7. AttemptProgress'
    BY <1>1, <2>2, <2>3 DEF TypeOK, RequeueStale
  <2>8. PublishedRuns'
    BY <1>1, <2>2, <2>3 DEF TypeOK, RequeueStale
  <2>9. InteractiveJobs'
    BY <1>1, <2>2, <2>3 DEF TypeOK, RequeueStale
  <2>10. StagedRows'
    BY <1>1, <2>2, <2>3 DEF TypeOK, RequeueStale
  <2>11. PublishOnce'
    BY <1>1, <2>2, <2>3 DEF TypeOK, RequeueStale
  <2>12. CancelFlagAgrees'
    BY <1>1, <2>2, <2>3 DEF TypeOK, RequeueStale
  <2>13. RunHasFiles'
    BY <1>1, <2>2, <2>3 DEF TypeOK, RequeueStale
  <2>14. CompletedHasRun'
    BY <1>1, <2>2, <2>3 DEF TypeOK, RequeueStale
  <2>15. InputsKept'
    BY <1>1, <2>2, <2>3 DEF TypeOK, RequeueStale
  <2>16. PendingIsClaimable'
    BY <1>1, <2>2, <2>3 DEF TypeOK, RequeueStale
  <2>17. NoOrphanUpload'
    BY <1>1, <2>2, <2>3 DEF TypeOK, RequeueStale
  <2> QED
    BY <2>2, <2>4, <2>5, <2>6, <2>7, <2>8, <2>9, <2>10, <2>11, <2>12, <2>13,
       <2>14, <2>15, <2>16, <2>17
<1>2. CASE ApiRestart
  <2>1. row' \in [Jobs -> Row]
    BY <1>2, RequeueType DEF ApiRestart
  <2>2. TypeOK'
    BY <1>2, <2>1 DEF TypeOK, ApiRestart
  <2>3. ASSUME NEW j \in Jobs
        PROVE  RowOutcome(j)
    BY <1>2, RequeuedRow DEF ApiRestart
  <2>4. FreshTokens'
    BY <1>2, <2>2, <2>3 DEF TypeOK, ApiRestart
  <2>5. AttemptOwner'
    BY <1>2, <2>2, <2>3, SMTT(60) DEF TypeOK, ApiRestart
  <2>6. OpenTransactions'
    BY <1>2, <2>2, <2>3 DEF TypeOK, ApiRestart
  <2>7. AttemptProgress'
    BY <1>2, <2>2, <2>3, SMTT(40) DEF TypeOK, ApiRestart
  <2>8. PublishedRuns'
    BY <1>2, <2>2, <2>3 DEF TypeOK, ApiRestart
  <2>9. InteractiveJobs'
    BY <1>2, <2>2, <2>3 DEF TypeOK, ApiRestart
  <2>10. StagedRows'
    BY <1>2, <2>2, <2>3 DEF TypeOK, ApiRestart
  <2>11. PublishOnce'
    BY <1>2, <2>2, <2>3 DEF TypeOK, ApiRestart
  <2>12. CancelFlagAgrees'
    BY <1>2, <2>2, <2>3 DEF TypeOK, ApiRestart
  <2>13. RunHasFiles'
    BY <1>2, <2>2, <2>3 DEF TypeOK, ApiRestart
  <2>14. CompletedHasRun'
    BY <1>2, <2>2, <2>3 DEF TypeOK, ApiRestart
  <2>15. InputsKept'
    BY <1>2, <2>2, <2>3 DEF TypeOK, ApiRestart
  <2>16. PendingIsClaimable'
    BY <1>2, <2>2, <2>3 DEF TypeOK, ApiRestart
  <2>17. NoOrphanUpload'
    BY <1>2, <2>2, <2>3 DEF TypeOK, ApiRestart
  <2> QED
    BY <2>2, <2>4, <2>5, <2>6, <2>7, <2>8, <2>9, <2>10, <2>11, <2>12, <2>13,
       <2>14, <2>15, <2>16, <2>17
<1> QED
  BY <1>1, <1>2 DEF IInv

-----------------------------------------------------------------------------

\* The initial state satisfies the invariant.
LEMMA InitInv == Init => IInv
<1> SUFFICES ASSUME Init PROVE IInv
  OBVIOUS
<1>1. TypeOK
  BY DEF Init, TypeOK
<1>2. QED
  BY <1>1 DEF Init, IInv, FreshTokens, AttemptOwner, OpenTransactions,
     AttemptProgress, PublishedRuns, InteractiveJobs, StagedRows, PublishOnce,
     CancelFlagAgrees, RunHasFiles, CompletedHasRun, InputsKept,
     PendingIsClaimable, NoOrphanUpload

\* A step that changes nothing preserves the invariant.
LEMMA StutterInv == IInv /\ UNCHANGED vars => IInv'
BY DEF vars, IInv, TypeOK, FreshTokens, AttemptOwner, OpenTransactions,
   AttemptProgress, PublishedRuns, InteractiveJobs, StagedRows, PublishOnce,
   CancelFlagAgrees, RunHasFiles, CompletedHasRun, InputsKept,
   PendingIsClaimable, NoOrphanUpload

\* The conjunction IInv is an invariant of the queue: for any number of jobs,
\* workers and attempts, in all three deployments.
THEOREM Invariance == Spec => []IInv
<1>1. Init => IInv
  BY InitInv
<1>2. IInv /\ [Next]_vars => IInv'
  <2> SUFFICES ASSUME IInv, [Next]_vars PROVE IInv'
    OBVIOUS
  <2>1. ASSUME NEW j \in Jobs, Request(j) PROVE IInv'
    BY <2>1, RequestStep
  <2>2. ASSUME NEW j \in Jobs, NEW t \in Tokens, Start(j, t) PROVE IInv'
    BY <2>2, StartStep
  <2>3. ASSUME NEW t \in Tokens, Attempt(t) PROVE IInv'
    BY <2>3, AttemptStep
  <2>4. ASSUME NEW t \in Tokens, Supervise(t) PROVE IInv'
    BY <2>4, SuperviseStep
  <2>5. ASSUME NEW t \in Tokens, DeleteRun(t) \/ DeleteFiles(t) PROVE IInv'
    BY <2>5, DeleteStep
  <2>6. CASE RequeueStale \/ ApiRestart
    BY <2>6, RecoveryStep
  <2>7. CASE UNCHANGED vars
    BY <2>7, StutterInv
  <2> QED
    BY <2>1, <2>2, <2>3, <2>4, <2>5, <2>6, <2>7 DEF Next
<1>3. QED
  BY <1>1, <1>2, PTL DEF Spec

\* The variables keep their types; in particular the attempt counter never
\* passes MaxAttempts.
THEOREM TypeCorrect == Spec => []TypeOK
<1>1. IInv => TypeOK
  BY DEF IInv
<1>2. QED
  BY <1>1, Invariance, PTL

\* A job claimed only after its request was stored publishes at most one run.
THEOREM AtMostOneRun == Spec => []PublishOnce
<1>1. IInv => PublishOnce
  BY DEF IInv
<1>2. QED
  BY <1>1, Invariance, PTL

\* A cancelled job has no published run: its runs would show in the row.
THEOREM CancellationHolds == Spec => []CancelledUnpublished
<1>1. IInv => CancelledUnpublished
  BY DEF IInv, PublishedRuns, CancelledUnpublished, AttemptsOf
<1>2. QED
  BY <1>1, Invariance, PTL

\* The status and the cancel flag of a row never disagree, whichever of the two a
\* writer tests.
THEOREM CancelEncodingsAgree == Spec => []CancelFlagAgrees
<1>1. IInv => CancelFlagAgrees
  BY DEF IInv
<1>2. QED
  BY <1>1, Invariance, PTL

\* Every run in the database has its upload directory.
THEOREM FilesOfRuns == Spec => []RunHasFiles
<1>1. IInv => RunHasFiles
  BY DEF IInv
<1>2. QED
  BY <1>1, Invariance, PTL

\* A COMPLETED row points at an existing run.
THEOREM RunsOfCompleted == Spec => []CompletedHasRun
<1>1. IInv => CompletedHasRun
  BY DEF IInv
<1>2. QED
  BY <1>1, Invariance, PTL

\* A queued job that may still run keeps its staged inputs.
THEOREM InputsSurvive == Spec => []InputsKept
<1>1. IInv => InputsKept
  BY DEF IInv
<1>2. QED
  BY <1>1, Invariance, PTL

\* A finished supervisor leaves no directory of an unpublished attempt.
THEOREM SupervisorCleansUp == Spec => []NoOrphanUpload
<1>1. IInv => NoOrphanUpload
  BY DEF IInv
<1>2. QED
  BY <1>1, Invariance, PTL

\* No PENDING row is out of every worker's reach.
THEOREM PendingCanRun == Spec => []PendingIsClaimable
<1>1. IInv => PendingIsClaimable
  BY DEF IInv
<1>2. QED
  BY <1>1, Invariance, PTL

-----------------------------------------------------------------------------
(* Action properties.                                                      *)

\* Only the two commits of a publication transaction add a run.
LEMMA RunsGrowByPublication ==
  ASSUME [Next]_vars
  PROVE  runs' \subseteq runs \/ \E t \in Tokens : Commit(t) \/ LateCommit(t)
<1>1. ASSUME NEW j \in Jobs, Request(j) PROVE runs' = runs
  BY <1>1 DEF Request, StageFiles, StageReject, StageCreate, StageUpdate,
     StageAbandon, Retry, Cancel, Expire, DropTask
<1>2. ASSUME NEW j \in Jobs, NEW t \in Tokens, Start(j, t) PROVE runs' = runs
  BY <1>2 DEF Start, SyncStart, ClaimNext, ClaimTask
<1>3. ASSUME NEW t \in Tokens, Attempt(t)
      PROVE  runs' = runs \/ Commit(t) \/ LateCommit(t)
  BY <1>3 DEF Attempt, LoadJob, OpenInputs, EnterRefused, Enter, RejectLeased, RejectSync,
     ScanError, Fence, FenceLost, Rollback, Finish, HandleLost, HandleError,
     Crash, LateRollback
<1>4. ASSUME NEW t \in Tokens, Supervise(t) PROVE runs' = runs
  BY <1>4 DEF Supervise, Spawn, SpawnFails, Beat, BeatLost, Deadline, StopChild,
     ChildExited, MarkExited, CleanUp, SupCrash
<1>5. ASSUME NEW t \in Tokens, DeleteRun(t) \/ DeleteFiles(t)
      PROVE  runs' \subseteq runs
  BY <1>5 DEF DeleteRun, DeleteFiles
<1>6. CASE RequeueStale \/ ApiRestart
  BY <1>6 DEF RequeueStale, ApiRestart
<1>7. CASE UNCHANGED vars
  BY <1>7 DEF vars
<1> QED
  BY <1>1, <1>2, <1>3, <1>4, <1>5, <1>6, <1>7 DEF Next

\* A run appears only with the completion of its job, by the attempt that owns
\* the job when it commits: the row lock carries the fence to the commit.
THEOREM PublicationIsFenced == Spec => FencedPublication
<1>1. IInv /\ [Next]_vars =>
         [\A t \in runs' \ runs :
             /\ Owns(t)
             /\ row'[jobOf[t]].status = "COMPLETED" /\ row'[jobOf[t]].run = t]_vars
  <2> SUFFICES ASSUME IInv, [Next]_vars,
                      NEW s \in Tokens, Commit(s) \/ LateCommit(s),
                      NEW t \in runs' \ runs
               PROVE  /\ Owns(t)
                      /\ row'[jobOf[t]].status = "COMPLETED"
                      /\ row'[jobOf[t]].run = t
    BY RunsGrowByPublication
  <2>1. t = s /\ Publish(s)
    BY DEF Commit, LateCommit, Publish
  <2>2. s \in tx /\ Owns(s) /\ jobOf[s] \in Jobs
    BY DEF IInv, OpenTransactions, AttemptOwner, Commit, LateCommit
  <2>3. row[jobOf[s]] \in Row /\ row \in [Jobs -> Row]
    BY <2>2 DEF IInv, TypeOK
  <2> QED
    BY <2>1, <2>2, <2>3 DEF Publish
<1>2. QED
  BY <1>1, Invariance, PTL DEF Spec, FencedPublication

-----------------------------------------------------------------------------
(* What a step does to the table.  The actions fall into a few groups, and *)
(* the theorems below go through the groups instead of the actions.        *)

History == <<jobOf, published, early>>

\* The row is left alone.
Quiet == UNCHANGED <<row, History>>

\* An attempt claims a job.
Taken(j, t) ==
    /\ \E at \in Pcs, watcher \in Sups : Take(j, t, at, watcher)
    /\ published' = published /\ (Deployment = "inline" => stage[j] # "created")

\* An attempt reports with its lease.
Reported(t) == (LeaseUpdate(t, "RUNNING") \/ LeaseUpdate(t, "FAILED")) /\ UNCHANGED History

LEMMA StepsOnRows ==
  ASSUME IInv, [Next]_vars
  PROVE  \/ Quiet
         \/ \E j \in Jobs : StageCreate(j) \/ StageUpdate(j) \/ Retry(j) \/ Cancel(j) \/ Expire(j)
         \/ \E j \in Jobs, t \in Tokens : SyncStart(j, t) \/ Taken(j, t)
         \/ \E t \in Tokens : pc[t] # "unused" /\ Reported(t)
         \/ \E t \in Tokens : RejectSync(t) \/ Commit(t) \/ LateCommit(t) \/ DeleteRun(t)
         \/ RequeueStale \/ ApiRestart
<1>1. ASSUME NEW j \in Jobs, Request(j)
      PROVE  Quiet \/ StageCreate(j) \/ StageUpdate(j) \/ Retry(j) \/ Cancel(j) \/ Expire(j)
  BY <1>1 DEF Request, StageFiles, StageReject, StageAbandon, DropTask, Quiet, History
<1>2. ASSUME NEW j \in Jobs, NEW t \in Tokens, Start(j, t) PROVE SyncStart(j, t) \/ Taken(j, t)
  BY <1>2 DEF Start, ClaimNext, ClaimTask, Taken
<1>3. ASSUME NEW t \in Tokens, Attempt(t)
      PROVE  \/ Quiet \/ (pc[t] # "unused" /\ Reported(t))
             \/ RejectSync(t) \/ Commit(t) \/ LateCommit(t)
  BY <1>3 DEF Attempt, LoadJob, OpenInputs, EnterRefused, Enter, RejectLeased, ScanError, Fence,
     FenceLost, Rollback, Finish, HandleLost, HandleError, Crash, LateRollback, Quiet, Reported, History
<1>4. ASSUME NEW t \in Tokens, Supervise(t) PROVE Quiet \/ (pc[t] # "unused" /\ Reported(t))
  <2>1. sup[t] # "none" => pc[t] # "unused"
    BY DEF IInv, FreshTokens
  <2>2. QED
    BY <1>4, <2>1 DEF Supervise, Spawn, SpawnFails, Beat, BeatLost, Deadline, StopChild, ChildExited,
       MarkExited, CleanUp, SupCrash, Quiet, Reported, History
<1>5. ASSUME NEW t \in Tokens, DeleteRun(t) \/ DeleteFiles(t) PROVE Quiet \/ DeleteRun(t)
  BY <1>5 DEF DeleteFiles, Quiet, History
<1>6. CASE UNCHANGED vars
  BY <1>6 DEF vars, Quiet, History
<1> QED
  BY <1>1, <1>2, <1>3, <1>4, <1>5, <1>6 DEF Next

\* An attempt that was claimed has a job, and its open row is a row of the table.
LEMMA JobOfAttempt ==
  ASSUME IInv, NEW t \in Tokens, pc[t] # "unused"
  PROVE  jobOf[t] \in Jobs /\ row[jobOf[t]] \in Row
  BY DEF IInv, AttemptOwner, TypeOK

\* An interactive scan that is still going has no completed row.
LEMMA ScanningIsNotCompleted ==
  ASSUME IInv, NEW t \in Tokens, pc[t] = "scan", leaseOf[t] = None
  PROVE  row[jobOf[t]].status # "COMPLETED"
<1>1. SUFFICES ASSUME row[jobOf[t]].status = "COMPLETED" PROVE FALSE
  OBVIOUS
<1>2. jobOf[t] \in Jobs /\ stage[jobOf[t]] = "sync"
  BY DEF IInv, AttemptOwner
<1> DEFINE s == row[jobOf[t]].run
<1>3. s \in Tokens /\ s \in published /\ jobOf[s] = jobOf[t]
  BY <1>1, <1>2 DEF IInv, CompletedHasRun, PublishedRuns, AttemptOwner, TypeOK
<1> HIDE DEF s
<1>4. pc[s] \in {"committed", "exited", "dead"}
  BY <1>3 DEF IInv, AttemptProgress
<1>5. leaseOf[s] = None
  BY <1>2, <1>3, <1>4 DEF IInv, InteractiveJobs, AttemptOwner
<1>6. s = t
  BY <1>3, <1>4, <1>5 DEF IInv, AttemptOwner
<1>7. QED
  BY <1>4, <1>6

\* Only a claim between the two writes of stage_job is early, and the inline
\* runner makes none.
LEMMA EarlyStaysOutOfInline ==
  ASSUME IInv, [Next]_vars
  PROVE  early \subseteq early' /\ (Deployment = "inline" => early' = early)
<1>1. CASE Quiet
  BY <1>1 DEF Quiet, History
<1>2. ASSUME NEW j \in Jobs, StageCreate(j) \/ StageUpdate(j) \/ Retry(j) \/ Cancel(j) \/ Expire(j)
      PROVE  early' = early
  BY <1>2 DEF StageCreate, StageUpdate, Retry, Cancel, Expire
<1>3. ASSUME NEW j \in Jobs, NEW t \in Tokens, SyncStart(j, t) PROVE early' = early
  BY <1>3 DEF SyncStart
<1>4. ASSUME NEW j \in Jobs, NEW t \in Tokens, Taken(j, t)
      PROVE  early \subseteq early' /\ (Deployment = "inline" => early' = early)
  BY <1>4 DEF Taken, Take
<1>5. ASSUME NEW t \in Tokens, Reported(t) PROVE early' = early
  BY <1>5 DEF Reported, History
<1>6. ASSUME NEW t \in Tokens, RejectSync(t) \/ Commit(t) \/ LateCommit(t) \/ DeleteRun(t)
      PROVE  early' = early
  BY <1>6 DEF RejectSync, Commit, LateCommit, DeleteRun
<1>7. CASE RequeueStale \/ ApiRestart
  BY <1>7 DEF RequeueStale, ApiRestart
<1> QED
  BY <1>1, <1>2, <1>3, <1>4, <1>5, <1>6, <1>7, StepsOnRows

\* In the inline deployment no job is ever claimed early: process_job claims on
\* the event loop that stage_job occupies until its second write.
LEMMA InlineIsNeverEarly ==
  ASSUME Deployment = "inline" PROVE Spec => [](early = {})
<1>1. Init => early = {}
  BY DEF Init
<1>2. IInv /\ early = {} /\ [Next]_vars => (early = {})'
  BY EarlyStaysOutOfInline
<1>3. QED
  BY <1>1, <1>2, Invariance, PTL DEF Spec

\* With the inline runner a job publishes at most one run without exception
\* (jobs.stage_job and process_job on one event loop).
THEOREM InlinePublishesOnce ==
  ASSUME Deployment = "inline" PROVE Spec => []PublishOnceAlways
<1>1. IInv /\ early = {} => PublishOnceAlways
  BY DEF IInv, PublishOnce, PublishOnceAlways
<1>2. QED
  BY <1>1, Invariance, InlineIsNeverEarly, PTL

\* The lease of one job in one step: it stays, it is cleared, or a claim puts
\* one where there was none.
LEMMA LeaseOfOneStep ==
  ASSUME IInv, [Next]_vars, NEW j \in Jobs, j \notin early',
         row[j].lease # None, row'[j].lease # row[j].lease
  PROVE  row'[j].lease = None
<1> DEFINE Kept == row'[j].lease = row[j].lease
<1>0. row \in [Jobs -> Row] /\ j \notin early
  BY EarlyStaysOutOfInline DEF IInv, TypeOK
<1>1. CASE Quiet
  BY <1>1 DEF Quiet
<1>2. ASSUME NEW k \in Jobs, StageCreate(k) \/ StageUpdate(k) \/ Retry(k) \/ Cancel(k) \/ Expire(k)
      PROVE  Kept \/ row'[j].lease = None
  <2>1. CASE StageCreate(k)
    BY <1>0, <2>1 DEF StageCreate
  <2>2. CASE StageUpdate(k)
    BY <1>0, <2>2 DEF StageUpdate
  <2>3. CASE Retry(k)
    BY <1>0, <2>3 DEF Retry
  <2>4. CASE Cancel(k)
    BY <1>0, <2>4 DEF Cancel
  <2>5. CASE Expire(k)
    BY <1>0, <2>5 DEF Expire
  <2>6. QED
    BY <1>2, <2>1, <2>2, <2>3, <2>4, <2>5
<1>3. ASSUME NEW k \in Jobs, NEW t \in Tokens, SyncStart(k, t) PROVE Kept \/ row'[j].lease = None
  BY <1>0, <1>3 DEF SyncStart
<1>4. ASSUME NEW k \in Jobs, NEW t \in Tokens, Taken(k, t) PROVE row'[j].lease = None
  <2>1. row[j].status = "PENDING" => row[j].lease = None
    BY <1>0 DEF IInv, StagedRows
  <2>2. QED
    BY <1>0, <1>4, <2>1 DEF Taken, Take
<1>5. ASSUME NEW t \in Tokens, pc[t] # "unused", Reported(t) PROVE Kept
  <2>1. jobOf[t] \in Jobs
    BY <1>5, JobOfAttempt
  <2>2. ASSUME NEW s, LeaseUpdate(t, s) PROVE Kept
    BY <1>0, <2>1, <2>2 DEF LeaseUpdate
  <2>3. QED
    BY <1>5, <2>2 DEF Reported
<1>6. ASSUME NEW t \in Tokens, RejectSync(t) \/ Commit(t) \/ LateCommit(t) \/ DeleteRun(t)
      PROVE  Kept \/ row'[j].lease = None
  <2>1. CASE RejectSync(t)
    BY <1>0, <2>1 DEF RejectSync
  <2>2. CASE Commit(t) \/ LateCommit(t)
    <3>1. Publish(t) /\ jobOf[t] \in Jobs
      BY <2>2 DEF Commit, LateCommit, IInv, AttemptOwner
    <3>2. QED
      BY <1>0, <3>1 DEF Publish
  <2>3. CASE DeleteRun(t)
    BY <1>0, <2>3 DEF DeleteRun, TableWithout
  <2>4. QED
    BY <1>6, <2>1, <2>2, <2>3
<1>7. CASE RequeueStale \/ ApiRestart
  BY <1>0, <1>7, RequeuedRow DEF RequeueStale, ApiRestart, IInv
<1> QED
  BY <1>1, <1>2, <1>3, <1>4, <1>5, <1>6, <1>7, StepsOnRows

\* A lease passes to another attempt only after retry_scan_job or
\* requeue_stale_scan_jobs cleared it; the claim's WHERE clause does not ask for
\* a NULL lease, so this rests on StagedRows.
THEOREM LeaseIsHandedOver == Spec => LeaseHandover
<1>1. IInv /\ [Next]_vars =>
         [\A j \in Jobs \ early' :
             row[j].lease # None /\ row'[j].lease # row[j].lease =>
                row'[j].lease = None]_vars
  BY LeaseOfOneStep
<1>2. QED
  BY <1>1, Invariance, PTL DEF Spec, LeaseHandover

\* What queue.py says of two replicas holds of every job in the inline
\* deployment.
THEOREM InlineLeaseIsHandedOver ==
  ASSUME Deployment = "inline" PROVE Spec => LeaseHandoverAlways
<1>1. IInv /\ early = {} /\ [Next]_vars =>
         [\A j \in Jobs :
             row[j].lease # None /\ row'[j].lease # row[j].lease =>
                row'[j].lease = None]_vars
  BY LeaseOfOneStep, EarlyStaysOutOfInline
<1>2. QED
  BY <1>1, Invariance, InlineIsNeverEarly, PTL DEF Spec, LeaseHandoverAlways

\* One step of a job that is cancelled, completed or dead.
LEMMA TerminalStep ==
  ASSUME IInv, [Next]_vars, NEW j \in Jobs, j \notin early,
         row[j].status \in {"CANCELLED", "COMPLETED", "DEAD"}
  PROVE  \/ row'[j].status = row[j].status
         \/ row[j].status = "COMPLETED" /\ row'[j].status = "ABSENT"
         \/ row[j].status = "DEAD" /\ stage[j] = "sync" /\ row'[j].status = "FAILED"
<1> USE DEF TypeOK
<1> DEFINE Kept == row'[j].status = row[j].status
<1>0. TypeOK /\ row[j] \in Row /\ stage[j] \in Stages
  BY DEF IInv
<1>1. CASE Quiet
  BY <1>1 DEF Quiet
<1>2. ASSUME NEW k \in Jobs, StageCreate(k) \/ StageUpdate(k) \/ Retry(k) \/ Cancel(k) \/ Expire(k)
      PROVE  Kept
  <2>1. /\ stage[j] \in {"idle", "saved"} => row[j].status = "ABSENT"
        /\ stage[j] = "created" => row[j].status \in {"PENDING", "CANCELLED"}
    BY DEF IInv, StagedRows
  <2>2. QED
    BY <1>0, <1>2, <2>1 DEF StageCreate, StageUpdate, Retry, Cancel, Expire
<1>3. ASSUME NEW k \in Jobs, NEW t \in Tokens, SyncStart(k, t) PROVE Kept
  BY <1>0, <1>3 DEF SyncStart, IInv, StagedRows
<1>4. ASSUME NEW k \in Jobs, NEW t \in Tokens, Taken(k, t) PROVE Kept
  BY <1>0, <1>4 DEF Taken, Take
<1>5. ASSUME NEW t \in Tokens, pc[t] # "unused", Reported(t) PROVE Kept
  BY <1>0, <1>5, JobOfAttempt DEF Reported, LeaseUpdate
<1>6. ASSUME NEW t \in Tokens, RejectSync(t)
      PROVE  Kept \/ (row[j].status = "DEAD" /\ stage[j] = "sync" /\ row'[j].status = "FAILED")
  <2>1. row[jobOf[t]].status # "COMPLETED" /\ pc[t] = "scan" /\ leaseOf[t] = None
    BY <1>6, ScanningIsNotCompleted DEF RejectSync
  <2>2. jobOf[t] \in Jobs /\ stage[jobOf[t]] = "sync"
    BY <2>1 DEF IInv, AttemptOwner
  <2>3. QED
    BY <1>0, <1>6, <2>1, <2>2 DEF RejectSync
<1>7. ASSUME NEW t \in Tokens, Commit(t) \/ LateCommit(t) PROVE Kept
  <2>1. t \in tx /\ Owns(t) /\ jobOf[t] \in Jobs /\ Publish(t)
    BY <1>7 DEF IInv, OpenTransactions, AttemptOwner, Commit, LateCommit
  <2>2. QED
    BY <1>0, <2>1 DEF Publish
<1>8. ASSUME NEW t \in Tokens, DeleteRun(t)
      PROVE  Kept \/ (row[j].status = "COMPLETED" /\ row'[j].status = "ABSENT")
  <2>1. row[j].run = t => row[j].status \in {"ABSENT", "COMPLETED"}
    BY DEF IInv, AttemptOwner, PublishedRuns
  <2>2. QED
    BY <1>0, <1>8, <2>1 DEF DeleteRun, TableWithout
<1>9. CASE RequeueStale \/ ApiRestart
  BY <1>0, <1>9, RequeuedRow DEF RequeueStale, ApiRestart
<1> QED
  BY <1>1, <1>2, <1>3, <1>4, <1>5, <1>6, <1>7, <1>8, <1>9, StepsOnRows

\* Cancelled, completed and dead-lettered jobs stay so, whatever late attempts,
\* retries and replicas do (retry_scan_job, job_leases.update,
\* requeue_stale_scan_jobs).
THEOREM TerminalStays == Spec => TerminalIsFinal
<1>1. IInv /\ [Next]_vars =>
         [\A j \in Jobs \ early :
             row[j].status \in {"CANCELLED", "COMPLETED", "DEAD"} =>
                \/ row'[j].status = row[j].status
                \/ row[j].status = "COMPLETED" /\ row'[j].status = "ABSENT"
                \/ row[j].status = "DEAD" /\ stage[j] = "sync"
                                          /\ row'[j].status = "FAILED"]_vars
  BY TerminalStep
<1>2. QED
  BY <1>1, Invariance, PTL DEF Spec, TerminalIsFinal

-----------------------------------------------------------------------------
(* The queue implements the contract of JobLifecycle.                      *)

Phase   == [j \in Jobs |-> PhaseOf(j)]
Results == [j \in Jobs |-> ResultsOf(j)]

\* The runs a job has published.
RunsOf(j) == AttemptsOf(j) \cap published

\* What of a row the contract sees.
LEMMA PhaseMeaning ==
  ASSUME NEW j \in Jobs, row[j].status \in Status
  PROVE  /\ j \in early => PhaseOf(j) = "disowned"
         /\ j \notin early =>
              /\ row[j].status = "ABSENT" =>
                    PhaseOf(j) = IF RunsOf(j) = {} THEN "none" ELSE "gone"
              /\ row[j].status \in {"PENDING", "RUNNING"} => PhaseOf(j) = "open"
              /\ row[j].status \in {"FAILED", "DEAD"} => PhaseOf(j) = "failed"
              /\ row[j].status = "CANCELLED" => PhaseOf(j) = "cancelled"
              /\ row[j].status = "COMPLETED" => PhaseOf(j) = "completed"
  BY DEF PhaseOf, RunsOf

\* The same after a step.
LEMMA PhaseMeaningNext ==
  ASSUME NEW j \in Jobs, row'[j].status \in Status
  PROVE  /\ j \in early' => PhaseOf(j)' = "disowned"
         /\ j \notin early' =>
              /\ row'[j].status = "ABSENT" =>
                    PhaseOf(j)' = IF RunsOf(j)' = {} THEN "none" ELSE "gone"
              /\ row'[j].status \in {"PENDING", "RUNNING"} => PhaseOf(j)' = "open"
              /\ row'[j].status \in {"FAILED", "DEAD"} => PhaseOf(j)' = "failed"
              /\ row'[j].status = "CANCELLED" => PhaseOf(j)' = "cancelled"
              /\ row'[j].status = "COMPLETED" => PhaseOf(j)' = "completed"
  BY DEF PhaseOf, RunsOf

\* A job whose status, runs and mark stay is where it was for the contract.
LEMMA SamePhase ==
  ASSUME NEW j \in Jobs, j \in early' <=> j \in early, RunsOf(j)' = RunsOf(j),
         row[j].status \in Status, row'[j].status = row[j].status
  PROVE  PhaseOf(j)' = PhaseOf(j) /\ ResultsOf(j)' = ResultsOf(j)
<1>1. PhaseOf(j)' = PhaseOf(j)
  BY PhaseMeaning, PhaseMeaningNext
<1>2. ResultsOf(j)' = ResultsOf(j)
  BY DEF ResultsOf, RunsOf
<1>3. QED
  BY <1>1, <1>2

\* A step that moves one job and delivers nothing is a step of the contract.
LEMMA OneJobMoves ==
  ASSUME NEW j \in Jobs,
         \A k \in Jobs \ {j} : PhaseOf(k)' = PhaseOf(k),
         \A k \in Jobs : ResultsOf(k)' = ResultsOf(k),
         \/ PhaseOf(j)' = PhaseOf(j)
         \/ PhaseOf(j) = "none" /\ PhaseOf(j)' = "open"
         \/ PhaseOf(j) = "open" /\ PhaseOf(j)' \in {"failed", "cancelled", "disowned"}
         \/ PhaseOf(j) = "failed" /\ PhaseOf(j)' = "open"
         \/ PhaseOf(j) = "completed" /\ PhaseOf(j)' = "gone"
  PROVE  Contract!LifecycleNext \/ UNCHANGED <<Phase, Results>>
<1>1. Results' = Results
  BY DEF Results
<1>2. Phase' = [Phase EXCEPT ![j] = PhaseOf(j)'] /\ Phase[j] = PhaseOf(j)
  BY DEF Phase
<1>3. CASE PhaseOf(j)' = PhaseOf(j)
  BY <1>1, <1>2, <1>3 DEF Phase
<1>4. CASE PhaseOf(j) = "none" /\ PhaseOf(j)' = "open"
  <2>1. Contract!Submit(j)
    BY <1>1, <1>2, <1>4 DEF Contract!Submit, Contract!Move, Phase, Results
  <2>2. QED
    BY <2>1 DEF Contract!LifecycleNext
<1>5. CASE PhaseOf(j) = "open" /\ PhaseOf(j)' \in {"failed", "cancelled", "disowned"}
  <2>1. Contract!FailJob(j) \/ Contract!CancelJob(j) \/ Contract!Disown(j)
    BY <1>1, <1>2, <1>5 DEF Contract!FailJob, Contract!CancelJob, Contract!Disown, Contract!Move,
       Phase, Results
  <2>2. QED
    BY <2>1 DEF Contract!LifecycleNext
<1>6. CASE PhaseOf(j) = "failed" /\ PhaseOf(j)' = "open"
  <2>1. Contract!Reopen(j)
    BY <1>1, <1>2, <1>6 DEF Contract!Reopen, Contract!Move, Phase, Results
  <2>2. QED
    BY <2>1 DEF Contract!LifecycleNext
<1>7. CASE PhaseOf(j) = "completed" /\ PhaseOf(j)' = "gone"
  <2>1. Contract!DeleteJob(j)
    BY <1>1, <1>2, <1>7 DEF Contract!DeleteJob, Contract!Move, Phase, Results
  <2>2. QED
    BY <2>1 DEF Contract!LifecycleNext
<1>8. QED
  BY <1>3, <1>4, <1>5, <1>6, <1>7

\* A job that is not early and whose row is neither completed nor deleted has
\* published nothing.
LEMMA NothingPublishedYet ==
  ASSUME IInv, NEW j \in Jobs, j \notin early,
         \/ row[j].status \notin {"ABSENT", "COMPLETED"}
         \/ stage[j] \in {"idle", "saved"}
  PROVE  RunsOf(j) = {}
<1> SUFFICES ASSUME NEW t \in Tokens, jobOf[t] = j, t \in published PROVE FALSE
  BY DEF RunsOf, AttemptsOf
<1>1. pc[t] # "unused"
  BY DEF IInv, FreshTokens
<1>2. stage[j] \notin {"idle", "saved"}
  BY <1>1 DEF IInv, AttemptOwner
<1>3. row[j].status \in {"ABSENT", "COMPLETED"}
  BY DEF IInv, PublishedRuns
<1> QED
  BY <1>2, <1>3

\* Only publications change what jobs have published: a claim or an
\* interactive scan takes a token that published nothing.
LEMMA SameRuns ==
  ASSUME published' = published,
         \A t \in Tokens : t \in published => jobOf'[t] = jobOf[t],
         NEW j \in Jobs
  PROVE  RunsOf(j)' = RunsOf(j)
  BY DEF RunsOf, AttemptsOf

\* A step that rewrites one row and publishes nothing moves one job.
LEMMA OneRowMoves ==
  ASSUME IInv, IInv', NEW j \in Jobs, early' \ {j} = early \ {j}, published' = published,
         \A t \in Tokens : t \in published => jobOf'[t] = jobOf[t],
         \A k \in Jobs \ {j} : row'[k].status = row[k].status,
         ResultsOf(j)' = ResultsOf(j),
         \/ PhaseOf(j)' = PhaseOf(j)
         \/ PhaseOf(j) = "none" /\ PhaseOf(j)' = "open"
         \/ PhaseOf(j) = "open" /\ PhaseOf(j)' \in {"failed", "cancelled", "disowned"}
         \/ PhaseOf(j) = "failed" /\ PhaseOf(j)' = "open"
         \/ PhaseOf(j) = "completed" /\ PhaseOf(j)' = "gone"
  PROVE  Contract!LifecycleNext \/ UNCHANGED <<Phase, Results>>
<1>1. ASSUME NEW k \in Jobs \ {j}
      PROVE  PhaseOf(k)' = PhaseOf(k) /\ ResultsOf(k)' = ResultsOf(k)
  <2>1. RunsOf(k)' = RunsOf(k)
    BY SameRuns
  <2>2. row[k].status \in Status
    BY DEF IInv, TypeOK
  <2>3. QED
    BY <2>1, <2>2, SamePhase
<1>2. QED
  BY <1>1, OneJobMoves

\* The same for a step that marks no job early.
LEMMA OneStatusMoves ==
  ASSUME IInv, IInv', NEW j \in Jobs, early' = early, published' = published,
         \A t \in Tokens : t \in published => jobOf'[t] = jobOf[t],
         \A k \in Jobs \ {j} : row'[k].status = row[k].status,
         j \notin early =>
            \/ row'[j].status = row[j].status
            \/ /\ stage[j] \in {"idle", "saved"} /\ row[j].status = "ABSENT"
               /\ row'[j].status \in {"PENDING", "RUNNING"}
            \/ /\ row[j].status \in {"PENDING", "RUNNING"}
               /\ row'[j].status \in {"PENDING", "RUNNING", "FAILED", "CANCELLED"}
            \/ row[j].status = "FAILED" /\ row'[j].status = "PENDING"
            \/ row[j].status = "DEAD" /\ row'[j].status = "FAILED"
  PROVE  Contract!LifecycleNext \/ UNCHANGED <<Phase, Results>>
<1>1. RunsOf(j)' = RunsOf(j)
  BY SameRuns
<1>2. ResultsOf(j)' = ResultsOf(j)
  BY <1>1 DEF ResultsOf, RunsOf
<1>3. row[j].status \in Status /\ row'[j].status \in Status
  BY DEF IInv, TypeOK
<1>4. j \notin early /\ stage[j] \in {"idle", "saved"} => RunsOf(j) = {}
  BY NothingPublishedYet
<1>5. \/ PhaseOf(j)' = PhaseOf(j)
      \/ PhaseOf(j) = "none" /\ PhaseOf(j)' = "open"
      \/ PhaseOf(j) = "open" /\ PhaseOf(j)' \in {"failed", "cancelled", "disowned"}
      \/ PhaseOf(j) = "failed" /\ PhaseOf(j)' = "open"
  BY <1>1, <1>3, <1>4, PhaseMeaning, PhaseMeaningNext
<1>6. QED
  BY <1>2, <1>5, OneRowMoves

\* The requests of users.
LEMMA RequestRefines ==
  ASSUME IInv, IInv', NEW j \in Jobs,
         StageCreate(j) \/ StageUpdate(j) \/ Retry(j) \/ Cancel(j) \/ Expire(j)
  PROVE  Contract!LifecycleNext \/ UNCHANGED <<Phase, Results>>
<1>1. row \in [Jobs -> Row] /\ row[j] \in Row
  BY DEF IInv, TypeOK
<1>2. /\ stage[j] = "saved" => row[j].status = "ABSENT"
      /\ stage[j] = "created" /\ j \notin early => row[j].status \in {"PENDING", "CANCELLED"}
  BY DEF IInv, StagedRows
<1>3. UNCHANGED History
  BY DEF StageCreate, StageUpdate, Retry, Cancel, Expire, History
<1>4. \A k \in Jobs \ {j} : row'[k].status = row[k].status
  BY <1>1 DEF StageCreate, StageUpdate, Retry, Cancel, Expire
<1>5. CASE StageCreate(j)
  <2>1. stage[j] = "saved" /\ row[j].status = "ABSENT" /\ row'[j].status = "PENDING"
    BY <1>1, <1>2, <1>5 DEF StageCreate
  <2>2. QED
    BY <1>3, <1>4, <2>1, OneStatusMoves DEF History
<1>6. CASE StageUpdate(j)
  <2>1. j \notin early => row'[j].status = row[j].status
    BY <1>1, <1>2, <1>6 DEF StageUpdate
  <2>2. QED
    BY <1>3, <1>4, <2>1, OneStatusMoves DEF History
<1>7. CASE Retry(j)
  <2>1. row[j].status \in {"FAILED", "PENDING"} /\ row'[j].status = "PENDING"
    BY <1>1, <1>7 DEF Retry
  <2>2. QED
    BY <1>3, <1>4, <2>1, OneStatusMoves DEF History
<1>8. CASE Cancel(j)
  <2>1. row[j].status \in {"PENDING", "RUNNING"} /\ row'[j].status = "CANCELLED"
    BY <1>1, <1>8 DEF Cancel
  <2>2. QED
    BY <1>3, <1>4, <2>1, OneStatusMoves DEF History
<1>9. CASE Expire(j)
  <2>1. row'[j].status = row[j].status
    BY <1>1, <1>9 DEF Expire
  <2>2. QED
    BY <1>3, <1>4, <2>1, OneStatusMoves DEF History
<1>10. QED
  BY <1>5, <1>6, <1>7, <1>8, <1>9

\* Interactive scans and claims.
LEMMA StartRefines ==
  ASSUME IInv, IInv', NEW j \in Jobs, NEW t \in Tokens, SyncStart(j, t) \/ Taken(j, t)
  PROVE  Contract!LifecycleNext \/ UNCHANGED <<Phase, Results>>
<1>1. row \in [Jobs -> Row] /\ row[j] \in Row /\ jobOf \in [Tokens -> Jobs \cup {None}]
  BY DEF IInv, TypeOK
<1>2. pc[t] = "unused" /\ t \notin published
  BY DEF SyncStart, Taken, Take, IInv, FreshTokens
<1>3. published' = published /\ \A s \in Tokens : s \in published => jobOf'[s] = jobOf[s]
  BY <1>1, <1>2 DEF SyncStart, Taken, Take
<1>4. \A k \in Jobs \ {j} : row'[k].status = row[k].status
  BY <1>1 DEF SyncStart, Taken, Take
<1>5. CASE SyncStart(j, t)
  <2>1. /\ stage[j] = "idle" /\ row[j].status = "ABSENT" /\ row'[j].status = "RUNNING"
        /\ early' = early
    BY <1>1, <1>5 DEF SyncStart, IInv, StagedRows
  <2>2. QED
    BY <1>3, <1>4, <2>1, OneStatusMoves
<1>6. CASE Taken(j, t)
  <2>1. /\ row[j].status = "PENDING" /\ row'[j].status = "RUNNING"
        /\ early' = early \/ early' = early \cup {j}
    BY <1>1, <1>6 DEF Taken, Take
  <2>2. CASE early' = early
    BY <1>3, <1>4, <2>1, <2>2, OneStatusMoves
  <2>3. CASE early' = early \cup {j}
    <3>1. ResultsOf(j)' = ResultsOf(j)
      BY <2>1, <2>3, NothingPublishedYet DEF ResultsOf, RunsOf
    <3>2. PhaseOf(j)' = "disowned" /\ PhaseOf(j) \in {"open", "disowned"}
      BY <1>1, <2>1, <2>3, PhaseMeaning, PhaseMeaningNext
    <3>3. QED
      BY <1>3, <1>4, <2>3, <3>1, <3>2, OneRowMoves
  <2>4. QED
    BY <2>1, <2>2, <2>3
<1>7. QED
  BY <1>5, <1>6

\* The reports of attempts, with a lease and without.
LEMMA ReportRefines ==
  ASSUME IInv, IInv', NEW t \in Tokens,
         \/ pc[t] # "unused" /\ Reported(t)
         \/ RejectSync(t)
  PROVE  Contract!LifecycleNext \/ UNCHANGED <<Phase, Results>>
<1> DEFINE j == jobOf[t]
<1>1. pc[t] # "unused"
  BY DEF RejectSync
<1>2. j \in Jobs /\ row \in [Jobs -> Row] /\ row[j] \in Row
  BY <1>1, JobOfAttempt DEF IInv, TypeOK
<1>3. UNCHANGED History
  BY DEF Reported, RejectSync, History
<1>4. CASE Reported(t)
  <2>1. ASSUME NEW s \in {"RUNNING", "FAILED"}, LeaseUpdate(t, s)
        PROVE  /\ \A k \in Jobs \ {j} : row'[k].status = row[k].status
               /\ \/ row'[j].status = row[j].status
                  \/ row[j].status = "RUNNING" /\ row'[j].status \in {"RUNNING", "FAILED"}
    BY <1>2, <2>1 DEF LeaseUpdate
  <2>2. /\ \A k \in Jobs \ {j} : row'[k].status = row[k].status
        /\ \/ row'[j].status = row[j].status
           \/ row[j].status = "RUNNING" /\ row'[j].status \in {"RUNNING", "FAILED"}
    BY <1>4, <2>1 DEF Reported
  <2> HIDE DEF j
  <2>3. QED
    BY <1>2, <1>3, <2>2, OneStatusMoves DEF History
<1>5. CASE RejectSync(t)
  <2>1. row[j].status # "COMPLETED"
    BY <1>5, ScanningIsNotCompleted DEF RejectSync
  <2>2. /\ \A k \in Jobs \ {j} : row'[k].status = row[k].status
        /\ \/ row'[j].status = row[j].status
           \/ row[j].status \in {"PENDING", "RUNNING", "FAILED", "DEAD"} /\ row'[j].status = "FAILED"
    BY <1>2, <1>5, <2>1 DEF RejectSync
  <2> HIDE DEF j
  <2>3. QED
    BY <1>2, <1>3, <2>2, OneStatusMoves DEF History
<1>6. QED
  BY <1>4, <1>5

\* A publication completes an open job that has no result.
LEMMA PublishRefines ==
  ASSUME IInv, IInv', NEW t \in Tokens, Commit(t) \/ LateCommit(t)
  PROVE  Contract!LifecycleNext \/ UNCHANGED <<Phase, Results>>
<1> SUFFICES ASSUME NEW j \in Jobs, j = jobOf[t]
             PROVE  Contract!LifecycleNext \/ UNCHANGED <<Phase, Results>>
  BY DEF Commit, LateCommit, IInv, OpenTransactions, AttemptOwner
<1>1. /\ j \in Jobs /\ row \in [Jobs -> Row] /\ row[j] \in Row
      /\ row[j].status = "RUNNING"
      /\ Publish(t) /\ UNCHANGED <<jobOf, early>>
  BY DEF Commit, LateCommit, IInv, OpenTransactions, AttemptOwner, TypeOK
<1>2. /\ row'[j].status = "COMPLETED" /\ published' = published \cup {t}
      /\ \A k \in Jobs \ {j} : row'[k].status = row[k].status
  BY <1>1 DEF Publish
<1>3. RunsOf(j)' = RunsOf(j) \cup {t} /\ \A k \in Jobs \ {j} : RunsOf(k)' = RunsOf(k)
  BY <1>1, <1>2 DEF RunsOf, AttemptsOf
<1>4. ASSUME NEW k \in Jobs \ {j}
      PROVE  PhaseOf(k)' = PhaseOf(k) /\ ResultsOf(k)' = ResultsOf(k)
  <2>1. row[k].status \in Status
    BY DEF IInv, TypeOK
  <2>2. QED
    BY <1>1, <1>2, <1>3, <2>1, SamePhase
<1>5. CASE j \in early
  <2>1. PhaseOf(j)' = PhaseOf(j) /\ ResultsOf(j)' = ResultsOf(j)
    BY <1>1, <1>2, <1>5, PhaseMeaning, PhaseMeaningNext DEF ResultsOf
  <2>2. QED
    BY <1>4, <2>1 DEF Phase, Results
<1>6. CASE j \notin early
  <2>1. PhaseOf(j) = "open" /\ PhaseOf(j)' = "completed"
    BY <1>1, <1>2, <1>6, PhaseMeaning, PhaseMeaningNext
  <2>2. ResultsOf(j) = {} /\ ResultsOf(j)' = {t}
    BY <1>1, <1>3, <1>6, NothingPublishedYet DEF ResultsOf, RunsOf
  <2>3. /\ Phase[j] = "open" /\ Phase' = [Phase EXCEPT ![j] = "completed"]
        /\ Results[j] = {} /\ Results' = [Results EXCEPT ![j] = {t}]
    BY <1>1, <1>4, <2>1, <2>2 DEF Phase, Results
  <2>4. Contract!Complete(j, t)
    BY <2>3 DEF Contract!Complete, Contract!Move, Phase, Results
  <2>5. QED
    BY <1>1, <2>4 DEF Contract!LifecycleNext
<1>7. QED
  BY <1>5, <1>6

\* A run is deleted with the one job that published it.
LEMMA DeleteRefines ==
  ASSUME IInv, IInv', NEW t \in Tokens, DeleteRun(t)
  PROVE  Contract!LifecycleNext \/ UNCHANGED <<Phase, Results>>
<1>1. row \in [Jobs -> Row] /\ t \in published /\ pc[t] # "unused"
  BY DEF IInv, TypeOK, DeleteRun, PublishedRuns, FreshTokens
<1>2. \A k \in Jobs : row[k].run = t => k = jobOf[t]
  BY DEF IInv, AttemptOwner
<1>3. UNCHANGED History /\ row' = TableWithout(t)
  BY DEF DeleteRun, History
<1> SUFFICES ASSUME NEW j \in Jobs, j = jobOf[t]
             PROVE  Contract!LifecycleNext \/ UNCHANGED <<Phase, Results>>
  BY <1>1 DEF IInv, AttemptOwner
<1>4. t \in RunsOf(j)
  BY <1>1 DEF RunsOf, AttemptsOf
<1>5. \A k \in Jobs \ {j} : row'[k].status = row[k].status
  BY <1>1, <1>2, <1>3 DEF TableWithout
<1>6. \/ row'[j].status = row[j].status
      \/ row'[j].status = "ABSENT" /\ (j \notin early => row[j].status = "COMPLETED")
  BY <1>1, <1>3, <1>4 DEF TableWithout, IInv, PublishedRuns
<1>7. RunsOf(j)' = RunsOf(j) /\ RunsOf(j) # {}
  BY <1>3, <1>4 DEF RunsOf, AttemptsOf, History
<1>8. row[j].status \in Status /\ row'[j].status \in Status
  BY <1>4 DEF IInv, TypeOK
<1>9. \/ PhaseOf(j)' = PhaseOf(j)
      \/ PhaseOf(j) = "completed" /\ PhaseOf(j)' = "gone"
  BY <1>3, <1>4, <1>6, <1>7, <1>8, PhaseMeaning, PhaseMeaningNext DEF History
<1>10. ResultsOf(j)' = ResultsOf(j)
  BY <1>3, <1>7 DEF ResultsOf, RunsOf, History
<1>11. QED
  BY <1>3, <1>4, <1>5, <1>9, <1>10, OneRowMoves DEF History

\* Reclaiming stale rows reopens nothing: it fails some open jobs.
LEMMA RecoveryRefines ==
  ASSUME IInv, IInv', RequeueStale \/ ApiRestart
  PROVE  Contract!LifecycleNext \/ UNCHANGED <<Phase, Results>>
<1>1. UNCHANGED History /\ row' = RequeuedTable
  BY DEF RequeueStale, ApiRestart, History
<1>2. ASSUME NEW j \in Jobs
      PROVE  /\ PhaseOf(j)' = PhaseOf(j) \/ (PhaseOf(j) = "open" /\ PhaseOf(j)' = "failed")
             /\ ResultsOf(j)' = ResultsOf(j)
  <2>1. row[j].status \in Status /\ row'[j].status \in Status
    BY DEF IInv, TypeOK
  <2>2. RunsOf(j)' = RunsOf(j)
    BY <1>1 DEF RunsOf, AttemptsOf, History
  <2>3. \/ row'[j] = row[j]
        \/ row[j].status = "RUNNING" /\ row'[j].status \in {"PENDING", "DEAD"}
    BY <1>1, RequeuedRow DEF IInv
  <2>4. PhaseOf(j)' = PhaseOf(j) \/ (PhaseOf(j) = "open" /\ PhaseOf(j)' = "failed")
    BY <1>1, <2>1, <2>2, <2>3, PhaseMeaning, PhaseMeaningNext DEF History
  <2>5. QED
    BY <1>1, <2>2, <2>4 DEF ResultsOf, RunsOf, History
<1>3. ASSUME NEW j \in Jobs PROVE PhaseOf(j)' \in Contract!Phases
  <2>1. row'[j].status \in Status
    BY DEF IInv, TypeOK
  <2>2. QED
    BY <2>1, PhaseMeaningNext DEF Contract!Phases
<1>4. Phase' \in [Jobs -> Contract!Phases] /\ Results' = Results
  BY <1>2, <1>3 DEF Phase, Results
<1>5. \A j \in Jobs : Phase'[j] = Phase[j] \/ (Phase[j] = "open" /\ Phase'[j] = "failed")
  BY <1>2 DEF Phase
<1>6. Contract!FailSome
  BY <1>4, <1>5 DEF Contract!FailSome, Phase, Results
<1>7. QED
  BY <1>6 DEF Contract!LifecycleNext

\* The queue keeps its contract: whatever workers, supervisors, replicas and
\* users do, each step moves at most the jobs that JobLifecycle lets move
\* (db.create_scan_job to scan_service.create_run's publication).
THEOREM QueueImplementsContract == Spec => ImplementsLifecycle
<1>1. Init => Contract!LifecycleInit
  <2> SUFFICES ASSUME Init PROVE Contract!LifecycleInit
    OBVIOUS
  <2>1. \A j \in Jobs : PhaseOf(j) = "none" /\ ResultsOf(j) = {}
    BY PhaseMeaning DEF Init, ResultsOf, RunsOf
  <2>2. QED
    BY <2>1 DEF Contract!LifecycleInit
<1>2. IInv /\ IInv' /\ [Next]_vars => [Contract!LifecycleNext]_<<Phase, Results>>
  <2> SUFFICES ASSUME IInv, IInv', [Next]_vars
               PROVE  Contract!LifecycleNext \/ UNCHANGED <<Phase, Results>>
    OBVIOUS
  <2>1. CASE Quiet
    <3>1. ASSUME NEW j \in Jobs PROVE PhaseOf(j)' = PhaseOf(j) /\ ResultsOf(j)' = ResultsOf(j)
      <4>1. row[j].status \in Status
        BY DEF IInv, TypeOK
      <4>2. RunsOf(j)' = RunsOf(j)
        BY <2>1 DEF RunsOf, AttemptsOf, Quiet, History
      <4>3. QED
        BY <2>1, <4>1, <4>2, SamePhase DEF Quiet, History
    <3>2. QED
      BY <3>1 DEF Phase, Results
  <2>2. QED
    BY <2>1, StepsOnRows, RequestRefines, StartRefines, ReportRefines, PublishRefines,
       DeleteRefines, RecoveryRefines
<1>3. QED
  BY <1>1, <1>2, Invariance, PTL DEF Spec, ImplementsLifecycle, Contract!LifecycleSpec, Phase, Results

=============================================================================
