-------------------------- MODULE ScanJobsInvariant --------------------------
(***************************************************************************)
(* The inductive invariant behind the safety properties of ScanJobs, as a  *)
(* conjunction of named parts.  TLC checks it as an invariant;             *)
(* ScanJobsProofs proves that it is inductive.                             *)
(***************************************************************************)
EXTENDS ScanJobs

Used(t) == pc[t] # "unused"

\* A token that was never claimed is mentioned nowhere.
FreshTokens ==
    \A t \in Tokens : ~Used(t) =>
        /\ jobOf[t] = None /\ leaseOf[t] = None /\ sup[t] = "none"
        /\ t \notin uploads /\ t \notin published
        /\ \A j \in Jobs : row[j].lease # t

\* An attempt belongs to one job whose row exists or existed, and carries its
\* own token as lease unless it is the job's one interactive scan.
AttemptOwner ==
    /\ \A t \in Tokens :
          Used(t) =>
             /\ jobOf[t] \in Jobs
             /\ leaseOf[t] \in {t, None}
             /\ stage[jobOf[t]] \notin {"idle", "saved"}
             /\ stage[jobOf[t]] = "created" => jobOf[t] \in early
             /\ leaseOf[t] = None => stage[jobOf[t]] = "sync" /\ sup[t] = "none"
    /\ \A s, t \in Tokens :
          Used(s) /\ Used(t) /\ jobOf[s] = jobOf[t]
             /\ leaseOf[s] = None /\ leaseOf[t] = None => s = t
    /\ \A j \in Jobs, t \in Tokens :
          /\ row[j].lease = t => jobOf[t] = j /\ leaseOf[t] = t
          /\ row[j].run = t => jobOf[t] = j /\ t \in published

\* An open publication transaction owns its job, so it alone holds the lock.
OpenTransactions ==
    \A t \in Tokens :
        /\ t \in tx => /\ pc[t] \in {"fenced", "dead"}
                       /\ Owns(t)
                       /\ t \in uploads /\ t \notin published
        /\ pc[t] = "fenced" => t \in tx

\* Where an attempt is says what it may have written.
AttemptProgress ==
    \A t \in Tokens :
        /\ t \in published => pc[t] \in {"committed", "exited", "dead"}
        /\ pc[t] = "committed" => t \in published
        /\ pc[t] \in {"unspawned", "load", "begin", "open"} => t \notin uploads
        /\ pc[t] = "scan" => t \in uploads
        /\ pc[t] \in {"unspawned", "load", "begin", "open", "committed", "failing", "lost"}
              => leaseOf[t] = t
        /\ sup[t] # "none" => Deployment = "production"
        /\ sup[t] = "starting" => pc[t] = "unspawned"
        /\ sup[t] \in {"after", "clean", "done"} => pc[t] \notin Alive
        /\ sup[t] \in {"clean", "done"} => t \notin tx

\* What is published stays accounted for: by its run, or by the pending
\* removal of its files.
PublishedRuns ==
    /\ runs \subseteq published /\ doomed \subseteq published
    /\ runs \cap doomed = {}
    /\ \A t \in published :
          jobOf[t] \notin early =>
             LET r == row[jobOf[t]]
             IN  r.status = "ABSENT" \/ (r.status = "COMPLETED" /\ r.run = t)

\* A worker that claims an interactive job after it went stale finds no inputs
\* and goes no further; only the interactive scan itself can publish.
InteractiveJobs ==
    /\ \A j \in Jobs : stage[j] = "sync" => j \notin staging
    /\ \A t \in Tokens :
          Used(t) /\ leaseOf[t] = t /\ stage[jobOf[t]] = "sync" =>
             /\ pc[t] \in {"unspawned", "load", "begin", "failing", "exited", "dead"}
             /\ t \notin tx /\ t \notin published

\* The row of a job whose request is still being served, and of a job that
\* waits: a PENDING row carries no lease.
StagedRows ==
    \A j \in Jobs :
        /\ stage[j] \in {"idle", "saved"} => row[j].status = "ABSENT"
        /\ stage[j] = "idle" => j \notin staging
        /\ stage[j] = "saved" => j \in staging
        /\ stage[j] = "created" /\ j \notin early
              => row[j].status \in {"PENDING", "CANCELLED"}
        /\ row[j].status = "PENDING" /\ j \notin early => row[j].lease = None

\* The inductive invariant.
IInv ==
    /\ TypeOK
    /\ FreshTokens /\ AttemptOwner /\ OpenTransactions /\ AttemptProgress
    /\ PublishedRuns /\ InteractiveJobs /\ StagedRows
    /\ PublishOnce /\ CancelFlagAgrees /\ RunHasFiles /\ CompletedHasRun
    /\ InputsKept /\ PendingIsClaimable /\ NoOrphanUpload

=============================================================================
