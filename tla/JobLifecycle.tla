---------------------------- MODULE JobLifecycle ----------------------------
(***************************************************************************)
(* What the scan-job queue promises its users, without leases, processes   *)
(* or files.  A submitted job is open until it completes with one result,  *)
(* fails, or is cancelled; a failed job may be reopened, a cancelled one   *)
(* may not; a completed job disappears only with its result.               *)
(*                                                                         *)
(* The contract may be broken off while a job is open (Disown): ScanJobs   *)
(* maps to that the one interleaving in which the queue does not keep it.  *)
(***************************************************************************)
CONSTANTS Jobs, Results

VARIABLES phase,   \* job -> where it stands
          results  \* job -> every result it ever delivered

Phases == {"none", "open", "failed", "cancelled", "completed", "gone", "disowned"}

LifecycleTypeOK ==
    /\ phase \in [Jobs -> Phases]
    /\ results \in [Jobs -> SUBSET Results]

LifecycleInit ==
    /\ phase = [j \in Jobs |-> "none"]
    /\ results = [j \in Jobs |-> {}]

Move(j, from, to) ==
    /\ phase[j] = from
    /\ phase' = [phase EXCEPT ![j] = to]

Submit(j)     == Move(j, "none", "open")      /\ UNCHANGED results
FailJob(j)    == Move(j, "open", "failed")    /\ UNCHANGED results
Reopen(j)     == Move(j, "failed", "open")    /\ UNCHANGED results
CancelJob(j)  == Move(j, "open", "cancelled") /\ UNCHANGED results
Disown(j)     == Move(j, "open", "disowned")  /\ UNCHANGED results
DeleteJob(j)  == Move(j, "completed", "gone") /\ UNCHANGED results

\* The one step that delivers: an open job without a result completes.
Complete(j, r) ==
    /\ Move(j, "open", "completed")
    /\ results[j] = {}
    /\ results' = [results EXCEPT ![j] = {r}]

\* Reclaiming stale jobs fails several open jobs in one step.
FailSome ==
    /\ \A j \in Jobs :
          phase'[j] = phase[j] \/ (phase[j] = "open" /\ phase'[j] = "failed")
    /\ phase' \in [Jobs -> Phases]
    /\ UNCHANGED results

LifecycleNext ==
    \/ \E j \in Jobs : \/ Submit(j) \/ FailJob(j) \/ Reopen(j)
                       \/ CancelJob(j) \/ Disown(j) \/ DeleteJob(j)
    \/ \E j \in Jobs, r \in Results : Complete(j, r)
    \/ FailSome

LifecycleSpec == LifecycleInit /\ [][LifecycleNext]_<<phase, results>>

=============================================================================
