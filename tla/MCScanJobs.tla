----------------------------- MODULE MCScanJobs -----------------------------
(***************************************************************************)
(* ScanJobs for TLC: jobs and attempt tokens are interchangeable.          *)
(***************************************************************************)
EXTENDS ScanJobsInvariant, TLC

Symmetry == Permutations(Jobs) \cup Permutations(Tokens)

=============================================================================
