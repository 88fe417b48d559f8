--------------------------- MODULE MCSecondFactor ---------------------------
(* The instances of SecondFactor that TLC checks.                           *)
EXTENDS SecondFactor, TLC

\* Requests and secrets are interchangeable.
Symmetry == Permutations(Requests) \cup Permutations(Secrets)

=============================================================================
