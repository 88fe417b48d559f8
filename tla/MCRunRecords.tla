---------------------------- MODULE MCRunRecords ----------------------------
\* RunRecords for TLC: run ids and requests are interchangeable.
EXTENDS RunRecords, TLC

Symmetry == Permutations(Runs) \cup Permutations(Requests)

=============================================================================
