----------------------------- MODULE MCJobReport ----------------------------
(* Instances of JobReport for TLC. *)
EXTENDS JobReport, TLC

CONSTANTS j1, j2, w1, w2

TwoJobs    == {j1, j2}
OnePort    == {j2}
TwoWorkers == {w1, w2}

\* The workers are interchangeable; of the jobs only one is a port job.
Symmetry == Permutations(TwoWorkers)
=============================================================================
