----------------------------- MODULE MCJobQueue -----------------------------
(* The instance of JobQueue for TLC. *)
EXTENDS JobQueue, TLC

CONSTANTS j1, j2, j3, w1, w2

ThreeJobs == {j1, j2, j3}
TwoWorkers == {w1, w2}

\* Jobs of one kind, and workers, are interchangeable: no action and no
\* property names one of them.
Symmetry == Permutations(ThreeJobs) \cup Permutations(TwoWorkers)
=============================================================================
