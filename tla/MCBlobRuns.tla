------------------------------ MODULE MCBlobRuns ------------------------------
(* BlobRuns on a run of a thread and a stateless run, with three requests. *)
EXTENDS BlobRuns, TLC

CONSTANTS q1, q2, q3, threadRun, statelessRun

Symmetry == Permutations(Requests)
=============================================================================
