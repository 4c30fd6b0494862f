-------------------------- MODULE MCOrderSubmission --------------------------
(* OrderSubmission on small instances.                                     *)
EXTENDS OrderSubmission, TLC

CONSTANTS w1, w2

WorkerSymmetry == Permutations({w1, w2})
=============================================================================
