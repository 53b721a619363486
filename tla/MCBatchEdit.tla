----------------------------- MODULE MCBatchEdit -----------------------------
(* Model checking instances of BatchEdit. *)
EXTENDS BatchEdit, TLC

CallerSymmetry == Permutations(Callers)
==============================================================================
