--------------------------- MODULE MCCreateVerify ----------------------------
(* Calls about one path by up to two callers.                              *)
EXTENDS CreateVerify, TLC

AnySymmetry == Permutations(Callers) \cup Permutations(Classes)
==============================================================================
