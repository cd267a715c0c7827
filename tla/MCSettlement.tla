---------------------------- MODULE MCSettlement ----------------------------
(* The settlement with the bounds of its runs given in the .cfg files.     *)
EXTENDS Settlement, TLC

\* Orders are interchangeable; used in runs without liveness properties only.
OrderSymmetry == Permutations(Orders)
=============================================================================
