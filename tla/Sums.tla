-------------------------------- MODULE Sums --------------------------------
(* The sum of weights over a finite set: the fold of the community modules *)
(* with the weights given as a function, so that what it computes can be   *)
(* stated and proved for every weighting (module SumsProofs).              *)
EXTENDS Integers, FiniteSetsExt

SumOf(w, S) == MapThenSumSet(LAMBDA x : w[x], S)
=============================================================================
