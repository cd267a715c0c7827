---------------------------- MODULE MCDurableLog ----------------------------
(* The durable logs with the bounds of their run given in the .cfg file.   *)
EXTENDS DurableLog, TLC

\* Nothing tells the refs apart, or the processes.
LogSymmetry == Permutations(Refs) \cup Permutations(Procs)
=============================================================================
