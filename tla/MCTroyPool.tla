----------------------------- MODULE MCTroyPool -----------------------------
(* Two addresses that are signers and merchants at once, two orders, a pool  *)
(* of two units: enough to race a replay, a rotation, a pause and a pool     *)
(* that runs dry.                                                            *)
EXTENDS TroyPool, TLC

AccountSymmetry == Permutations(Accounts)
=============================================================================
