------------------------------ MODULE MCRefill ------------------------------
(* Every order collects 3 kurus for one unit of USDC, of which 1 is spread *)
(* and 1 fee; at the rates below its refill is 3 units, 1 unit or nothing. *)
EXTENDS Refill, TLC

CONSTANTS o1, o2

MCFacts == [o \in Orders |-> [stroops |-> 1, tryKurus |-> 3, spread |-> 1, fee |-> 1]]

OrderSymmetry == Permutations(Orders)
=============================================================================
