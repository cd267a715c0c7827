------------------------------ MODULE SeqSpace ------------------------------
(***************************************************************************)
(* What the sequence allocator promises, without how it keeps its books.   *)
(* Every sequence is unused, in the hands of one order, or burned for one  *)
(* order.  A grant always hands out the LOWEST unused sequence, because a  *)
(* Stellar account consumes its sequences strictly in order: a hole below  *)
(* a granted sequence would hold up every later payment.  A burned         *)
(* sequence is never used again.                                           *)
(***************************************************************************)
EXTENDS Integers

CONSTANTS Orders, BaseSeq, MaxSeq

VARIABLE space   \* what each sequence is used for

SpaceSeqs == (BaseSeq + 1) .. MaxSeq

Unused == <<"unused">>
Held(o) == <<"held", o>>
Spent(o) == <<"spent", o>>

SpaceInit == space = [s \in SpaceSeqs |-> Unused]

\* An order without a live sequence receives the lowest unused one.
Grant(o, s) ==
  /\ \A t \in SpaceSeqs : space[t] # Held(o)
  /\ space[s] = Unused
  /\ \A t \in SpaceSeqs : space[t] = Unused => s <= t
  /\ space' = [space EXCEPT ![s] = Held(o)]

\* The sequence was consumed on chain.
Burn(o, s) ==
  /\ space[s] = Held(o)
  /\ space' = [space EXCEPT ![s] = Spent(o)]

\* The order gave its unconsumed sequence back.
Return(o, s) ==
  /\ space[s] = Held(o)
  /\ space' = [space EXCEPT ![s] = Unused]

SpaceNext ==
  \E o \in Orders, s \in SpaceSeqs : Grant(o, s) \/ Burn(o, s) \/ Return(o, s)

SpaceSpec == SpaceInit /\ [][SpaceNext]_space
=============================================================================
