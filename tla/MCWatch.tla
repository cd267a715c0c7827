------------------------------ MODULE MCWatch ------------------------------
(* One order beside thefts, gaps, crashes and edited rows.  A server with  *)
(* the books alone and one with the tail and its audit are explored side  *)
(* by side: the loops share no state, so their product adds nothing.       *)
EXTENDS Watch, TLC

MCBooks == {{"settlement"}}
MCTailAndAudit == {{"tail", "audit"}}
MCDeployments == MCBooks \cup MCTailAndAudit
=============================================================================
