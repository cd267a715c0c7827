----------------------------- MODULE PayGuards -----------------------------
(***************************************************************************)
(* The guards of TroyPool's pay(), in the order the contract tests them    *)
(* (contracts/troy_pool/src/lib.rs).  The order matters off chain: the     *)
(* backend refunds the customer on InsufficientBalance and keeps the       *)
(* charge on AlreadyProcessed, so a paid order must answer the latter      *)
(* whatever the pool holds.                                                *)
(***************************************************************************)
EXTENDS Integers

PayResults ==
  {"Ok", "NotAuthorized", "Paused", "InvalidAmount", "AlreadyProcessed",
   "InsufficientBalance", "TransferFailed"}

\* Mutant: the balance is tested before the replay guard.
PayResultBalanceFirst(auth, paused, amount, done, balance, receives) ==
  CASE ~auth -> "NotAuthorized"
    [] auth /\ paused -> "Paused"
    [] auth /\ ~paused /\ amount <= 0 -> "InvalidAmount"
    [] auth /\ ~paused /\ amount > 0 /\ balance < amount -> "InsufficientBalance"
    [] auth /\ ~paused /\ amount > 0 /\ balance >= amount /\ done -> "AlreadyProcessed"
    [] OTHER -> IF receives THEN "Ok" ELSE "TransferFailed"

\* Mutant: the replay guard is not consulted.
PayResultNoReplayGuard(auth, paused, amount, done, balance, receives) ==
  CASE ~auth -> "NotAuthorized"
    [] auth /\ paused -> "Paused"
    [] auth /\ ~paused /\ amount <= 0 -> "InvalidAmount"
    [] auth /\ ~paused /\ amount > 0 /\ balance < amount -> "InsufficientBalance"
    [] OTHER -> IF receives THEN "Ok" ELSE "TransferFailed"

\* operator auth, not paused, amount > 0, not processed, balance, transfer (which
\* panics, and so rolls the call back, when the merchant cannot receive).
PayResult(auth, paused, amount, done, balance, receives) ==
  CASE ~auth -> "NotAuthorized"
    [] auth /\ paused -> "Paused"
    [] auth /\ ~paused /\ amount <= 0 -> "InvalidAmount"
    [] auth /\ ~paused /\ amount > 0 /\ done -> "AlreadyProcessed"
    [] auth /\ ~paused /\ amount > 0 /\ ~done /\ balance < amount -> "InsufficientBalance"
    [] OTHER -> IF receives THEN "Ok" ELSE "TransferFailed"
=============================================================================
