------------------------------ MODULE TroyPool ------------------------------
(***************************************************************************)
(* The Soroban contract that holds the USDC pool and pays merchants.       *)
(* One action per entry point; a call that returns Err or panics rolls     *)
(* everything back and leaves only its reply.  Every address may try every *)
(* call: require_auth is the comparison of the caller with the stored      *)
(* role.  Storage TTLs are left out: Persistent entries archive and are    *)
(* restored with their value, so an entry never reads as absent.           *)
(***************************************************************************)
EXTENDS PayGuards, FiniteSets, Sequences, Sums

CONSTANTS
  Accounts,      \* addresses: signers and merchants
  Pool,          \* the contract's own address
  TxIds,         \* tx_id = deriveIds(order)
  Amounts,       \* the amounts a call may carry, positive or not
  MaxFunding     \* bound: USDC ever sent into the pool

ASSUME PoolAssumption ==
  /\ Pool \notin Accounts
  /\ Accounts # {}
  /\ Amounts \subseteq Int
  /\ MaxFunding \in Nat

VARIABLES
  admin, operator,   \* instance storage: the two roles
  paused,            \* instance storage: the pause flag
  processed,         \* persistent storage: the replay guard
  wallet,            \* the USDC token's balances (external contract)
  trusts,            \* the addresses that can receive USDC (external)
  emitted,           \* the PaymentMade events, in order
  code,              \* the contract's current wasm
  reply,             \* the last pay() call: its tx_id and result
  funded             \* USDC sent into the pool so far

vars == <<admin, operator, paused, processed, wallet, trusts, emitted, code, reply,
          funded>>

Holders == Accounts \cup {Pool}

\* __constructor: both roles bound, not paused, nothing in the pool yet.
Init ==
  /\ admin \in Accounts
  /\ operator \in Accounts
  /\ paused = FALSE
  /\ processed = {}
  /\ wallet = [a \in Holders |-> 0]
  /\ trusts = Holders
  /\ emitted = <<>>
  /\ code = "troy_pool"
  /\ reply = [tx |-> "none", result |-> "none"]
  /\ funded = 0

\* What a pay() call returns in this state.
ResultOf(signer, tx, amount, merchant) ==
  PayResult(signer = operator, paused, amount, tx \in processed, wallet[Pool],
            merchant \in trusts)

\* transfer(pool, merchant, amount); the pool may be its own merchant.
Transferred(merchant, amount) ==
  IF merchant = Pool
  THEN wallet
  ELSE [wallet EXCEPT ![Pool] = @ - amount, ![merchant] = @ + amount]

\* Mutant: the payment is made and its event is not published.
PayOkNoEvent(signer, tx, amount, merchant) ==
  /\ ResultOf(signer, tx, amount, merchant) = "Ok"
  /\ processed' = processed \cup {tx}
  /\ wallet' = Transferred(merchant, amount)
  /\ reply' = [tx |-> tx, result |-> "Ok"]
  /\ UNCHANGED <<admin, operator, paused, trusts, emitted, code, funded>>

PayOk(signer, tx, amount, merchant) ==
  /\ ResultOf(signer, tx, amount, merchant) = "Ok"
  /\ processed' = processed \cup {tx}
  /\ wallet' = Transferred(merchant, amount)
  /\ emitted' = Append(emitted, [tx |-> tx, to |-> merchant, amount |-> amount])
  /\ reply' = [tx |-> tx, result |-> "Ok"]
  /\ UNCHANGED <<admin, operator, paused, trusts, code, funded>>

PayErr(signer, tx, amount, merchant) ==
  /\ ResultOf(signer, tx, amount, merchant) # "Ok"
  /\ reply' = [tx |-> tx, result |-> ResultOf(signer, tx, amount, merchant)]
  /\ UNCHANGED <<admin, operator, paused, processed, wallet, trusts, emitted, code, funded>>

\* The code modelled here runs until an upgrade replaces it.
Pay ==
  /\ code = "troy_pool"
  /\ \E signer \in Accounts, tx \in TxIds, amount \in Amounts, merchant \in Holders :
       PayOk(signer, tx, amount, merchant) \/ PayErr(signer, tx, amount, merchant)

Pause(signer) ==
  /\ code = "troy_pool"
  /\ signer = admin
  /\ paused' = TRUE
  /\ UNCHANGED <<admin, operator, processed, wallet, trusts, emitted, code, reply, funded>>

Unpause(signer) ==
  /\ code = "troy_pool"
  /\ signer = admin
  /\ paused' = FALSE
  /\ UNCHANGED <<admin, operator, processed, wallet, trusts, emitted, code, reply, funded>>

SetOperator(signer, new) ==
  /\ code = "troy_pool"
  /\ signer = admin
  /\ operator' = new
  /\ UNCHANGED <<admin, paused, processed, wallet, trusts, emitted, code, reply, funded>>

SetAdmin(signer, new) ==
  /\ code = "troy_pool"
  /\ signer = admin
  /\ admin' = new
  /\ UNCHANGED <<operator, paused, processed, wallet, trusts, emitted, code, reply, funded>>

\* upgrade keeps the address, the storage and the balance.
Upgrade(signer) ==
  /\ code = "troy_pool"
  /\ signer = admin
  /\ code' = "other"
  /\ UNCHANGED <<admin, operator, paused, processed, wallet, trusts, emitted, reply, funded>>

-----------------------------------------------------------------------------
(* The token contract and the merchants (external).                        *)

\* The mint leg of a settlement, or anyone, sends USDC to the pool.
Fund ==
  /\ funded < MaxFunding
  /\ funded' = funded + 1
  /\ wallet' = [wallet EXCEPT ![Pool] = @ + 1]
  /\ UNCHANGED <<admin, operator, paused, processed, trusts, emitted, code, reply>>

\* A merchant opens or closes its USDC trustline.
SetTrust(a) ==
  /\ trusts' \in {trusts \cup {a}, trusts \ {a}}
  /\ UNCHANGED <<admin, operator, paused, processed, wallet, emitted, code, reply, funded>>

Next ==
  \/ Pay
  \/ \E signer \in Accounts : Pause(signer) \/ Unpause(signer) \/ Upgrade(signer)
  \/ \E signer, new \in Accounts : SetOperator(signer, new) \/ SetAdmin(signer, new)
  \/ Fund
  \/ \E a \in Accounts : SetTrust(a)

Spec == Init /\ [][Next]_vars

-----------------------------------------------------------------------------
(* Properties.                                                             *)

\* The shape of the storage; every call answers with a result the backend's
\* revert classifier knows, a replay with an error and not with a silent no-op.
TypeOK ==
  /\ admin \in Accounts /\ operator \in Accounts
  /\ paused \in BOOLEAN
  /\ processed \subseteq TxIds
  /\ wallet \in [Holders -> Int]
  /\ trusts \subseteq Holders
  /\ emitted \in Seq([tx : TxIds, to : Holders, amount : Amounts])
  /\ code \in {"troy_pool", "other"}
  /\ reply \in [tx : TxIds \cup {"none"}, result : PayResults \cup {"none"}]
  /\ funded \in 0 .. MaxFunding

\* One PaymentMade per tx_id, ever, through pauses, operator rotations and an
\* upgrade, and the replay guard is set exactly for the orders that were paid.
PaidOnce ==
  /\ \A i, j \in DOMAIN emitted : emitted[i].tx = emitted[j].tx => i = j
  /\ processed = {emitted[i].tx : i \in DOMAIN emitted}

\* The refund signal is sound: a call that answers InsufficientBalance was for
\* an order the pool has not paid.  The backend voids the customer's charge on
\* that answer (classify-revert.ts), so a paid order must never give it.
RefundSignalSound ==
  reply.result = "InsufficientBalance" => reply.tx \notin processed

\* pay() never overdraws the pool.
NeverOverdrawn == wallet[Pool] >= 0

\* What each event says left the pool.
Outflow == [i \in DOMAIN emitted |-> IF emitted[i].to = Pool THEN 0 ELSE emitted[i].amount]

\* The pool holds what it was sent less what its events say it paid out: the
\* identity the off-chain reconciler's drift check is built on.
PoolConserved == wallet[Pool] = funded - SumOf(Outflow, DOMAIN emitted)
=============================================================================
