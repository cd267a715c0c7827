----------------------------- MODULE LedgerBook -----------------------------
(***************************************************************************)
(* The double-entry ledger (packages/ledger), as operators on a journal.   *)
(*                                                                         *)
(* A journal is the set of its entries: an entry's sequence number is its  *)
(* position, which nothing but the replay check reads, and a ref occurs at *)
(* most once, so the set loses nothing.  The sides of an entry are sets of *)
(* legs: no entry the code posts has two legs of one account on one side.  *)
(* Where the code throws, the May... predicate of the posting is false.    *)
(***************************************************************************)
EXTENDS Integers, FiniteSets, Sums

\* ACCOUNT_CURRENCY: every account but the pool's is kept in TRY.
TryAccounts == {"FIAT_CASH", "SPREAD_REVENUE", "PSP_FEE", "EXTERNAL_FUNDING"}
Accounts == TryAccounts \cup {"USDC_POOL"}

Leg(account, native, kurus) == [account |-> account, native |-> native, kurus |-> kurus]
TryLeg(account, kurus) == Leg(account, kurus, kurus)

SumKurus(legs) == SumOf([l \in legs |-> l.kurus], legs)
SumNative(legs) == SumOf([l \in legs |-> l.native], legs)

\* validateBalanced: both sides there, every amount positive, a TRY leg worth what
\* it says, and the two sides equal in kurus.
Balanced(debits, credits) ==
  /\ debits # {} /\ credits # {}
  /\ \A l \in debits \cup credits :
       /\ l.native > 0 /\ l.kurus > 0
       /\ l.account \in TryAccounts => l.native = l.kurus
  /\ SumKurus(debits) = SumKurus(credits)

HasRef(journal, ref) == \E e \in journal : e.ref = ref

\* post: validated, refused when the ref is known, else durably appended.
MayPost(journal, e) == Balanced(e.debits, e.credits) /\ ~HasRef(journal, e.ref)

\* hydrate: a replayed journal obeys the same laws, or the boot fails.
Hydrates(journal) ==
  /\ \A e \in journal : Balanced(e.debits, e.credits)
  /\ \A e, f \in journal : e.ref = f.ref => e = f

\* recordSettlement's own checks, before it builds the legs.
ValidSettlement(stroops, userTry, spread, fee) ==
  /\ stroops > 0 /\ userTry > 0
  /\ spread >= 0 /\ spread < userTry
  /\ fee >= 0 /\ fee <= userTry

\* The entry of one settled order: cash and fee against USDC at mid and spread.
SettlementEntry(ref, stroops, userTry, spread, fee) ==
  [ref |-> ref, kind |-> "SETTLEMENT",
   debits |-> {TryLeg("FIAT_CASH", userTry - fee)}
              \cup (IF fee > 0 THEN {TryLeg("PSP_FEE", fee)} ELSE {}),
   credits |-> {Leg("USDC_POOL", stroops, userTry - spread)}
               \cup (IF spread > 0 THEN {TryLeg("SPREAD_REVENUE", spread)} ELSE {})]

\* The entry of USDC that entered the pool (recordTopUp).
TopUpEntry(ref, stroops, value) ==
  [ref |-> ref, kind |-> "TOPUP",
   debits |-> {Leg("USDC_POOL", stroops, value)},
   credits |-> {TryLeg("EXTERNAL_FUNDING", value)}]

OfAccount(legs, account) == {l \in legs : l.account = account}

\* What an entry does to an account: debits raise it, credits lower it.
NativeEffect(e, account) ==
  SumNative(OfAccount(e.debits, account)) - SumNative(OfAccount(e.credits, account))
KurusEffect(e, account) ==
  SumKurus(OfAccount(e.debits, account)) - SumKurus(OfAccount(e.credits, account))

\* nativeBalance and balanceKurus of an account.
NativeBalance(journal, account) == SumOf([e \in journal |-> NativeEffect(e, account)], journal)
BalanceKurus(journal, account) == SumOf([e \in journal |-> KurusEffect(e, account)], journal)

\* detectDrift: what the chain holds less what the books expect.
DriftOf(journal, observed) == observed - NativeBalance(journal, "USDC_POOL")
=============================================================================
