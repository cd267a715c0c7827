------------------------------- MODULE Refill -------------------------------
(***************************************************************************)
(* The treasury: the solvency gate that lets an order in, the settlement   *)
(* worker that books each payout and refills the pool by minting, the      *)
(* write-ahead journal of mints, the operator's manual top-ups, the boot   *)
(* that rebuilds it all.                                                   *)
(*                                                                         *)
(* Three kinds of state: the chain, the disk (the ledger's journal, the    *)
(* evidence log, the reservations, the mint intents) and the memory of one *)
(* process life.  The settlement of an order in between (charge, submit,   *)
(* observe) is module Settlement; here an order with a reservation may be  *)
(* paid on chain or released, and a payment may be witnessed.              *)
(*                                                                         *)
(* The worker's loop is sequential; `work' is the record it has claimed    *)
(* and the await it stands at.  When a pending record becomes due is left  *)
(* to the environment.                                                     *)
(***************************************************************************)
EXTENDS LedgerBook, Sequences

CONSTANTS
  Orders,        \* orders, each with its facts
  Facts,         \* Facts[o]: stroops, tryKurus, spread, fee of order o
  Transfers,     \* USDC transfers of the admin into the pool, one unit each
  Seed,          \* the pool's opening balance
  Rates,         \* what the oracle may answer, in TRY per USDC
  MaxMints,      \* bound: mint transactions sent
  MaxCrashes,    \* bound: process deaths
  MaxLateThrows  \* bound: mint calls that throw after the send was taken

ASSUME RefillAssumption ==
  /\ IsFiniteSet(Orders) /\ IsFiniteSet(Transfers)
  /\ {Seed, MaxMints, MaxCrashes, MaxLateThrows} \subseteq Nat
  /\ Rates \subseteq Nat \ {0}
  /\ Facts \in [Orders -> [stroops : Nat, tryKurus : Nat, spread : Nat, fee : Nat]]
  /\ \A o \in Orders :
       ValidSettlement(Facts[o].stroops, Facts[o].tryKurus, Facts[o].spread, Facts[o].fee)

\* What each order pays out.
Stroops == [o \in Orders |-> Facts[o].stroops]

VARIABLES
  bal,      \* chain: USDC in the pool
  paid,     \* chain: orders whose pay() succeeded
  mints,    \* chain: mint transactions in the order they were signed
  issSeq,   \* chain: the issuer account's sequence
  moved,    \* chain: admin transfers that landed
  journal,  \* disk: the ledger
  evid,     \* disk: orders in the evidence log
  resv,     \* disk: reservations: "none", "held", "settled", "released"
  intents,  \* disk: the life that opened the mint intent of an order, 0 for none
  proc,     \* memory: [at, life, manual, base]
  pend,     \* memory: the pending-settlement records
  marking,  \* memory: orders whose evidence is appended, reservation not yet marked
  work,     \* memory: the settlement worker
  spent     \* how much of each bound is used up

vars == <<bal, paid, mints, issSeq, moved, journal, evid, resv, intents, proc,
          pend, marking, work, spent>>

chain == <<bal, paid, mints, issSeq, moved>>
disk == <<journal, evid, resv, intents>>
memory == <<proc, pend, marking, work>>

Idle == [at |-> "idle", o |-> "none", amt |-> 0]
NoPending == [o \in Orders |-> "none"]

Init ==
  /\ bal = Seed
  /\ paid = {} /\ mints = <<>> /\ issSeq = 0 /\ moved = {}
  /\ journal = {} /\ evid = {}
  /\ resv = [o \in Orders |-> "none"]
  /\ intents = [o \in Orders |-> 0]
  /\ proc = [at |-> "down", life |-> 0, manual |-> FALSE, base |-> 0]
  /\ pend = NoPending
  /\ marking = {}
  /\ work = Idle
  /\ spent = [crashes |-> 0, throws |-> 0]

Up == proc.at = "up"
PayRef(o) == <<"order", o>>
TopUpRef(o) == <<"topup", o>>
ManualRef(t) == <<"manual", t>>

-----------------------------------------------------------------------------
(* The solvency gate: SqliteOrderStore and ReservationLedger.              *)

\* Every reservation row counts, held or settled; time frees nothing.
SumReserved == SumOf(Stroops, {o \in Orders : resv[o] \in {"held", "settled"}})

\* Mutant: a settled reservation no longer counts against the boot balance.
AvailableHeldOnly == proc.base - SumOf(Stroops, {o \in Orders : resv[o] = "held"})

Available == proc.base - SumReserved

\* reserve(): check and insert in one transaction under the pool mutex.
Reserve(o) ==
  /\ Up
  /\ resv[o] = "none"
  /\ Available >= Facts[o].stroops
  /\ resv' = [resv EXCEPT ![o] = "held"]
  /\ UNCHANGED <<chain, journal, evid, intents, memory, spent>>

\* releaseReservation, on an end proven not to pay.
ReleaseReservation(o) ==
  /\ Up
  /\ resv[o] = "held" /\ o \notin paid
  /\ resv' = [resv EXCEPT ![o] = "released"]
  /\ UNCHANGED <<chain, journal, evid, intents, memory, spent>>

\* appendEvidence: the file first, then the reservation's settled mark.
AppendEvidence(o) ==
  /\ Up
  /\ o \in paid \ evid
  /\ evid' = evid \cup {o}
  /\ marking' = marking \cup {o}
  /\ UNCHANGED <<chain, journal, resv, intents, proc, pend, work, spent>>

MarkReservationSettled(o) ==
  /\ Up
  /\ o \in marking
  /\ resv' = [resv EXCEPT ![o] = IF @ = "held" THEN "settled" ELSE @]
  /\ marking' = marking \ {o}
  /\ UNCHANGED <<chain, journal, evid, intents, proc, pend, work, spent>>

-----------------------------------------------------------------------------
(* The settlement worker: settleAndRebalance.                              *)

PayEntry(o) ==
  SettlementEntry(PayRef(o), Facts[o].stroops, Facts[o].tryKurus, Facts[o].spread, Facts[o].fee)

\* Phase A under the order's lock: book the outflow (a known ref is a previous
\* life's booking), then record the pending settlement once, in mint mode only.
Arm(o) ==
  /\ Up
  /\ work.at = "idle"
  /\ o \in evid
  /\ ~HasRef(journal, PayRef(o)) \/ (~proc.manual /\ pend[o] = "none")
  /\ journal' = IF MayPost(journal, PayEntry(o)) THEN journal \cup {PayEntry(o)} ELSE journal
  /\ pend' = [pend EXCEPT ![o] = IF ~proc.manual /\ @ = "none" THEN "pending" ELSE @]
  /\ UNCHANGED <<chain, evid, resv, intents, proc, marking, work, spent>>

\* Phase B: a due record of a money-good order is claimed.  (A record without
\* evidence would be voided; evidence is never removed, so there is none.)
Claim(o) ==
  /\ Up
  /\ work.at = "idle"
  /\ pend[o] = "pending" /\ o \in evid
  /\ pend' = [pend EXCEPT ![o] = "settling"]
  /\ work' = [at |-> "rate", o |-> o, amt |-> 0]
  /\ UNCHANGED <<chain, disk, proc, marking, spent>>

\* TryDrivenRebalancePolicy.plan: all collected TRY at the live rate, rounded down.
PlanStroops(o, rate) == Facts[o].tryKurus \div rate

\* Mutant: an intent left by any life is taken as one's own.
IsBlockedNever(o) == FALSE

\* isBlocked: an intent another life left open.
IsBlocked(o) == intents[o] \notin {0, proc.life}

\* markFailed: back to pending, a later tick tries again.
Failed(o) == pend' = [pend EXCEPT ![o] = "pending"] /\ work' = Idle
Settled(o) == pend' = [pend EXCEPT ![o] = "settled"] /\ work' = Idle

\* The oracle or the plan throws: nothing was done.
RateFails ==
  /\ work.at = "rate"
  /\ Failed(work.o)
  /\ UNCHANGED <<chain, disk, proc, marking, spent>>

\* The durable ledger already has the ref: close the intent and the record.
AlreadyBooked ==
  /\ work.at = "rate"
  /\ HasRef(journal, TopUpRef(work.o))
  /\ intents' = [intents EXCEPT ![work.o] = 0]
  /\ Settled(work.o)
  /\ UNCHANGED <<chain, journal, evid, resv, proc, marking, spent>>

\* A previous life may have minted: refuse and stay visible.
MintBlocked ==
  /\ work.at = "rate"
  /\ ~HasRef(journal, TopUpRef(work.o))
  /\ IsBlocked(work.o)
  /\ Failed(work.o)
  /\ UNCHANGED <<chain, disk, proc, marking, spent>>

\* Mutant: the mint is sent first, the intent is not written.
OpenIntentSkipped ==
  /\ work.at = "rate"
  /\ ~HasRef(journal, TopUpRef(work.o)) /\ ~IsBlocked(work.o)
  /\ \E rate \in Rates :
       LET amt == PlanStroops(work.o, rate) IN
       IF amt > 0 THEN work' = [work EXCEPT !.at = "opened", !.amt = amt] /\ UNCHANGED pend
                  ELSE Failed(work.o)
  /\ UNCHANGED <<chain, disk, proc, marking, spent>>

\* Write-ahead: the intent is on disk before the mint can exist.  topUp refuses an
\* amount that rounds to nothing; its intent stays open.
OpenIntent ==
  /\ work.at = "rate"
  /\ ~HasRef(journal, TopUpRef(work.o)) /\ ~IsBlocked(work.o)
  /\ intents' = [intents EXCEPT ![work.o] = proc.life]
  /\ \E rate \in Rates :
       LET amt == PlanStroops(work.o, rate) IN
       IF amt > 0 THEN work' = [work EXCEPT !.at = "opened", !.amt = amt] /\ UNCHANGED pend
                  ELSE Failed(work.o)
  /\ UNCHANGED <<chain, journal, evid, resv, proc, marking, spent>>

\* mintToPool: read the issuer's sequence, simulate, sign, send.
SendMint ==
  /\ work.at = "opened"
  /\ Len(mints) < MaxMints
  /\ mints' = Append(mints, [o |-> work.o, amt |-> work.amt, seq |-> issSeq + 1, st |-> "net"])
  /\ work' = [work EXCEPT !.at = "sent"]
  /\ UNCHANGED <<bal, paid, issSeq, moved, disk, proc, pend, marking, spent>>

\* The read, the simulation or the send is refused: nothing is on the network.
SendRefused ==
  /\ work.at = "opened"
  /\ Failed(work.o)
  /\ UNCHANGED <<chain, disk, proc, marking, spent>>

Sent == mints[Len(mints)]

\* The finality poll finds the transaction.
FinalitySuccess ==
  /\ work.at = "sent"
  /\ Sent.st = "landed"
  /\ work' = [work EXCEPT !.at = "landed"]
  /\ UNCHANGED <<chain, disk, proc, pend, marking, spent>>

\* It FAILED on chain, or its maxTime passes within the poll's budget: a throw that
\* minted nothing.
FinalityFails ==
  /\ work.at = "sent"
  /\ Sent.st \in {"failed", "expired"}
  /\ Failed(work.o)
  /\ UNCHANGED <<chain, disk, proc, marking, spent>>

\* A poll or the final balance read throws although the transaction is out: the
\* provider drops the ref from its cache, the worker marks the record failed.
LateThrow ==
  /\ work.at \in {"sent", "landed"}
  /\ Sent.st \in {"net", "landed"}
  /\ spent.throws < MaxLateThrows
  /\ spent' = [spent EXCEPT !.throws = @ + 1]
  /\ Failed(work.o)
  /\ UNCHANGED <<chain, disk, proc, marking>>

\* Mutant: the amount is planned again at the rate of the moment.
BookTopUpReplanned ==
  /\ work.at = "landed"
  /\ \E rate \in Rates :
       journal' = journal \cup {TopUpEntry(TopUpRef(work.o), PlanStroops(work.o, rate),
                                           Facts[work.o].tryKurus)}
  /\ work' = [work EXCEPT !.at = "booked"]
  /\ UNCHANGED <<chain, evid, resv, intents, proc, pend, marking, spent>>

\* recordTopUp.
BookTopUp ==
  LET e == TopUpEntry(TopUpRef(work.o), work.amt, Facts[work.o].tryKurus) IN
  /\ work.at = "landed"
  /\ journal' = IF MayPost(journal, e) THEN journal \cup {e} ELSE journal
  /\ work' = [work EXCEPT !.at = "booked"]
  /\ UNCHANGED <<chain, evid, resv, intents, proc, pend, marking, spent>>

CloseIntent ==
  /\ work.at = "booked"
  /\ intents' = [intents EXCEPT ![work.o] = 0]
  /\ work' = [work EXCEPT !.at = "closed"]
  /\ UNCHANGED <<chain, journal, evid, resv, proc, pend, marking, spent>>

\* creditPool under the pool mutex, then markSettled.
CreditPool ==
  /\ work.at = "closed"
  /\ proc' = [proc EXCEPT !.base = @ + work.amt]
  /\ Settled(work.o)
  /\ UNCHANGED <<chain, disk, marking, spent>>

Worker ==
  \/ RateFails \/ AlreadyBooked \/ MintBlocked \/ OpenIntent \/ SendMint \/ SendRefused
  \/ FinalitySuccess \/ FinalityFails \/ BookTopUp \/ CloseIntent \/ CreditPool

-----------------------------------------------------------------------------
(* Process life: boot, crash, and what the operator does by hand.          *)

\* buildTestnetServerDeps, first the journal is replayed and the chain is read.
BootRead ==
  /\ proc.at = "down"
  /\ Hydrates(journal)
  /\ \E m \in BOOLEAN :
       proc' = [at |-> "read", life |-> proc.life + 1, manual |-> m, base |-> bal]
  /\ UNCHANGED <<chain, disk, pend, marking, work, spent>>

\* The opening balance is booked once, on an empty journal.
BootGenesis ==
  /\ proc.at = "read"
  /\ \E rate \in Rates :
       journal' = IF journal = {} /\ proc.base > 0
                  THEN {TopUpEntry(<<"genesis">>, proc.base, proc.base * rate)}
                  ELSE journal
  /\ proc' = [proc EXCEPT !.at = "opened"]
  /\ UNCHANGED <<chain, evid, resv, intents, pend, marking, work, spent>>

\* The boot sweep: a payout in the fresh chain read must not be debited again.
Swept ==
  [o \in Orders |-> IF resv[o] = "settled" \/ o \in evid THEN "released" ELSE resv[o]]

BootSweep ==
  /\ proc.at = "opened"
  /\ resv' = Swept
  /\ proc' = [proc EXCEPT !.at = "up"]
  /\ UNCHANGED <<chain, journal, evid, intents, pend, marking, work, spent>>

\* The process dies anywhere, also because the durable log refused a write.
Crash ==
  /\ proc.at # "down"
  /\ spent.crashes < MaxCrashes
  /\ spent' = [spent EXCEPT !.crashes = @ + 1]
  /\ proc' = [proc EXCEPT !.at = "down"]
  /\ pend' = NoPending /\ marking' = {} /\ work' = Idle
  /\ UNCHANGED <<chain, disk>>

Landed(o) == {n \in DOMAIN mints : mints[n].o = o /\ mints[n].st = "landed"}

\* An unresolved intent: the operator looks at the chain and books the mint that
\* landed, or clears the intent of one that no longer can.
OperatorResolves(o) ==
  /\ proc.at = "down"
  /\ intents[o] # 0
  /\ ~HasRef(journal, TopUpRef(o))
  /\ \/ \E n \in Landed(o) :
          /\ journal' = journal \cup {TopUpEntry(TopUpRef(o), mints[n].amt, Facts[o].tryKurus)}
          /\ UNCHANGED intents
     \/ /\ \A n \in DOMAIN mints : mints[n].o = o => mints[n].st \in {"failed", "expired"}
        /\ intents' = [intents EXCEPT ![o] = 0]
        /\ UNCHANGED journal
  /\ UNCHANGED <<chain, evid, resv, memory, spent>>

\* The manual-topup tool: books a confirmed admin transfer, under the process lock
\* and only when it alone explains the difference.
ManualTopUp(t) ==
  /\ proc.at = "down"
  /\ t \in moved
  /\ ~HasRef(journal, ManualRef(t))
  /\ journal # {}
  /\ bal = NativeBalance(journal, "USDC_POOL") + 1
  /\ journal' = journal \cup {TopUpEntry(ManualRef(t), 1, 1)}
  /\ UNCHANGED <<chain, evid, resv, intents, memory, spent>>

-----------------------------------------------------------------------------
(* The chain (external).                                                   *)

PayLands(o) ==
  /\ resv[o] = "held" /\ o \notin paid
  /\ bal >= Facts[o].stroops
  /\ bal' = bal - Facts[o].stroops
  /\ paid' = paid \cup {o}
  /\ UNCHANGED <<mints, issSeq, moved, disk, memory, spent>>

\* A mint is applied under the issuer's next sequence: it succeeds or fails.
MintLands(n) ==
  /\ mints[n].st = "net"
  /\ mints[n].seq = issSeq + 1
  /\ issSeq' = issSeq + 1
  /\ \/ /\ mints' = [mints EXCEPT ![n].st = "landed"]
        /\ bal' = bal + mints[n].amt
     \/ /\ mints' = [mints EXCEPT ![n].st = "failed"]
        /\ UNCHANGED bal
  /\ UNCHANGED <<paid, moved, disk, memory, spent>>

MintExpires(n) ==
  /\ mints[n].st = "net"
  /\ mints' = [mints EXCEPT ![n].st = "expired"]
  /\ UNCHANGED <<bal, paid, issSeq, moved, disk, memory, spent>>

AdminTransfers(t) ==
  /\ t \notin moved
  /\ journal # {}
  /\ moved' = moved \cup {t}
  /\ bal' = bal + 1
  /\ UNCHANGED <<paid, mints, issSeq, disk, memory, spent>>

-----------------------------------------------------------------------------

Boot == BootRead \/ BootGenesis \/ BootSweep

Next ==
  \/ \E o \in Orders :
       \/ Reserve(o) \/ ReleaseReservation(o)
       \/ AppendEvidence(o) \/ MarkReservationSettled(o)
       \/ Arm(o) \/ Claim(o)
       \/ OperatorResolves(o)
       \/ PayLands(o)
  \/ Worker \/ LateThrow
  \/ Boot \/ Crash
  \/ \E t \in Transfers : ManualTopUp(t) \/ AdminTransfers(t)
  \/ \E n \in DOMAIN mints : MintLands(n) \/ MintExpires(n)

Spec == Init /\ [][Next]_vars

-----------------------------------------------------------------------------
(* Properties.                                                             *)

TypeOK ==
  /\ bal \in Nat /\ issSeq \in Nat
  /\ paid \subseteq Orders /\ evid \subseteq paid /\ moved \subseteq Transfers
  /\ \A n \in DOMAIN mints :
       mints[n] \in [o : Orders, amt : Nat \ {0}, seq : Nat,
                     st : {"net", "landed", "failed", "expired"}]
  /\ Hydrates(journal)
  /\ resv \in [Orders -> {"none", "held", "settled", "released"}]
  /\ intents \in [Orders -> 0 .. proc.life]
  /\ proc.at \in {"down", "read", "opened", "up"}
  /\ pend \in [Orders -> {"none", "pending", "settling", "settled"}]
  /\ marking \subseteq evid
  /\ work.at \in {"idle", "rate", "opened", "sent", "landed", "booked", "closed"}

\* The same fiat is never spent twice: at most one mint per order reaches the chain,
\* whatever dies between the mint and its booking (the mint write-ahead journal).
\* This is what the worker and the rebalance provider say of every throw.
MintedOnce == \A o \in Orders : Cardinality(Landed(o)) <= 1

\* It holds as long as no mint call throws after its transaction was taken.
MintedOnceUnlessLate == spent.throws = 0 => MintedOnce

\* No mint on chain is invisible: it is in the books, or an open intent asks for it.
MintVisible ==
  spent.throws = 0 =>
    \A o \in Orders : Landed(o) # {} => HasRef(journal, TopUpRef(o)) \/ intents[o] # 0

\* The gate never promises the same coin twice: what is reserved and not yet paid is
\* in the pool, across restarts, sweeps, refills and half-recorded payouts.
PromisesCovered == SumOf(Stroops, {o \in Orders : resv[o] = "held" /\ o \notin paid}) <= bal

\* What was minted for each order.
Minted == [o \in Orders |-> SumOf([n \in DOMAIN mints |-> mints[n].amt], Landed(o))]

\* The books explain the chain: what they miss is exactly the payouts, the mints and
\* the transfers that are not booked yet, and a booked mint is booked at the amount
\* that was minted, whatever the rate is by then.  (With TypeOK.)
BooksExplainChain ==
  TypeOK /\ (journal # {} /\ spent.throws = 0 =>
    bal = NativeBalance(journal, "USDC_POOL")
          - SumOf(Stroops, {o \in paid : ~HasRef(journal, PayRef(o))})
          + SumOf(Minted, {o \in Orders : ~HasRef(journal, TopUpRef(o))})
          + Cardinality({t \in moved : ~HasRef(journal, ManualRef(t))}))
=============================================================================
