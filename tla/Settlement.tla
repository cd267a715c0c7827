----------------------------- MODULE Settlement -----------------------------
(***************************************************************************)
(* The settlement of customers' orders end to end: the driver that runs    *)
(* the state machine's effects, the durable rows it leaves, the sequence   *)
(* ledger, the solvency reservations, the poll worker and the webhook that *)
(* resume orders, the payment provider and the Stellar account it all      *)
(* rests on.                                                               *)
(*                                                                         *)
(* An order is driven by one RUN at a time (the per-order lock).  A run    *)
(* walks the effects of one transition after another; every await between  *)
(* two of them is a point where another order may run, the chain may move, *)
(* an RPC call may throw (the run dies, its order is retried from the      *)
(* rows) or the process may crash (every run dies, then the boot sweep).   *)
(*                                                                         *)
(* Data is abstracted to what decides control:                             *)
(*   - every order pays one unit;                                          *)
(*   - a transaction hash is its position in the order's list of signed    *)
(*     transactions (the journal), 0 when the field is null;               *)
(*   - payMaxTimeUnix is the position of the transaction it was computed   *)
(*     for, so "the ledger has passed maxTime" is that transaction's exp   *)
(*     flag; all transactions get the same timebounds, so they expire in   *)
(*     the order in which they were signed;                                *)
(*   - paymentId and the form token are Booleans: known or not.            *)
(***************************************************************************)
EXTENDS SeqOps, OrderMachine, PayGuards, PspAnswers

CONSTANTS
  PoolFunds,         \* USDC units in the pool at the start
  MaxDeadRetries,    \* policy: same-sequence replacements per order
  MaxRevertRetries,  \* policy: fresh-sequence re-drives per order
  MaxReversalRetries,\* policy: void attempts after the first
  MaxFaults,         \* bound: crashes, throwing calls, unreadable answers
  MaxPauses,         \* bound: how often the admin pauses the pool
  MaxTraps,          \* bound: payments whose transfer fails when applied
  MaxDrains          \* bound: units the pool loses other than by pay()

ASSUME SettlementAssumption ==
  /\ {PoolFunds, MaxDeadRetries, MaxRevertRetries, MaxReversalRetries, MaxFaults,
      MaxPauses, MaxTraps, MaxDrains} \subseteq Nat

VARIABLES
  run,      \* run[o]: the drive of order o in progress, if any
  reg,      \* registry_orders: the state and ctx of the last quiescent put
  row,      \* store_orders: what persistState wrote
  resv,     \* reservations: "none", "held" or "settled"
  base,     \* the pool balance the process read at boot
  cnt,      \* retry_counters, saturated one above their budget
  flagged,  \* orders in the losses table
  evid,     \* the evidence log: the witness handed to the reconciler
  ledger,   \* the sequence ledger (SeqOps)
  sale,     \* the payment provider's view of the TRY sale (external)
  txs,      \* the signed transactions of each order, oldest first (external)
  acctSeq,  \* the operator account's on-chain sequence (external)
  pool,     \* the TroyPool contract: balance, processed, paused (external)
  spent     \* how much of each environment bound is used up

vars == <<run, reg, row, resv, base, cnt, flagged, evid, ledger, sale, txs, acctSeq,
          pool, spent>>

backend == <<reg, row, resv, base, cnt, flagged, evid, ledger>>
chain == <<txs, acctSeq, pool>>

NoCtx == [seq |-> NoSeq, hash |-> 0, maxT |-> 0, pid |-> FALSE, tok |-> FALSE]
NoRow == [st |-> "none", seq |-> NoSeq, hash |-> 0, pid |-> FALSE]
NoReg == [st |-> "none", ctx |-> NoCtx]
Off == [by |-> "none", st |-> "none", todo |-> <<>>, ctx |-> NoCtx, sub |-> "none"]

Init ==
  /\ run = [o \in Orders |-> Off]
  /\ reg = [o \in Orders |-> NoReg]
  /\ row = [o \in Orders |-> NoRow]
  /\ resv = [o \in Orders |-> "none"]
  /\ base = PoolFunds
  /\ cnt = [o \in Orders |-> [dead |-> 0, revert |-> 0, reversal |-> 0]]
  /\ flagged = {}
  /\ evid = [o \in Orders |-> [hash |-> 0, seq |-> NoSeq]]
  /\ ledger = FreshLedger
  /\ sale = [o \in Orders |-> "none"]
  /\ txs = [o \in Orders |-> <<>>]
  /\ acctSeq = BaseSeq
  /\ pool = [balance |-> PoolFunds, processed |-> {}, paused |-> FALSE]
  /\ spent = [faults |-> 0, pauses |-> 0, traps |-> 0, drains |-> 0]

-----------------------------------------------------------------------------
(* Reading the rows: SqliteOrderRegistry.toRecord.                         *)

\* effectiveState, rules 1 to 4.
EffectiveState(o) ==
  IF reg[o].st = "Reconciled" THEN "Reconciled"
  ELSE IF evid[o].hash # 0 THEN "UsdcConfirmed"
  ELSE IF row[o].st = "UsdcSubmitted" /\ reg[o].st \in {"Reserved", "SolvencyReserved"}
       THEN "UsdcSubmitted"
  ELSE reg[o].st

\* The ctx overlay: where the store row has a value it wins.  payMaxTimeUnix is
\* not a column of the store row, so it always comes from the last put.
EffectiveCtx(o) ==
  LET c == reg[o].ctx
      r == row[o] IN
  [c EXCEPT !.seq  = IF r.seq # NoSeq THEN r.seq ELSE @,
            !.hash = IF r.hash # 0 THEN r.hash ELSE @,
            !.pid  = r.pid \/ @]

\* persistState with inFlightPatch: COALESCE keeps what the patch leaves null.
Patched(o, st, c) ==
  [st   |-> st,
   seq  |-> IF c.seq # NoSeq THEN c.seq ELSE row[o].seq,
   hash |-> IF c.hash # 0 THEN c.hash ELSE row[o].hash,
   pid  |-> c.pid \/ row[o].pid]

\* availableStroops: the balance read at boot less every reservation row.
Available == base - Cardinality({o \in Orders : resv[o] # "none"})

-----------------------------------------------------------------------------
(* Observing a transaction: client.observe, step, resolveDeadness.         *)

\* Mutant: an unresolved transaction counts as dead before its maxTime.
VerdictNoExpiry(o, h, s, m) ==
  CASE txs[o][h].res = "Ok" -> "LANDED_SUCCESS"
    [] txs[o][h].res \notin {"Ok", "net"} -> "LANDED_REVERTED"
    [] txs[o][h].res = "net" /\ acctSeq >= s -> "LOSS_REVIEW"
    [] OTHER -> "DEAD_REPLACEABLE"

\* Mutant: past its maxTime a transaction is dead, its result is not looked up.
VerdictClockOnly(o, h, s, m) ==
  CASE txs[o][m].exp -> "DEAD_REPLACEABLE"
    [] txs[o][h].res = "net" /\ ~txs[o][m].exp -> "STILL_PENDING"
    [] OTHER -> IF txs[o][h].res = "Ok" THEN "LANDED_SUCCESS" ELSE "LANDED_REVERTED"

\* The account's sequence against ours: consumed by something else, or never to be
\* used by a transaction past its maxTime.
ResolveDeadness(s, expired) ==
  CASE acctSeq >= s -> "LOSS_REVIEW"
    [] acctSeq < s /\ expired -> "DEAD_REPLACEABLE"
    [] OTHER -> "STILL_PENDING"

\* What the chain says of transaction h, given the sequence and the maxTime the
\* caller believes it has.
Verdict(o, h, s, m) ==
  CASE txs[o][h].res = "Ok" -> "LANDED_SUCCESS"
    [] txs[o][h].res \notin {"Ok", "net"} -> "LANDED_REVERTED"
    [] txs[o][h].res = "net" /\ ~txs[o][m].exp -> "STILL_PENDING"
    [] OTHER -> ResolveDeadness(s, txs[o][m].exp)

\* Mutant: a dead first submission is taken for a reverted one.
CoreEventDeadAsRevert(verdict, st) ==
  CASE verdict = "LANDED_SUCCESS" -> "evidenceSuccess"
    [] verdict = "LANDED_REVERTED" -> "evidenceReverted"
    [] verdict = "STILL_PENDING" ->
         IF st = "UsdcSubmitted" THEN "evidencePending" ELSE "pollStillPending"
    [] verdict = "DEAD_REPLACEABLE" ->
         IF st = "UsdcSubmitted" THEN "evidenceReverted" ELSE "pollDead"
    [] OTHER -> "none"

\* Mutant: a consumed sequence is taken for a landed payment.
CoreEventSeqProves(verdict, st) ==
  CASE verdict \in {"LANDED_SUCCESS", "LOSS_REVIEW"} -> "evidenceSuccess"
    [] verdict = "LANDED_REVERTED" -> "evidenceReverted"
    [] verdict = "STILL_PENDING" ->
         IF st = "UsdcSubmitted" THEN "evidencePending" ELSE "pollStillPending"
    [] OTHER -> IF st = "UsdcSubmitted" THEN "evidencePending" ELSE "pollDead"

\* Mutant: the state the event is for is not consulted.
CoreEventAnyState(verdict, st) ==
  CASE verdict = "LANDED_SUCCESS" -> "evidenceSuccess"
    [] verdict = "LANDED_REVERTED" -> "evidenceReverted"
    [] verdict = "STILL_PENDING" ->
         IF st = "UsdcSubmitted" THEN "evidencePending" ELSE "pollStillPending"
    [] verdict = "DEAD_REPLACEABLE" -> "pollDead"
    [] OTHER -> "none"

\* Mutant: a dead transaction is waited for.
CoreEventDeadWaits(verdict, st) ==
  CASE verdict = "LANDED_SUCCESS" -> "evidenceSuccess"
    [] verdict = "LANDED_REVERTED" -> "evidenceReverted"
    [] verdict \in {"STILL_PENDING", "DEAD_REPLACEABLE"} ->
         IF st = "UsdcSubmitted" THEN "evidencePending" ELSE "pollStillPending"
    [] OTHER -> "none"

\* verdictToCore: the event valid in the current state ("none": escalate).
CoreEvent(verdict, st) ==
  CASE verdict = "LANDED_SUCCESS" -> "evidenceSuccess"
    [] verdict = "LANDED_REVERTED" -> "evidenceReverted"
    [] verdict = "STILL_PENDING" ->
         IF st = "UsdcSubmitted" THEN "evidencePending" ELSE "pollStillPending"
    [] verdict = "DEAD_REPLACEABLE" ->
         IF st = "UsdcSubmitted" THEN "evidencePending" ELSE "pollDead"
    [] OTHER -> "none"

-----------------------------------------------------------------------------
(* The driver loop: driver.run.                                            *)

\* Feed an event: an absorbed redelivery, the guarded transition, or a dead
\* letter that throws.
Enter(r, event) ==
  LET e == Transition(r.st, event) IN
  CASE Ignores(r.st, event) -> [r EXCEPT !.todo = <<>>, !.sub = "none"]
    [] ~Ignores(r.st, event) /\ Accepts(r.st, event) /\ GuardPasses(event, e.effects) ->
         [r EXCEPT !.st = e.to, !.todo = e.effects, !.sub = "none"]
    [] OTHER -> [r EXCEPT !.todo = <<"deadLetter">>, !.sub = "none"]

\* The head effect is done: with the rest of the batch, or with the event it fed.
Done(r, fed) ==
  IF fed = "none" THEN [r EXCEPT !.todo = Tail(@), !.sub = "none"] ELSE Enter(r, fed)

NewRun(by, st, c) == [by |-> by, st |-> st, todo |-> <<>>, ctx |-> c, sub |-> "none"]

Step(o, r) == run' = [run EXCEPT ![o] = r]

Doing(o, effect) ==
  /\ run[o].by # "none"
  /\ run[o].todo # <<>>
  /\ Head(run[o].todo) = effect

\* post-increment of a persisted counter, saturated one above its budget
Bump(o, kind, max) == [cnt EXCEPT ![o][kind] = IF @ <= max THEN @ + 1 ELSE @]
WithinBudget(o, kind, max) == cnt[o][kind] + 1 <= max

-----------------------------------------------------------------------------
(* The effects: perform, one action per case.                              *)

FireSolvencyCheck(o) ==
  LET ok == resv[o] # "none" \/ Available >= 1 IN
  /\ Doing(o, "fireSolvencyCheck")
  /\ resv' = [resv EXCEPT ![o] = IF ok /\ @ = "none" THEN "held" ELSE @]
  /\ Step(o, Done(run[o], IF ok THEN "solvencyOk" ELSE "solvencyFail"))
  /\ UNCHANGED <<reg, row, base, cnt, flagged, evid, ledger, sale, chain, spent>>

\* The form opens, or its initialisation is malformed (a timeout included) and
\* nothing can be charged.
FireCheckoutForm(o) ==
  /\ Doing(o, "fireCheckoutForm")
  /\ \E opened \in FormReads :
       \/ /\ opened
          /\ sale' = [sale EXCEPT ![o] = "form"]
          /\ Step(o, [Done(run[o], "none") EXCEPT !.ctx.tok = TRUE])
       \/ /\ ~opened
          /\ Step(o, Done(run[o], "checkoutInitFailed"))
          /\ UNCHANGED sale
  /\ UNCHANGED <<backend, chain, spent>>

AllocateSeq(o) ==
  LET L == Allocated(ledger, o) IN
  /\ Doing(o, "allocateSeq")
  /\ MayAllocate(ledger, o)
  /\ ledger' = L
  /\ Step(o, [Done(run[o], "none") EXCEPT !.ctx.seq = L.byOrder[o]])
  /\ UNCHANGED <<reg, row, resv, base, cnt, flagged, evid, sale, chain, spent>>

ReallocateSeq(o) ==
  LET L == Reallocated(ledger, o) IN
  /\ Doing(o, "reallocateSeq")
  /\ MayReallocate(ledger, o)
  /\ ledger' = L
  /\ Step(o, [Done(run[o], "none") EXCEPT !.ctx.seq = L.byOrder[o]])
  /\ UNCHANGED <<reg, row, resv, base, cnt, flagged, evid, sale, chain, spent>>

PersistInFlight(o) ==
  /\ Doing(o, "persistInFlight")
  /\ row' = [row EXCEPT ![o] = Patched(o, run[o].st, run[o].ctx)]
  /\ Step(o, Done(run[o], "none"))
  /\ UNCHANGED <<reg, resv, base, cnt, flagged, evid, ledger, sale, chain, spent>>

Submitting(o) == Doing(o, "submitPay") \/ Doing(o, "submitReplacementSameSeq")

\* What the simulation of this order's payment answers now.
Simulation(o) ==
  PayResult(TRUE, pool.paused, 1, o \in pool.processed, pool.balance, TRUE)

\* reuseOnDead's test, for the replacement only.
SeqStillOurs(o) ==
  Doing(o, "submitReplacementSameSeq") => OwnedActive(ledger, run[o].ctx.seq, o)

\* submitPay: simulate, journal the signed envelope, send it.  The outcome of
\* the send is not looked at; a refused envelope is one that never lands.
SubmitPay(o) ==
  /\ Submitting(o)
  /\ run[o].sub = "none"
  /\ SeqStillOurs(o)
  /\ Simulation(o) = "Ok"
  /\ txs' = [txs EXCEPT ![o] =
               Append(@, [seq |-> run[o].ctx.seq, res |-> "net", exp |-> FALSE])]
  /\ Step(o, [run[o] EXCEPT !.sub = "sent"])
  /\ UNCHANGED <<backend, sale, acctSeq, pool, spent>>

\* The witness is written to the store row before anything is observed.
RecordHash(o) ==
  /\ Submitting(o)
  /\ run[o].sub = "sent"
  /\ row' = [row EXCEPT ![o] =
               Patched(o, run[o].st, [run[o].ctx EXCEPT !.hash = Len(txs[o])])]
  /\ Step(o, [run[o] EXCEPT !.sub = "recorded"])
  /\ UNCHANGED <<reg, resv, base, cnt, flagged, evid, ledger, sale, chain, spent>>

\* The single observe of a fresh submit; the ctx patch carries hash and maxTime.
ObserveSubmitted(o) ==
  LET h == Len(txs[o])
      r == [run[o] EXCEPT !.ctx.hash = h, !.ctx.maxT = h]
      event == CoreEvent(Verdict(o, h, r.ctx.seq, h), r.st) IN
  /\ Submitting(o)
  /\ run[o].sub = "recorded"
  /\ Step(o, IF event = "none" THEN [r EXCEPT !.todo = <<"escalate">>, !.sub = "none"]
                               ELSE Done(r, event))
  /\ UNCHANGED <<backend, sale, chain, spent>>

\* confirmBurnedSeq, first half: the sequence is burned in the ledger.
ConfirmBurnedSeq(o) ==
  /\ Doing(o, "confirmBurnedSeq")
  /\ run[o].sub = "none"
  /\ MayBurn(ledger, run[o].ctx.seq)
  /\ ledger' = Burned(ledger, run[o].ctx.seq)
  /\ Step(o, [run[o] EXCEPT !.sub = "burned"])
  /\ UNCHANGED <<reg, row, resv, base, cnt, flagged, evid, sale, chain, spent>>

\* The contract error of the LATEST journaled transaction.
ErrorCode(o) == txs[o][Len(txs[o])].res

\* Only the errors at and after the replay guard say whether the order was paid.
RevertCause(code) ==
  CASE code = "AlreadyProcessed" -> "AlreadyProcessed"
    [] code = "InsufficientBalance" -> "BalanceGuard"
    [] OTHER -> "Indeterminate"

\* Second half: a certain cause decides, unless its code is unreadable (a fault);
\* everything else is indeterminate and budgeted.
ReadRevertCause(o) ==
  LET cause == RevertCause(ErrorCode(o))
      fault == IF cause = "Indeterminate" THEN 0 ELSE 1
      more == WithinBudget(o, "revert", MaxRevertRetries) IN
  /\ Doing(o, "confirmBurnedSeq")
  /\ run[o].sub = "burned"
  /\ \/ /\ cause = "AlreadyProcessed"
        /\ Step(o, Done(run[o], "revertAlreadyProcessed"))
        /\ UNCHANGED <<cnt, spent>>
     \/ /\ cause = "BalanceGuard"
        /\ Step(o, Done(run[o], "revertBalanceGuard"))
        /\ UNCHANGED <<cnt, spent>>
     \/ /\ spent.faults + fault <= MaxFaults
        /\ spent' = [spent EXCEPT !.faults = @ + fault]
        /\ cnt' = Bump(o, "revert", MaxRevertRetries)
        /\ Step(o, Done(run[o], IF more THEN "revertRetry" ELSE "revertExhausted"))
  /\ UNCHANGED <<reg, row, resv, base, flagged, evid, ledger, sale, chain>>

ReleaseSeq(o) ==
  /\ Doing(o, "releaseSeq")
  /\ OwnedActive(ledger, run[o].ctx.seq, o)
  /\ ledger' = Released(ledger, run[o].ctx.seq, o)
  /\ Step(o, Done(run[o], "none"))
  /\ UNCHANGED <<reg, row, resv, base, cnt, flagged, evid, sale, chain, spent>>

ReleaseReservation(o) ==
  /\ Doing(o, "releaseReservation")
  /\ resv' = [resv EXCEPT ![o] = "none"]
  /\ Step(o, Done(run[o], "none"))
  /\ UNCHANGED <<reg, row, base, cnt, flagged, evid, ledger, sale, chain, spent>>

\* The void: confirmed, or anything else, in which case the provider may or may
\* not have voided the sale and the budget decides.
FireCancel(o) ==
  LET more == WithinBudget(o, "reversal", MaxReversalRetries) IN
  /\ Doing(o, "fireCancel")
  /\ run[o].ctx.pid
  /\ \E class \in VoidReads :
       \/ /\ class = "SUCCESS"
          /\ sale' = [sale EXCEPT ![o] = "voided"]
          /\ Step(o, Done(run[o], "reversalConfirmed"))
          /\ UNCHANGED cnt
       \/ /\ class # "SUCCESS"
          /\ sale' \in {sale, [sale EXCEPT ![o] = "voided"]}
          /\ cnt' = Bump(o, "reversal", MaxReversalRetries)
          /\ Step(o, Done(run[o], IF more THEN "reversalRetry" ELSE "reversalExhausted"))
  /\ UNCHANGED <<reg, row, resv, base, flagged, evid, ledger, chain, spent>>

FlagLoss(o) ==
  /\ Doing(o, "flagLoss") \/ Doing(o, "escalate")
  /\ flagged' = flagged \cup {o}
  /\ Step(o, Done(run[o], "none"))
  /\ UNCHANGED <<reg, row, resv, base, cnt, evid, ledger, sale, chain, spent>>

\* appendEvidence: the witness goes to the evidence file first ...
HandToReconciler(o) ==
  /\ Doing(o, "handToReconciler")
  /\ run[o].sub = "none"
  /\ run[o].ctx.hash # 0 /\ run[o].ctx.seq # NoSeq
  /\ evid' = [evid EXCEPT ![o] = [hash |-> run[o].ctx.hash, seq |-> run[o].ctx.seq]]
  /\ Step(o, [run[o] EXCEPT !.sub = "appended"])
  /\ UNCHANGED <<reg, row, resv, base, cnt, flagged, ledger, sale, chain, spent>>

\* ... and then the reservation is marked settled in the database.
MarkSettled(o) ==
  /\ Doing(o, "handToReconciler")
  /\ run[o].sub = "appended"
  /\ resv' = [resv EXCEPT ![o] = IF @ = "none" THEN "none" ELSE "settled"]
  /\ Step(o, Done(run[o], "none"))
  /\ UNCHANGED <<reg, row, base, cnt, flagged, evid, ledger, sale, chain, spent>>

RePollObserveOnly(o) ==
  /\ Doing(o, "rePollObserveOnly")
  /\ Step(o, Done(run[o], "none"))
  /\ UNCHANGED <<backend, sale, chain, spent>>

\* EngineError: an event the table does not list, or a ctx field the effect
\* needs and the flow should have set.
BrokenFlow(o) ==
  \/ Doing(o, "deadLetter")
  \/ Doing(o, "confirmBurnedSeq") /\ run[o].sub = "none" /\ ~MayBurn(ledger, run[o].ctx.seq)
  \/ Doing(o, "fireCancel") /\ ~run[o].ctx.pid
  \/ Doing(o, "handToReconciler") /\ run[o].sub = "none"
       /\ (run[o].ctx.hash = 0 \/ run[o].ctx.seq = NoSeq)

\* A refusal of the allocator or of the simulated contract call.
Refused(o) ==
  \/ Submitting(o) /\ run[o].sub = "none" /\ (~SeqStillOurs(o) \/ Simulation(o) # "Ok")
  \/ Doing(o, "releaseSeq") /\ ~OwnedActive(ledger, run[o].ctx.seq, o)
  \/ Doing(o, "reallocateSeq")
       /\ (ledger.byOrder[o] = NoSeq \/ ledger.status[ledger.byOrder[o]] # "burned")

\* The head effect throws: the run dies without a put, the order keeps its rows
\* and is retried from them.
EffectThrows(o) ==
  /\ BrokenFlow(o) \/ Refused(o)
  /\ Step(o, Off)
  /\ UNCHANGED <<backend, sale, chain, spent>>

-----------------------------------------------------------------------------
(* The end of a batch.                                                     *)

BatchDone(o) == run[o].by # "none" /\ run[o].todo = <<>>

\* decisionEvent: the persisted replacement budget of a dead transaction.
DecideDead(o) ==
  LET more == WithinBudget(o, "dead", MaxDeadRetries) IN
  /\ BatchDone(o)
  /\ run[o].st = "UsdcDead"
  /\ cnt' = Bump(o, "dead", MaxDeadRetries)
  /\ Step(o, Enter(run[o], IF more THEN "deadRetry" ELSE "deadExhausted"))
  /\ UNCHANGED <<reg, row, resv, base, flagged, evid, ledger, sale, chain, spent>>

\* Quiescence: the caller puts the ctx and the state into the registry.
Quiesce(o) ==
  /\ BatchDone(o)
  /\ run[o].st # "UsdcDead"
  /\ reg' = [reg EXCEPT ![o] = [st |-> run[o].st, ctx |-> run[o].ctx]]
  /\ Step(o, Off)
  /\ UNCHANGED <<row, resv, base, cnt, flagged, evid, ledger, sale, chain, spent>>

-----------------------------------------------------------------------------
(* Who drives an order: the intent handler, the webhook, the poll worker,  *)
(* the reconciler.                                                         *)

Unlocked(o) == run[o].by = "none"

\* handleIntent on a new order: the 'Reserved' put, then start().  A repeated
\* /intent finds the rows (createIfAbsent: 'exists') and changes nothing.
Intent(o) ==
  /\ Unlocked(o)
  /\ reg[o].st = "none"
  /\ row[o].st = "none"
  /\ reg' = [reg EXCEPT ![o] = [st |-> "Reserved", ctx |-> NoCtx]]
  /\ row' = [row EXCEPT ![o].st = "Reserved"]
  /\ Step(o, [NewRun("intent", "Reserved", NoCtx) EXCEPT !.todo = <<"fireSolvencyCheck">>])
  /\ UNCHANGED <<resv, base, cnt, flagged, evid, ledger, sale, chain, spent>>

\* Mutant: the quarantine latch is not read.
PollTurnNoLatch(o) ==
  /\ Unlocked(o)
  /\ \A p \in Orders : run[p].by # "poll"

\* The poll loop visits one order at a time and skips the quarantined.
PollTurn(o) ==
  /\ Unlocked(o)
  /\ \A p \in Orders : run[p].by # "poll"
  /\ o \notin flagged

\* Retrieve the sale's result and drive the charge event with the payment id the
\* answer carried (the id of an answer that decides nothing is left out: the
\* deciding answer brings its own before anything reads it).  That a paid sale
\* reads as unknown is a fault of the network, an open one may always do so.
RetrieveCharge(o, by) ==
  \E read \in ChargeReads(sale[o]) :
    LET c == [EffectiveCtx(o) EXCEPT !.pid = @ \/ (read.pid /\ read.event # "chargeUnknown")]
        fault == IF sale[o] = "paid" /\ read.event = "chargeUnknown" THEN 1 ELSE 0 IN
    /\ EffectiveState(o) = "SolvencyReserved"
    /\ EffectiveCtx(o).tok
    /\ spent.faults + fault <= MaxFaults
    /\ Step(o, Enter(NewRun(by, "SolvencyReserved", c), read.event))
    /\ spent' = [spent EXCEPT !.faults = @ + fault]
    /\ UNCHANGED <<backend, sale, chain>>

\* The provider's callback, any number of times, at any moment.
Webhook(o) == Unlocked(o) /\ RetrieveCharge(o, "webhook")

\* Group A of the poll worker.
PollCharge(o) == PollTurn(o) /\ RetrieveCharge(o, "poll")

\* Mutant: UsdcSubmitted is not on the poll worker's list.
InFlightPendingOnly(o) == EffectiveState(o) = "UsdcPending"

InFlight(o) == EffectiveState(o) \in {"UsdcSubmitted", "UsdcPending"}

\* Group B: no witness, charge done, sequence known.
NeverSent(o) ==
  /\ EffectiveCtx(o).hash = 0
  /\ EffectiveState(o) = "UsdcSubmitted"
  /\ EffectiveCtx(o).pid
  /\ EffectiveCtx(o).seq # NoSeq

PollResubmit(o) ==
  /\ PollTurn(o)
  /\ InFlight(o)
  /\ NeverSent(o)
  /\ Step(o, Enter(NewRun("poll", "UsdcSubmitted", EffectiveCtx(o)), "recoverResubmit"))
  /\ UNCHANGED <<backend, sale, chain, spent>>

\* Groups B and B2: the observe input cannot be rebuilt.
CannotObserve(o) ==
  LET c == EffectiveCtx(o) IN
  IF c.hash = 0 THEN ~NeverSent(o) ELSE c.seq = NoSeq \/ c.maxT = 0

PollQuarantine(o) ==
  /\ PollTurn(o)
  /\ InFlight(o)
  /\ CannotObserve(o)
  /\ flagged' = flagged \cup {o}
  /\ UNCHANGED <<run, reg, row, resv, base, cnt, evid, ledger, sale, chain, spent>>

\* Group C: observe the recorded transaction, drive the event or escalate.  The
\* account's sequence may be unreadable (a fault), which escalates too.
PollObserve(o) ==
  LET c == EffectiveCtx(o)
      st == EffectiveState(o) IN
  /\ PollTurn(o)
  /\ InFlight(o)
  /\ c.hash # 0 /\ ~CannotObserve(o)
  /\ \/ LET event == CoreEvent(Verdict(o, c.hash, c.seq, c.maxT), st) IN
        /\ IF event = "none"
           THEN flagged' = flagged \cup {o} /\ UNCHANGED run
           ELSE Step(o, Enter(NewRun("poll", st, c), event)) /\ UNCHANGED flagged
        /\ UNCHANGED spent
     \/ /\ Verdict(o, c.hash, c.seq, c.maxT) = "DEAD_REPLACEABLE"
        /\ spent.faults < MaxFaults
        /\ spent' = [spent EXCEPT !.faults = @ + 1]
        /\ flagged' = flagged \cup {o}
        /\ UNCHANGED run
  /\ UNCHANGED <<reg, row, resv, base, cnt, evid, ledger, sale, chain>>

\* The reconciler closes an order whose recorded witness is on chain.
Reconcile(o) ==
  /\ Unlocked(o)
  /\ EffectiveState(o) = "UsdcConfirmed"
  /\ evid[o].hash # 0
  /\ txs[o][evid[o].hash].res = "Ok"
  /\ reg' = [reg EXCEPT ![o] = [st |-> Transition("UsdcConfirmed", "reconciled").to,
                                ctx |-> EffectiveCtx(o)]]
  /\ UNCHANGED <<run, row, resv, base, cnt, flagged, evid, ledger, sale, chain, spent>>

-----------------------------------------------------------------------------
(* Faults.                                                                 *)

\* An RPC call of the run throws: before the send, after the send was taken by
\* the network, or instead of the observe's answer.
CallThrows(o) ==
  /\ spent.faults < MaxFaults
  /\ Submitting(o)
  /\ spent' = [spent EXCEPT !.faults = @ + 1]
  /\ Step(o, Off)
  /\ UNCHANGED <<backend, sale, chain>>

\* The process dies and boots: reservations of settled orders are dropped,
\* 'Reserved' leftovers are purged, the pool balance is read again.
Purged(o) == reg[o].st = "Reserved" /\ row[o].st \in {"none", "Reserved"}

Crash ==
  /\ spent.faults < MaxFaults
  /\ \E o \in Orders : run[o].by # "none"
  /\ spent' = [spent EXCEPT !.faults = @ + 1]
  /\ run' = [o \in Orders |-> Off]
  /\ resv' = [o \in Orders |->
                IF resv[o] = "settled" \/ evid[o].hash # 0 \/ Purged(o)
                THEN "none" ELSE resv[o]]
  /\ reg' = [o \in Orders |-> IF Purged(o) THEN NoReg ELSE reg[o]]
  /\ row' = [o \in Orders |-> IF Purged(o) \/ reg[o].st = "none" THEN NoRow ELSE row[o]]
  /\ base' = pool.balance
  /\ UNCHANGED <<cnt, flagged, evid, ledger, sale, chain>>

-----------------------------------------------------------------------------
(* The customer, the provider and the chain (external).                    *)

\* The customer completes or fails the form she was shown.
CustomerActs(o) ==
  /\ sale[o] = "form"
  /\ reg[o].ctx.tok
  /\ sale' \in {[sale EXCEPT ![o] = "paid"], [sale EXCEPT ![o] = "declined"]}
  /\ UNCHANGED <<run, backend, chain, spent>>

\* A transaction is included: the account's next sequence, within timebounds.
Land(o, n) ==
  \E receives \in BOOLEAN :
    LET t == txs[o][n]
        result == PayResult(TRUE, pool.paused, 1, o \in pool.processed, pool.balance, receives)
        trap == IF result = "TransferFailed" THEN 1 ELSE 0 IN
    /\ t.res = "net" /\ ~t.exp
    /\ t.seq = acctSeq + 1
    /\ receives \/ result = "TransferFailed"
    /\ spent.traps + trap <= MaxTraps
    /\ acctSeq' = t.seq
    /\ txs' = [txs EXCEPT ![o][n].res = result]
    /\ pool' = IF result = "Ok"
               THEN [pool EXCEPT !.balance = @ - 1, !.processed = @ \cup {o}]
               ELSE pool
    /\ spent' = [spent EXCEPT !.traps = @ + trap]
    /\ UNCHANGED <<run, backend, sale>>

\* The ledger's close time passes the transaction's maxTime.
Expire(o, n) ==
  /\ ~txs[o][n].exp
  /\ \A m \in 1 .. (n - 1) : txs[o][m].exp
  /\ txs' = [txs EXCEPT ![o][n].exp = TRUE]
  /\ UNCHANGED <<run, backend, sale, acctSeq, pool, spent>>

PausePool ==
  /\ ~pool.paused
  /\ spent.pauses < MaxPauses
  /\ spent' = [spent EXCEPT !.pauses = @ + 1]
  /\ pool' = [pool EXCEPT !.paused = TRUE]
  /\ UNCHANGED <<run, backend, sale, txs, acctSeq>>

UnpausePool ==
  /\ pool.paused
  /\ pool' = [pool EXCEPT !.paused = FALSE]
  /\ UNCHANGED <<run, backend, sale, txs, acctSeq, spent>>

\* The pool loses a unit by other means than pay(): an upgraded contract.
DrainPool ==
  /\ spent.drains < MaxDrains
  /\ pool.balance > 0
  /\ spent' = [spent EXCEPT !.drains = @ + 1]
  /\ pool' = [pool EXCEPT !.balance = @ - 1]
  /\ UNCHANGED <<run, backend, sale, txs, acctSeq>>

-----------------------------------------------------------------------------

Effects(o) ==
  \/ FireSolvencyCheck(o) \/ FireCheckoutForm(o)
  \/ AllocateSeq(o) \/ ReallocateSeq(o) \/ PersistInFlight(o)
  \/ SubmitPay(o) \/ RecordHash(o) \/ ObserveSubmitted(o)
  \/ ConfirmBurnedSeq(o) \/ ReadRevertCause(o)
  \/ ReleaseSeq(o) \/ ReleaseReservation(o) \/ FireCancel(o)
  \/ FlagLoss(o) \/ HandToReconciler(o) \/ MarkSettled(o) \/ RePollObserveOnly(o)
  \/ EffectThrows(o)

Drive(o) == Effects(o) \/ DecideDead(o) \/ Quiesce(o)

Poll(o) == PollCharge(o) \/ PollResubmit(o) \/ PollQuarantine(o) \/ PollObserve(o)

Backend(o) == Intent(o) \/ Webhook(o) \/ Poll(o) \/ Drive(o) \/ Reconcile(o)

Environment(o) ==
  \/ CustomerActs(o)
  \/ \E n \in DOMAIN txs[o] : Land(o, n) \/ Expire(o, n)

Next ==
  \/ \E o \in Orders : Backend(o) \/ CallThrows(o) \/ Environment(o)
  \/ Crash
  \/ PausePool \/ UnpausePool \/ DrainPool

Spec == Init /\ [][Next]_vars

\* A started run goes on; the poll loop takes the order's lock on every tick
\* (the mutex is a queue); ledgers close; the admin unpauses.  Nothing is
\* assumed of the customer, of inclusion on chain or of webhooks.
Fairness ==
  /\ \A o \in Orders : /\ WF_vars(Drive(o))
                       /\ SF_vars(Poll(o))
                       /\ WF_vars(\E n \in DOMAIN txs[o] : Expire(o, n))
  /\ WF_vars(UnpausePool)

FairSpec == Spec /\ Fairness

-----------------------------------------------------------------------------
(* Properties.                                                             *)

Ctxs == [seq : Seqs \cup {NoSeq}, hash : Nat, maxT : Nat, pid : BOOLEAN, tok : BOOLEAN]
Steps == {"none", "sent", "recorded", "burned", "appended"}

\* The shape of the rows and of the runs in memory; a hash in a row is always
\* one of the order's own journaled transactions.
TypeOK ==
  /\ \A o \in Orders :
       /\ run[o].by \in {"none", "intent", "webhook", "poll"}
       /\ run[o].st \in States \cup {"none"}
       /\ run[o].ctx \in Ctxs
       /\ run[o].sub \in Steps
       /\ run[o].sub # "none" => run[o].todo # <<>>
       /\ reg[o].st \in States \cup {"none"}
       /\ reg[o].ctx \in Ctxs
       /\ row[o].st \in {"none", "Reserved", "UsdcSubmitted"}
       /\ row[o].seq \in Seqs \cup {NoSeq}
       /\ row[o].hash \in 0 .. Len(txs[o])
       /\ evid[o].hash \in 0 .. Len(txs[o])
       /\ \A n \in DOMAIN txs[o] : /\ txs[o][n].seq \in Seqs
                                   /\ txs[o][n].res \in PayResults \cup {"net"}
  /\ resv \in [Orders -> {"none", "held", "settled"}]
  /\ sale \in [Orders -> {"none", "form", "paid", "declined", "voided"}]
  /\ ledger \in Ledgers
  /\ flagged \subseteq Orders

\* The merchant is never paid for an order whose customer was refunded: a void
\* is issued only when the payment can no longer land (deadness, release).  An
\* exception between a replacement's hash and its maxTime breaks it.
NoRefundAndPay == \A o \in Orders : ~(sale[o] = "voided" /\ o \in pool.processed)

\* It does hold as long as no call throws and nothing crashes, however late the
\* ledgers close, whatever reverts and however often the pool is paused.
NoRefundAndPayUndisturbed == spent.faults = 0 => NoRefundAndPay

\* Money first: USDC moves only for an order whose TRY charge was completed.
NeverPayUncharged ==
  \A o \in pool.processed : sale[o] \in {"paid", "voided"}

\* What the ledger calls burned was consumed on chain, and what it calls free
\* was not: a mistake either way leaves a hole no later payment can pass.  It is
\* kept while no call throws and the pool is neither paused nor drained: a re-drive
\* that the simulation refuses leaves rows whose sequence and hash belong to
\* different transactions, and the next burn is of the wrong one.
BurnedReallyBurned ==
  spent.faults = 0 /\ spent.pauses = 0 /\ spent.drains = 0 =>
    /\ \A s \in Seqs : ledger.status[s] = "burned" => s <= acctSeq
    /\ \A s \in ledger.free : s > acctSeq

\* The witness handed to the reconciler is the transaction that paid, under the
\* sequence that was really used.  (With TypeOK.)
EvidenceSound ==
  /\ TypeOK
  /\ \A o \in Orders : evid[o].hash # 0 =>
       /\ txs[o][evid[o].hash].res = "Ok"
       /\ txs[o][evid[o].hash].seq = evid[o].seq

\* An order the backend reports as confirmed or reconciled was paid; for one it
\* reports as failed clean nothing moved on either side.
OutcomesTrue ==
  \A o \in Orders :
    /\ EffectiveState(o) \in {"UsdcConfirmed", "Reconciled"} => o \in pool.processed
    /\ EffectiveState(o) = "FailedClean" =>
         o \notin pool.processed /\ sale[o] # "paid"

\* The driver meets no event its table does not list, no missing ctx field and no
\* sequence without a record, from whatever rows a crash or an exception left
\* behind.  A second fault can cost a sequence its record: one that hides a
\* replacement, and a crash after the release but before the void, which leaves
\* an order in flight whose replacement then reverts.
NoBrokenFlow == spent.faults <= 1 => \A o \in Orders : ~BrokenFlow(o)

\* A quarantined order is left alone: nothing is signed, voided, released or
\* re-reserved for it any more.
QuarantineHolds ==
  [][\A o \in flagged :
       /\ Len(txs'[o]) = Len(txs[o])
       /\ sale'[o] = sale[o]
       /\ ledger'.byOrder[o] = ledger.byOrder[o]
       /\ resv[o] = "held" => resv'[o] = "held"]_vars

\* Paid, refunded, or in front of a human.
Ended(o) ==
  \/ evid[o].hash # 0
  \/ sale[o] = "voided"
  \/ o \in flagged
  \/ EffectiveState(o) = "UsdcConfirmed"

\* The ways in which an order is left in flight with every further drive refused before
\* anything is recorded or counted.  A send threw after the network took it: the row has no
\* hash, the payment landed, and each resubmission fails its simulation.  A drive stopped
\* after the release: each later one uses or releases a sequence that is not the order's any
\* more.  The pool lost the funds: each resubmission fails its simulation.
Stranded(o) ==
  LET s == EffectiveCtx(o).seq IN
  /\ Unlocked(o) /\ InFlight(o)
  /\ \/ NeverSent(o) /\ o \in pool.processed
     \/ ledger.status[s] = "untracked" \/ ledger.owner[s] # o
     \/ o \notin pool.processed /\ pool.balance = 0

\* A charged order reaches an end, through reverts, expiries, pauses, a crash or a throwing
\* call anywhere, unless it is stranded.
ChargedConverges ==
  \A o \in Orders : sale[o] = "paid" ~> Ended(o) \/ Stranded(o)

\* A payment that reached the merchant is recorded or put in front of a human.
PaymentRecorded ==
  \A o \in Orders :
    o \in pool.processed ~> (evid[o].hash # 0 \/ o \in flagged)
=============================================================================
