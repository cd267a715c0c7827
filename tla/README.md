# Troia: a TLA+ verification project

Troia takes a customer's payment in Turkish lira (by card, or by bank transfer)
and pays the merchant in USDC out of a pre-funded pool held by a Soroban
contract.  The lira leg is reversible for a day, the USDC leg is not, so the order
is *money first*: the pool's solvency is reserved, the customer is charged, and
only then is the USDC sent.  Afterwards the payout is booked, the pool is refilled
by a mint, and three watchers compare the chain with the books.

The modules here are written from the source under `packages/`, `contracts/` and
`app/`.  TLC checks them on small instances; TLAPS proves the safety of the allocator,
the contract, the settlement, the treasury, the watchers, the checkout and the append log
for every instance.

## 1. Inventory of the system

| Component | State it keeps | Operations | Talks to |
|---|---|---|---|
| state machine (`core/state-machine.ts`) | none: a pure table | `transition(state, event)` | the driver |
| sequence allocator (`core/sequence-allocator.ts`, `composition/sqlite-sequence-store.ts`) | next sequence, free list, records, per-order pointer; a snapshot in SQLite | allocate, confirmBurned, reuseOnDead, release, reallocate | the effects |
| channel pool (`core/channel-pool.ts`, `composition/sqlite-sequence-store.ts`), wired when `TROIA_CHANNEL_SECRETS` is set | one allocator per channel account, the order's channel; snapshots and the map in SQLite | the allocator's calls, by the order's channel | the effects, in place of the single allocator |
| engine (`backend/engine`) | a run in memory: state, remaining effects, ctx | `run`, `perform`, `decisionEvent`, `applyEscalate` | store, provider, Stellar client |
| order store and registry (`composition/sqlite-order-*.ts`) | rows, registry ctx, reservations, retry counters, losses, the evidence file | persistState, reserve, release, appendEvidence, creditPool, flagLoss, put, boot sweep, purge | engine, workers |
| poll worker (`backend/worker`) | none | one tick over the orders in SolvencyReserved, UsdcSubmitted, UsdcPending | engine under the order's lock |
| provider adapter (`psp`) | none | open a form, retrieve, void; classify answers | engine, poll worker, webhook |
| Stellar client (`stellar-client`) | the journal of signed envelopes | submitPay, observe, deadness, revert codes, mint, event pages | RPC nodes |
| TroyPool (`contracts/troy_pool`) | roles, pause flag, replay guard, USDC balance | pay, pause, unpause, set_operator, set_admin, upgrade | the USDC token |
| settlement worker (`backend/settlement`, `rebalance`, `composition/mint-intent-journal.ts`) | pending settlements, mint intents | book, arm, claim, mint, book, credit the pool | evidence, ledger, oracle, Stellar client |
| outflow worker | cursor, suspects, observations, coverage | tail the pool's events page by page | RPC, pre-broadcast journal |
| reconcile worker (`backend/settlement`, `reconciler`) | closed orders, an alarm latch | audit each witnessed payout | observations, evidence, engine |
| drift worker | a count and an alarm latch | compare the balance with the books | RPC, ledger |
| ledger (`ledger`) | double-entry journal | record a settlement, a top-up; replay | workers, boot |
| append log (`composition/file-append-log.ts`, `durable-bundle.ts`, `process-lock.ts`) | files of frames, a lock file | append and sync, poison, boot scan | evidence, ledger, journals |
| bank transfer (`backend/bank-transfer.ts`, `composition/tr-mock-anchor-provider.ts`) | firm quotes, instructions, receipts | create, recover, observe, match | the anchor, the chain |
| oracle and pricing (`oracle`, `pricing`, `composition/quote.ts`) | cached statistics | rate, spread, gross price | exchanges, the intent handler |
| HTTP (`backend/http`) | sessions, rate limits | session, intent, status, webhook | engine under the order's lock |
| extension, storefront (`app`) | banner, wizard draft, cart, My Orders | pay, poll, retry, again | HTTP, each other's window messages |

What is hard in it: **concurrency** (the intent handler, the webhook and four
worker loops share rows, reservations, the sequence ledger and files, and interleave
at every `await`); **failure** (a crash at any await or between two appends, then a
boot that rebuilds everything from several files and tables written at different
moments; a call that throws although its effect happened); **ordering**
(transactions of one account land in sequence order or not at all; replies reach a
page that has moved on); **time** (a late transaction against the decision that it is
dead; a retention window that scrolls past a cursor); **budgets** (persisted retry
counters decide between another try, a refund and a human).

What makes it correct: USDC moves only for a completed charge; no order is both paid
and refunded; what the backend, the audit and the shop report is true; a sequence is
never in two hands; the same fiat is minted once and every mint is accounted for; the
gate never promises a coin twice; no theft passes the tail; what was acknowledged
survives a crash; every price rests on a real quorum and can be booked; every charged
order ends.

## 2. The modules

| Module | Models | |
|---|---|---|
| `SeqOps` | the allocator's ledger and the effect of each call on it, as operators | used by the next and by `Settlement` |
| `SequenceAllocator` | the allocator as a process: memory image, disk image, the rows' sequences | failing writes, restarts |
| `SeqSpace` | what the allocator promises: the lowest unused sequence to one order, burned for ever | abstract specification |
| `ChannelPool` | channel mode: one ledger per channel and the sticky map, in memory and in the database | two writes a call, throwing writes, deaths between them |
| `PayGuards` | the guards of `pay()` in their order | used by the next and by `Settlement` |
| `TroyPool` | the contract, one action per entry point | the token is external |
| `OrderMachine` | the transition table and the guard against mutations on uncertain events | a set of edges |
| `PspAnswers` | how an answer of the card provider is read: transport, classifier, projectors, charge event | operators over all bodies |
| `Settlement` | the composition: driver, effects, rows, poll worker, webhook, intent, ledger, contract, provider, chain | crashes, throwing calls, pauses |
| `LedgerBook` | the double-entry ledger as operators on a journal | used by `Refill` and `Quotes` |
| `Refill` | solvency gate, settlement worker, mint journal, mints, manual top-ups, boot | crashes, late throws |
| `Watch` | payout tail, audit, drift tripwire over one chain | retention, stalls, crashes between appends |
| `DurableLog` | the append log cell by cell, the two replays, the writer lock, two processes | kills, power cuts, damage |
| `BankDesk` | the bank provider's journal, the anchor, the exact match | lost answers; used by `Checkout` |
| `Checkout` | storefront, banner, wizard, background worker, HTTP surface, composed with `BankDesk` | late and lost messages |
| `Quotes` | rate aggregation, cached statistics, price arithmetic | concurrent quotes |
| `Sums`, `SumsProofs` | the sum of weights over a finite set, and its laws | used by `TroyPool`, `LedgerBook`, `Refill` |
| `SequenceAllocatorProofs`, `TroyPoolProofs`, `SettlementProofs`, `RefillProofs`, `WatchProofs`, `CheckoutProofs`, `DurableLogProofs` | theorems about the module each is named after | section 5 |
| `MC*` | instances for TLC | |

### How state and actions correspond to the code

*SeqOps, SequenceAllocator.*  A ledger is a `SequenceSnapshot`; the sorted free list is
a set and its minimum.  Where the code throws, the operator's `May...` predicate is
false.  Each call changes `mem` and then writes the snapshot to `disk`; a failing
write leaves `mem` changed.  `held` is the sequence in the order's row; a crash may
lose a reply on its way there.

*ChannelPool.*  A call is the list of its writes (`AllocateWrites`, `ReleaseWrites`), each
with the memory at that moment; it returns, throws at one of them, or the process dies
after one of them and the constructor reads the database.  All channels start at the same
sequence, as accounts created in one ledger do, so numbers coincide.  The pool is built by
`testnet-deps.ts:320-351`; the "NOT YET WIRED" of `channel-pool.ts:18` is out of date.

*TroyPool.*  A call by any address with any tx id, amount and merchant: `PayOk` or
`PayErr`, which rolls everything back and leaves only the reply.

*OrderMachine.*  One record per edge that `transition` lists; the three events with a
`retriesRemaining` flag appear once per value.

*PspAnswers.*  A body keeps the fields the code tests, each with its decisive values.
What the provider may answer about a paid, declined or open sale is external; what the
backend makes of it (`Post`, `ClassifyIyzicoResult`, the projectors, `ChargeEvent`) is
translated.

*Settlement.*  `run[o]` is the drive in progress: who started it, the core state, the
effects still to do, the ctx, and a program counter inside an effect with several
awaits.  `perform`'s cases are the actions of section "The effects"; `submitPay` is
three of them (simulate-journal-send, write the witness, observe), `confirmBurnedSeq`
two, `appendEvidence` two.  `Enter` is one turn of `driver.run`.  `reg`, `row`, `resv`,
`cnt`, `flagged`, `evid` are the tables and the evidence file; `EffectiveState` and
`EffectiveCtx` are how the registry reads them back, including that `payMaxTimeUnix`
exists only in the last put.  `PollCharge`, `PollResubmit`, `PollQuarantine`,
`PollObserve` are the poll worker's groups A, B, B and B2, and C.  A hash is its
position in the order's journal, `payMaxTimeUnix` the position of the transaction it
was computed for, every order pays one unit.  `observe` is one step: the lookup's own
answer carries the ledger's close time, so a transaction not found after its `maxTime`
can no longer land between its two reads.

*Refill.*  Three kinds of state: the chain (`bal`, `mints`, `paid`), the disk
(`journal`, `evid`, `resv`, `intents`) and the memory of one life (`proc`, `pend`,
`work`).  `work` is the record the sequential loop has claimed and the await it stands
at: `Claim`, `OpenIntent`, `SendMint` and so on up to `CreditPool`.  `LateThrow` is a mint call
that throws after its transaction was taken.  The settlement of an order in between is
`Settlement`'s matter; here a reserved order may be paid or released.

*Watch.*  A ledger holds at most one transaction of the pool, so its number is also its
hash and its time.  `Deployments` says which loops are wired, as the environment
switches of `main.ts` do.  A page's appends are separate states for a crash
(`ScanDies`), one step otherwise, since no await separates them.  New code may move what it
does not announce, or pay again.  The audit carries through its awaits the settlement it
asked about and how far the tail was when the pass began; `basis` keeps both for a closed
order, so that `ClosedTrue` can say what the order was closed against.

*DurableLog.*  A frame is four cells (header up to the comma, rest of the header,
payload, newline) written in order; a damaged or unwritten cell matches nothing the
reader looks for.  The journal is replayed strictly and the evidence log with
tolerance for repetitions, as their callers do.

*BankDesk, Checkout.*  The client's banner has a number (its *handle*); intents, status
replies and `TROIA_PAID` notes carry the handle or order they were made for and arrive
at any later time.  An order inside the backend is its public status.  Amounts, IBAN and
references match or do not.

*Quotes.*  The integer arithmetic is the code's, on scaled-down constants; the
floating-point mean and deviation of the daily closes are inputs in basis points.  A rate is
two fetches one after the other, each with its own retries and timeouts, so the rate phase
lasts up to two patiences (`RatePatience`) and the history a third; an exchange that sends
no usable stamp is dated by the moment it was asked (`Times`).

## 3. The runs

| Run | Question | Size |
|---|---|---|
| `seq_alloc` | Do both images of the ledger stay whole through a failed write and restarts?  Without one, is every grant the lowest unused sequence, in one pair of hands, and burned for ever once burned?  In channel mode, does an order keep to one channel, in memory and on disk? | 3 orders, 1 failing write; 4 sequences, or 2 channels with the same 2 |
| `troy_pool` | Is an order paid at most once, is InsufficientBalance a sound refund signal, does the pool balance with its events? | 2 addresses, 2 orders, amounts 0 to 2 |
| `settle_faults` | With one crash, throwing call or unreadable answer at any await: are evidence and sequence ledger true, is no resumed drive broken, does the quarantine hold, is an order refunded and paid only after a fault? | 2 orders, 1 fault, 1 failing transfer |
| `settle_live` | Does every charged order end, and is every payment recorded or put in front of a human? | 2 orders, no faults |
| `settle_outage` | Through pauses, failing transfers, a drained pool, unconfirmed voids and a fault: does USDC move only for a completed charge, is the reported outcome true, does the order end, stranded in no way but the three known ones? | 1 order |
| `refill` | Is the same fiat minted once, is every mint booked or visible, are promises covered across boots, do the books explain the balance? | 2 orders, 2 mints, 1 crash, 1 late throw, 1 transfer |
| `watch` | Does no theft pass, is every theft paged, is none of our payments accused, is an order closed only against its own payment, is each closed eventually, does the tripwire cover the rest? | 3 ledgers, pages of 2, 2 faults |
| `checkout` | Is what the shop was told true; one transfer per order, one payout per credit, one open set of instructions; is a completed order placed? | 2 orders, 2 handles, 2 replies, 1 mishap, 3 shoppers |
| `storage` | Is everything acknowledged kept, does only damage refuse a boot, is memory what the disk holds? | 2 refs, 2 processes, 2 frames a log, 2 deaths, 1 damaged cell |
| `quotes` | Does a price rest on a quorum of fresh, agreeing exchanges and bounded statistics, recover the provider's cut, and book? | 2 or 3 exchanges, some undated, 1 or 2 quotes |
| `v1_refund_and_pay` | violated: see below | 1 order, 1 fault |
| `v4_double_mint` | violated: see below | as `refill` |

**Bounds.**  In `Settlement` every order pays one unit, so two units and two orders let
the pool cover both, and `DrainPool` makes it cover one.  One replacement and one
re-drive per order is the least for which an order has two transactions under one
sequence, two under different sequences, and an exhausted budget; `MaxSeq` is never what
stops an order; counters saturate one above their budget.  In `Refill` a seed of one and
two orders make the second order's promise depend on the first one's refill; two rates
make a retried mint differ from the first.  In `Watch` three ledgers and pages of two
give a page that ends before the head, a gap, and a grace that ends after it.  In
`ChannelPool` three orders on two channels make two share one, two sequences let a reverted
or released order take a second, and one throwing write is what `OneChannel` has to survive.  In
`DurableLog` two frames of four cells give a tail behind a committed record and every
byte class to die at.  In `Checkout` two handles and two orders give one late message of
every kind.  In `Quotes` the window's edges and one step beyond, stamps on both sides of them and the
slowest fetch, with which the bound of `RateTrusted` (`MaxAge` and three patiences: two legs
and the history) is reached; and amounts whose value
rounds to zero, to one and to more.  Every fault is counted against a named constant.

**Fairness.**  *Settlement*: a run that was started goes on (weak fairness of `Drive`: an
awaited promise settles, every RPC call has a timeout); the poll worker gets to each
order it has work for (strong fairness of `Poll`: the loop runs on a timer and takes the
order's lock, a queue); ledgers close, so `maxTime` passes; the admin lifts a pause.
*Watch*: ledgers close, the process is restarted, its interval loops tick, and an RPC
node may refuse any number of calls but answers again and again (strong fairness of the
reads).  *Checkout*: intervals fire, the page is rescanned, replies and window messages
that are under way arrive.  Nothing is assumed of the customer, of webhooks, of the
anchor or of inclusion on chain.  The convergence of `settle_live` and `settle_outage`
is one formula under two sets of bounds (two orders that share the sequences and the funds;
one order through every outage).  `ChargedConverges` holds through pauses, crashes and throwing
calls and lets an order stay in flight in three states only, which `Stranded` names: its payment
landed but the hash was lost with a throwing send; a drive stopped after releasing the sequence;
the pool is drained.  Section 4 has all three.

**Deadlock** is off where the system may come to rest (all orders ended, all bounds used
up); it is on in `troy_pool` and `quotes`.

### What the violations show

Each run checks one sentence of the repository against what the code does; the line and
the quotation are in `PROJECT.json`.

* `v1_refund_and_pay`.  A replacement's hash is written before its `maxTime`.  One
  throwing call leaves the first transaction's `maxTime` in the rows; it has passed, so
  the order is dead by the deadness rule while the replacement is still valid: sequence
  released, sale voided, then the replacement lands.  `settle_faults` therefore asserts
  `NoRefundAndPayUndisturbed`: without a fault it never happens.
* `v4_double_mint`.  The mint is out, then a read throws.  The rebalance provider forgets
  the ref, the intent of the same life blocks nothing, and the next tick mints again.
  `refill` therefore asserts `MintedOnceUnlessLate`, crashes included.

## 4. Known deviations

Met while modelling; the properties state what does hold.

* `perform.ts:283`.  A re-drive writes its new sequence next to the old hash.  When the
  submission is then refused (a paused or drained pool), the old revert is read again and
  the new, unused sequence is marked burned: a hole no later payment passes.
  `BurnedReallyBurned` is asserted for behaviours without a fault, a pause or a drain.
* `perform.ts:283`.  Two faults can make a drive burn a sequence that has no record: one
  that hides a replacement (as in `v1_refund_and_pay`), and a crash between the release and
  the void, which leaves the order in flight; when the replacement then reverts,
  `confirmBurned` throws on every tick.  `NoBrokenFlow` is asserted up to one fault;
  section 5 shows that one fault never breaks a flow, and that with more of them a lost
  record is the only way.
* `poll-worker.ts:126`.  A send the network took although the call threw leaves a row
  without a witness.  Once it lands, every resubmission is refused in simulation; the
  paid order is retried for ever, neither recorded nor flagged, although `poll-worker.ts:124`
  takes such a row for a payment that was never submitted.
* `perform.ts:303`.  A drive that stops after releasing the sequence and before the void (a
  crash, a throwing call) leaves an order in flight whose sequence is free or another order's:
  the ownership test refuses each later drive.
* `perform.ts:136`.  A pool that stays drained makes every simulation fail and no budget
  counts that; the charged customer waits until someone refills it.  This and the two above
  are what `ChargedConverges` calls `Stranded`.
* `outflow-worker.ts:221`.  A tail that lost its window re-anchors at the head and names
  only the unreachable ledgers; the readable ones between the window's start and the head
  are skipped with them.  `NoTheftPassed` counts all of them as the gap.
* `outflow-worker.ts:245`.  A rogue payout is marked alarmed before it is paged; a process
  that dies in between has marked what nobody was told, against "pages exactly once" at
  `:17`.  `RoguePaged` excuses that case and no other.
* `reconcile-worker.ts:175`.  The audit refuses to close anything once a replacement of the
  pool's code is *recorded*, and it reads that list once, when a pass begins.  It may
  therefore close an order although the code was already replaced, in three windows: the
  replacement is recorded while the pass is under way; the process died between the append
  of a settlement and the append of an upgrade of the same page
  (`outflow-worker.ts:233-234`); or the replacement lies in a gap the tail skipped.
  `ClosedTrue` says exactly this much: at the beginning of the pass the tail was done with
  no replacement but those in a gap.
* `channel-pool.ts:177`.  A new assignment is in memory before its write.  When the write
  throws, the next `allocate` uses it without writing it and a restart forgets it: the order is
  dealt another channel, and its sequence on the first, which nobody will use, holds up that
  channel.  `OneChannel` excuses this one write and no other.
* `channel-pool.ts:171`.  The load of a channel counts the pointers of orders it paid long ago,
  so "fewest live allocations" (`:94-96`) may pick a busy channel although another is idle.
* `content.ts:181`.  A late terminal reply of an earlier banner stops the polling of the
  one shown now.  `CompletedIsPlaced` excuses it.
* `cex-spot.ts:114`.  The older leg's time is tested, so one leg may be dated far ahead;
  `RateTrusted` says that not both are.  An undated leg counts as fresh.
* `settlement-worker.ts:173`.  An order whose value rounds to zero kurus cannot be booked
  and is skipped on every tick.  `QuoteBooks` excludes it.
* `file-append-log.ts:259`.  A power cut that leaves a whole frame of zeros makes the boot
  refuse, although nothing acknowledged is lost.
* `file-append-log.ts:251`.  The last frame, damaged both in its header and at its newline,
  declares no length and ends nothing: it is taken for a torn tail and an acknowledged
  record is dropped.  `AckedKept` is asserted for one damaged cell, which the two tests
  together always recognise.

## 5. What is proved

`SequenceAllocatorProofs`, from `SeqAssumption` (a base below the bound, `NoOrder` is no
order) and `WriteFaultAssumption`, for every set of orders and any number of failing
writes:

* `LedgersStayWhole`, `SequencesHeldByOne`: the invariants of `seq_alloc`, typing included;
* `BurnedStaysBurned`: the action property;
* `AllocatorImplementsSpace`: initial states map to initial states and every step to a
  step of `SeqSpace` or a stutter.

The inductive invariant `IInv` says that both images are whole (`Whole`: typed, accounted
for, pointers and records agree) and, while no write has failed, that they are equal and
that a sequence in an order's row is recorded for that order (`InStep`).  Wholeness alone
would not give `HeldByOne`, which is about rows and not about the ledger; equality of the
images is what makes a restart harmless.  Each call is a lemma about ledgers (`Granted`,
`Burned`, `Released` keep `Whole`); that a lowest free sequence exists is cited from
well-foundedness of the naturals.

`TroyPoolProofs`, from `PoolAssumption`: `PoolTypeCorrect`, `EveryOrderPaidOnce`,
`RefundSignalAlwaysSound`, `PoolNeverOverdrawn`, `PoolAlwaysConserved`.  The invariant is
the conjunction of the five.  The argument is the guard order: `Ok` and
`InsufficientBalance` both imply that the replay guard was passed, so a new event is a new
element of the sum.

`SumsProofs` gives the two sum-valued invariants their algebra: the empty sum, one more
element, equal weights give equal sums, one changed weight changes the sum by the
difference.  The library's induction over finite sets takes an operator as a parameter;
these laws take a smallest subset on which they fail instead (one exists, sizes being
natural numbers) and remove an element from it.

`SettlementProofs`, from `SeqAssumption` and `SettlementAssumption`, for every set of orders,
every retry policy and any number of crashes, throwing calls, unreadable answers, pauses,
failing transfers and drains:

* `NeverPayUnchargedHolds`: money first;
* `EvidenceSoundHolds`: the rows keep their shape and the reconciler's witness is the
  transaction that paid, under its own sequence;
* `OutcomesTrueHolds`: what is reported as confirmed was paid, what failed clean moved nothing;
* `NoRefundAndPayUndisturbedHolds`: before the first fault no paid order is refunded;
* `QuarantineHoldsAlways`: the action property, for every step of every actor;
* `OnlyLostRecordsHolds`: the driver never feeds an event its table does not list, never
  voids without a payment id, never hands over a missing witness;
* `NoBrokenFlowHolds`: and up to one fault it never burns or reuses a sequence without a
  record either;
* `BurnedReallyBurnedHolds`: while nothing throws and the pool is neither paused nor drained,
  what the ledger calls burned was consumed on chain and what it calls free was not.

None of these is inductive: they speak of the end of a drive, and what a drive may do depends
on where it stands and on which of the two rows was written last.  `SettleInv` is a
statement about one order at a time (`OrderInv`): the run stands at a tail of an edge of the
table (`WalkInv`, from the lemmas that the table is a function and passes its own guard);
until the store row is in flight nothing was signed, and afterwards the sale was charged
(`EarlyInv`, `FlightInv`); the row's hash and sequence belong to one transaction or that
transaction was reverted, and a run carries what its rows say (`WitnessInv`); what is
reported as confirmed was paid (`PaidInv`); a quarantined order has nothing left to do
(`FlagInv`).  Before the first fault every signed transaction but the last is dead when the
next is signed and all are when the sale is voided (`CalmInv`): this is the part a throwing
call between a replacement's hash and its `maxTime` breaks.  Each action is a lemma that it
keeps its own order and leaves the others alone (`Kept`); `ChainDecides` says that what the
chain has decided it never takes back; `ChargeReadSound` that a charge event implies a
captured sale with its payment id, whatever the provider sends.

The last two theorems need what orders share, which `SettleInv` mentions by type only; two
more layers bring it in.  `TrackInv`: free and fresh sequences have no record, an order's
pointer names a record of its own (`LedgerInv`), and the sequence in a row in flight has a
record in that order's name, or was given back by a drive that is about to close the order
(`RecordInv`).  One fault may stop that drive after the release; then the transaction the
rows name can never land, so no later drive comes back to burn the sequence.  It takes the
second fault of section 4 to hide a replacement that still can.  `PeaceInv` holds until the
first fault, pause or drain.  `FundsInv`: no more reservations than the pool can pay, and
the balance is what was not paid yet, so the simulation of a re-drive is never refused for
want of funds; this is a counting argument over finite sets of orders.  `AccountInv`: the account's sequence is moved by landed
transactions alone, each sequence up to it belongs to one of them, and nothing is burned
ahead of it.  `Placed` ties one order to both: a row's hash and sequence are of one
transaction at the moment of every burn, and a sequence is free only while no signed
transaction that uses it can land.  `BurnedReallyBurned` alone is not inductive, because
the burn trusts the row and the free list trusts that a dead transaction stays dead.

`RefillProofs`, from `RefillAssumption` (a finite set of orders and of transfers, natural
seeds and budgets, positive rates):

* `PromisesCoveredHolds`.  The gate compares with a base that was read at boot and is moved
  by the worker's credits alone, never by the chain, so the comparison with the chain is not
  inductive.  `GateInv` adds what the base rests on: a journal whose entries are what the
  code posts (`JournalOk`), no booking before the genesis entry (`EmptyBooks`), a
  reservation for every order that may still be paid (`ResvOk`), and a base that is never
  above the booked pool less what has been paid since (`BaseCovered`).
* `MintedOnceHolds`, `MintVisibleHolds`.  `MintsOk` follows one order through intent, mint,
  booking and close: at each await of the loop it says which of the four are on disk
  (`MintOk`), that what is minted is booked or covered by an open intent (`Accounted`), and
  what the memory of this life knows of it (`Knows`).  Crashes are covered because the disk's
  part does not mention the loop.
* `BooksExplainChainHolds`.  `BooksOk` is an equation: the balance is the booked pool, less
  the payouts not booked yet, plus the mints and the transfers not booked yet.  It needs
  `MintsOk`, so that the amount booked is the amount minted although the rate may have moved,
  and the laws of sums for each of the three gaps.

`WatchProofs`, from `WatchAssumption`: `RogueNeverOurs`, `NoTheftPassed`, `ClosedTrue` and
`NoFalseDivergence` hold always.  The invariant says what the chain, the tail (cursor, gaps,
suspects), the rows, the audit and the alarms know (`ChainInv`, `TailInv`, `RowsInv`,
`AuditInv`, `SaidInv`).  The argument is the order in which a page is appended: observations
and suspects before the cursor, so that a process which dies in between reads the page again
and never passes it.  For `ClosedTrue` the same order makes every replacement the tail is done
with either recorded or skipped; a pass that gets as far as a question therefore began before
any other (`IdleAuditKeeps`, `NoUpgradeStays`), and the audit carries the settlement it asked
about, which was announced under the order's own identifier and moved what it announced, to
the moment it marks the order closed.

`CheckoutProofs`, from the constants' assumptions: `OneTransfer`, `StorefrontIsRight`,
`CreditsCoverPayouts` and `OneOpenTransfer` hold always.  The invariant follows the messages:
a reply under way names an order its handle really opened (`CallInv`, `FreshInv`,
`HandleInv`), an order in hand has a credit matched to it alone (`OrderInv`, `BankInv`), and
the wizard's draft is the one the desk knows (`WizardInv`).  That payouts do not outnumber
credits is an injection from paid orders to transfers, not a count.

`DurableLogProofs`, from `LogAssumption`, for any refs and processes and any number of frames,
kills, power cuts, failing writes and damaged cells:

* `AckedKeptHolds`: what `append` acknowledged in any life is in the memory of every process
  that is up, with at most one damaged cell;
* `OnlyDamageRefusesHolds`: without damage or a power cut no boot refuses;
* `MemoryIsDiskHolds`: between appends memory is what a replay would give (and `TypeOK`).

`AckedKept` is about memory, and memory comes from whatever file the last life left, so the
invariant is about files.  `BaseInv` needs no bound on damage: only the holder of the lock
runs, and a log that is open to appends is whole frames and the cells its append in
progress has written, since a failed append closes the log.  `Solid` says which cells: the
frames of a list `R` that contains everything acknowledged (and hydrates, in the journal),
with at most one damaged cell, and behind them a part of one more frame, in which a power
cut or damage may have left holes (`Laid`).  `HeldInv` says that whoever has replayed a log holds all that was
acknowledged in it.  A frame joins `R` at the sync of its last cell, when `append` returns, or when a boot
finds it complete although its append never did.  The lemmas on the reader then say what a boot makes of such a file: the
first bad frame starts behind readable ones (`BadStartIs`); a scar is always seen, by
the newline behind it or by the length the header declares (`ScarSeen`); otherwise the
reader returns `R`, perhaps with the loose frame if it is complete (`ReplayReads`), and what
it truncates is the rest.  A file without scar or holes is never called corrupt (`PeacefulReads`).  The evidence
log's tolerant replay is a recursive function over the rows; that it loses and
invents no ref (`DedupeIs`) is shown on a least row at which it would fail.

Only model-checked:

* `ChannelPool`;
* `Quotes`, all three invariants: they multiply and divide amounts, rates and spreads that are
  all variables, which is beyond the linear arithmetic of the solver;
* all liveness, since fairness and ENABLED are beyond the prover.

## 6. What is not modelled

* The settlement in channel mode.  `Settlement` covers the single-operator mode only: one
  account, one sequence ledger.  With `TROIA_CHANNEL_SECRETS` set the store is given the
  channel pool instead; `ChannelPool` models its sequences and assignments, but not the
  envelopes with a channel as their source, the operator's signed authorizations in them, or
  deadness read from the channel's account.  A changed channel configuration (the constructor
  refuses to start) and an order that began in the other mode are left out.
* The webhook replay table: in the model a webhook may arrive any number of times or
  never.  Its signature, like all hashing and encoding, is cryptography.
* Of the provider: request building, and the classifier's shapes for operations the
  backend does not use.  The payment id of an answer that decides nothing is left out;
  the deciding answer brings its own.
* Of the bank: the anchor's login, the static simulator, a refund of its own (the anchor
  has none, so the reversal budget leads to review).
* Of HTTP: previews, receipts, health, pages and CORS.
* XDR, fees, signing; identifiers and strkeys; configuration, preflight, metrics and
  logging; rendering of the extension and of the shops; the anchor demo.
* The link between modules that share a component by its promise (an order in `Refill` and
  `Checkout` stands for what `Settlement` does with it) is stated in their headers and is
  not itself checked.

`PROJECT.json` lists every component with the reason, and every hazard with the properties
that would catch it or the reason why none does.

## 7. Plan

1. `Quotes`: that a posted entry balances and that a price recovers the provider's cut, for
   every amount; it wants a small library of lemmas on floor and ceiling division first.
2. `Settlement` over `ChannelPool`: the order's transaction source and its deadness read become
   those of its channel.
3. `ChannelPool`: `OneChannel` for any number of channels and writes, from the lemmas on
   ledgers in `SequenceAllocatorProofs`.
