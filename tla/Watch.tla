------------------------------- MODULE Watch -------------------------------
(***************************************************************************)
(* The three watchers of the pool and what they leave on disk.  The payout *)
(* tail reads the chain's events page by page and names every outflow the  *)
(* pre-broadcast journal does not know.  The audit compares each witnessed *)
(* payout with the settlement the pool announced under the order's own     *)
(* identifier and closes the order when all agree.  The drift tripwire     *)
(* compares the pool's balance with the books.                             *)
(*                                                                         *)
(* A ledger holds at most one transaction of the pool, so its number stands *)
(* for the transaction's hash and for its close time; the wall clock runs  *)
(* with it.  Every order is worth one unit.  The code between two awaits   *)
(* runs undisturbed by the other loops but may die between two appends.    *)
(***************************************************************************)
EXTENDS Integers, Sequences, FiniteSets, FiniteSetsExt

CONSTANTS
  Orders, NoOrder,
  MaxLedgers,   \* bound: ledgers closed
  MaxFaults,    \* bound: process deaths, replacements of the pool's code, outflows the
                \* backend never signed, edited rows and retired ledgers, together
  PageSize,     \* ledgers one page of events covers
  Margin,       \* coldStartMarginLedgers
  Grace,        \* graceSecs of the tail
  AuditGrace,   \* unsettledGraceSecs of the audit
  StallAfter,   \* DEFAULT_TAIL_STALL_AFTER
  AlarmAfter,   \* DEFAULT_DRIFT_ALARM_AFTER
  Deployments   \* the sets of bundles createServer may be given

ASSUME WatchAssumption ==
  /\ NoOrder \notin Orders
  /\ {MaxLedgers, MaxFaults, Margin, Grace, AuditGrace} \subseteq Nat
  /\ {PageSize, StallAfter, AlarmAfter} \subseteq Nat \ {0}
  /\ Deployments \subseteq SUBSET {"tail", "audit", "settlement"}

VARIABLES
  ledgers,  \* chain: the ledgers closed so far
  floor,    \* chain: the oldest ledger the RPC still answers for
  wal,      \* disk: orders whose hash is in the authorized journal
  sent,     \* orders whose transaction was broadcast
  cursor,   \* disk: the tail's checkpoint, None before the first
  cover,    \* disk: the coverage floor, None before the first
  seen,     \* disk: ledgers whose outflow, announcement, upgrade is recorded
  susp,     \* disk: open suspects
  alarmed,  \* disk: suspects marked as paged
  rows,     \* disk: the evidence rows
  booked,   \* disk: orders the double-entry ledger has booked
  closed,   \* disk: orders the audit marked reconciled
  basis,    \* what each was closed against: the settlement's ledger, and how far the
            \* tail was done when the audit's pass began
  final,    \* disk: orders whose state machine reached Reconciled
  wired,    \* the bundles it was given
  tail, audit, drift, latch, up,   \* memory of the process
  said,     \* what was reported to a human, ever
  blind,    \* ledgers the tail has skipped
  died,     \* whether the process ever died
  spent

chain == <<ledgers, floor>>
world == <<chain, wired>>
tailDisk == <<cursor, cover, seen, susp, alarmed>>
books == <<rows, booked, closed, basis, final>>
memory == <<tail, audit, drift, latch, up>>
engine == <<wal, sent>>
reports == <<said, blind>>
budget == <<died, spent>>
vars == <<world, engine, tailDisk, books, memory, reports, budget>>

None == -1
Latest == Len(ledgers)
IdleTail == [at |-> "idle", stalls |-> 0]
NoProblem == [o \in Orders |-> "none"]
IdleAudit == [at |-> "idle", todo |-> {}, upgrades |-> {}, done |-> None, o |-> NoOrder, n |-> None,
              found |-> NoProblem]
IdleDrift == [observed |-> None, count |-> 0]
NoRow == [at |-> 0, bad |-> "absent"]

Init ==
  /\ ledgers = <<>> /\ floor = 1
  /\ wal = {} /\ sent = {}
  /\ cursor = None /\ cover = None
  /\ seen = [out |-> {}, set |-> {}, upg |-> {}]
  /\ susp = {} /\ alarmed = {}
  /\ rows = [o \in Orders |-> NoRow]
  /\ booked = {} /\ closed = {} /\ final = {}
  /\ basis = [o \in Orders |-> [n |-> None, done |-> None]]
  /\ tail = IdleTail /\ audit = IdleAudit /\ drift = IdleDrift /\ latch = NoProblem
  /\ up = TRUE
  /\ said = [rogue |-> {}, audit |-> {}, drift |-> FALSE]
  /\ blind = {}
  /\ died = FALSE /\ spent = 0
  /\ wired \in Deployments

-----------------------------------------------------------------------------
(* The chain (external).                                                   *)

Tx(by, o, moved, says) == [by |-> by, o |-> o, moved |-> moved, says |-> says]

Upgraded == \E n \in DOMAIN ledgers : ledgers[n].by = "upgrade"
Processed(o) == \E n \in DOMAIN ledgers : ledgers[n].o = o
Landed(o) == \E n \in DOMAIN ledgers : ledgers[n].by = "ours" /\ ledgers[n].o = o
Rogues == {n \in DOMAIN ledgers : ledgers[n].by = "rogue"}

\* What the next ledger may hold: a payment we sent, one somebody else signed with the
\* operator's key, a replacement of the code.  New code pays again what was paid, and
\* announces one amount and moves another.
MayClose ==
  {Tx("none", NoOrder, 0, 0)}
  \cup {Tx("ours", o, 1, 1) : o \in {p \in sent : ~Processed(p)}}
  \cup {Tx("rogue", o, 1, 1) : o \in {p \in Orders : ~Processed(p)} \cup {NoOrder}}
  \cup (IF Upgraded
        THEN {Tx("rogue", o, 2, 1) : o \in Orders}
             \cup {Tx("ours", o, m, 1) : o \in {p \in sent : ~Landed(p)}, m \in 0 .. 2}
        ELSE {Tx("upgrade", NoOrder, 0, 0)})

\* The environment's mishaps share one budget.
Mishap == spent < MaxFaults /\ spent' = spent + 1

CloseLedger ==
  /\ Latest < MaxLedgers
  /\ \E t \in MayClose :
       /\ t.by = "none" \/ Latest + 1 + Grace <= MaxLedgers
       /\ ledgers' = Append(ledgers, t)
       /\ IF t.by \in {"rogue", "upgrade"} THEN Mishap ELSE UNCHANGED spent
       /\ UNCHANGED died
  /\ UNCHANGED <<floor, wired, engine, tailDisk, books, memory, reports>>

Retire ==
  /\ floor < Latest
  /\ floor' = floor + 1
  /\ Mishap /\ UNCHANGED died
  /\ UNCHANGED <<ledgers, wired, engine, tailDisk, books, memory, reports>>

-----------------------------------------------------------------------------
(* What the settlement engine leaves behind.                               *)

\* persistPreSubmit: the hash is durable before the transaction is sent.
PersistPreSubmit(o) ==
  /\ up /\ o \notin wal
  /\ wal' = wal \cup {o}
  /\ UNCHANGED <<world, sent, tailDisk, books, memory, reports, budget>>

\* Mutant: broadcast without waiting for the journal.
BroadcastUnjournaled(o) ==
  /\ up /\ o \notin sent
  /\ sent' = sent \cup {o}
  /\ UNCHANGED <<world, wal, tailDisk, books, memory, reports, budget>>

Broadcast(o) ==
  /\ up /\ o \in wal \ sent
  /\ sent' = sent \cup {o}
  /\ UNCHANGED <<world, wal, tailDisk, books, memory, reports, budget>>

\* The payment is found on chain: its evidence row carries the wall clock.
Witness(o) ==
  /\ up /\ rows[o] = NoRow
  /\ Landed(o)
  /\ rows' = [rows EXCEPT ![o] = [at |-> Latest, bad |-> "no"]]
  /\ UNCHANGED <<world, engine, tailDisk, booked, closed, basis, final, memory, reports, budget>>

\* The settlement worker books a witnessed payout.
Book(o) ==
  /\ up /\ "settlement" \in wired
  /\ rows[o] # NoRow /\ o \notin booked
  /\ booked' = booked \cup {o}
  /\ UNCHANGED <<world, engine, tailDisk, rows, closed, basis, final, memory, reports, budget>>

-----------------------------------------------------------------------------
(* The payout tail: tailOutflows.                                          *)

\* No checkpoint yet: the coverage floor is durable before anything is fetched.
ColdStart ==
  /\ up /\ "tail" \in wired
  /\ tail.at = "idle" /\ cursor = None
  /\ Latest > 0
  /\ cover' = Max({cover, Latest})
  /\ tail' = [tail EXCEPT !.at = "cold"]
  /\ UNCHANGED <<world, engine, cursor, seen, susp, alarmed, books, audit, drift, latch, up, reports, budget>>

\* Where a fetch starts: strictly after the checkpoint, or at the cold start's anchor.
Fetching == up /\ (cursor # None \/ tail.at = "cold")
Anchor == IF cursor # None THEN cursor + 1 ELSE Max({1, cover - Margin})
Asked == IF cursor # None THEN cursor ELSE Anchor

\* observeTailHealth: the alarm rings once per episode, when the count gets to StallAfter.
Stalled ==
  [at |-> "idle",
   stalls |-> IF tail.stalls < StallAfter THEN tail.stalls + 1 ELSE tail.stalls]

\* RPC_UNAVAILABLE, also when an envelope or the node's range cannot be read.
FetchStalls ==
  /\ Fetching
  /\ tail' = Stalled
  /\ UNCHANGED <<world, engine, tailDisk, books, audit, drift, latch, up, reports, budget>>

\* classifyEventsFailure: the node's own range says what the refusal was about.
BelowRetention == Asked < floor

\* The ledgers up to last that the tail has not looked at.
Skipped(last) == (1 .. last) \ (1 .. cursor)

\* CURSOR_BELOW_RETENTION: coverage restarts, the checkpoint moves to just before head.
FetchBelowRetention ==
  /\ Fetching /\ BelowRetention
  /\ cover' = Max({cover, Latest})
  /\ cursor' = Max({1, Latest - 1})
  /\ blind' = blind \cup Skipped(cursor')
  /\ tail' = IdleTail
  /\ UNCHANGED <<world, engine, seen, susp, alarmed, books, audit, drift, latch, up, said, budget>>

LastOfPage == IF Anchor + PageSize - 1 < Latest THEN Anchor + PageSize - 1 ELSE Latest
Page == {n \in Anchor .. LastOfPage : n >= 1}

\* toOutflowEvent, toSettlementObservation: what the events of a ledger say.
IsOutflow(n) == ledgers[n].moved > 0
IsSettlement(n) == ledgers[n].says > 0

\* isAuthorized, on the live journal.
Unauthorized(n) == IsOutflow(n) /\ ~(ledgers[n].by = "ours" /\ ledgers[n].o \in wal)

\* judgeOutflows.
NewSuspects == {n \in Page : Unauthorized(n)} \ susp
Cleared == {n \in susp \cup NewSuspects : ~Unauthorized(n)}

\* Mutant: only the outflows of the page at hand are judged.
RogueOnPage == {n \in NewSuspects : Latest - n >= Grace}

RogueNow == {n \in (susp \cup NewSuspects) \ Cleared : n \notin alarmed /\ Latest - n >= Grace}

\* Mutant: the checkpoint is saved first.
CheckpointFirst == <<"cursor", "out", "set", "upg", "susp", "alarmed", "cleared">>

\* Mutant: announcements are recorded before the transfers that back them.
AnnouncementFirst == <<"set", "out", "upg", "susp", "alarmed", "cleared", "cursor">>

\* The durable order of one page's appends.
WriteOrder == <<"out", "set", "upg", "susp", "alarmed", "cleared", "cursor">>

\* Among the first k appends of a page is the one to w, which adds T to S.
Did(k, w) == \E i \in 1 .. k : WriteOrder[i] = w
Adding(k, w, S, T) == IF Did(k, w) THEN S \cup T ELSE S

RecordChain(k) ==
  seen' = [out |-> Adding(k, "out", seen.out, {n \in Page : IsOutflow(n)}),
           set |-> Adding(k, "set", seen.set, {n \in Page : IsSettlement(n)}),
           upg |-> Adding(k, "upg", seen.upg, {n \in Page : ledgers[n].by = "upgrade"})]

RecordSuspects(k) ==
  /\ susp' = Adding(k, "susp", susp, NewSuspects) \ (IF Did(k, "cleared") THEN Cleared ELSE {})
  /\ alarmed' = Adding(k, "alarmed", alarmed, RogueNow)

SaveCursor(k) ==
  IF Did(k, "cursor")
  THEN /\ cursor' = LastOfPage
       /\ blind' = blind \cup Skipped(Anchor - 1)
  ELSE UNCHANGED <<cursor, blind>>

\* The first k appends of a page happen.
Recorded(k) == RecordChain(k) /\ RecordSuspects(k) /\ SaveCursor(k)

Readable == Fetching /\ ~BelowRetention /\ Anchor <= Latest + 1

\* A page is read, recorded and reported: rogue payouts are paged.
ScanPage ==
  /\ Readable
  /\ Recorded(Len(WriteOrder))
  /\ said' = [said EXCEPT !.rogue = @ \cup RogueNow]
  /\ tail' = IdleTail
  /\ UNCHANGED <<world, engine, cover, books, audit, drift, latch, up, budget>>

-----------------------------------------------------------------------------
(* The live audit: reconcileOrders.                                        *)

\* Mutant: an order that was paged is not audited again.
AuditBeginLatched ==
  /\ up /\ "audit" \in wired
  /\ audit.at = "idle"
  /\ {o \in Orders : rows[o] # NoRow /\ latch[o] = "none"} \ closed # {}
  /\ audit' = [IdleAudit EXCEPT !.at = "next", !.upgrades = seen.upg, !.done = cursor,
                                !.todo = {o \in Orders : rows[o] # NoRow} \ closed]
  /\ UNCHANGED <<world, engine, tailDisk, books, tail, drift, latch, up, reports, budget>>

\* One pass over the open rows, with the upgrades known when it begins.
AuditBegin ==
  /\ up /\ "audit" \in wired
  /\ audit.at = "idle"
  /\ {o \in Orders : rows[o] # NoRow} \ closed # {}
  /\ audit' = [IdleAudit EXCEPT !.at = "next", !.upgrades = seen.upg, !.done = cursor,
                                !.todo = {o \in Orders : rows[o] # NoRow} \ closed]
  /\ UNCHANGED <<world, engine, tailDisk, books, tail, drift, latch, up, reports, budget>>

\* settlementByTxId: the first announcement recorded under the order's identifier.
Announced(o) == {n \in seen.set : ledgers[n].o = o}
Settlement(o) == Min(Announced(o))

\* Mutant: the amount announced is believed.
BeforeAskingUnmoved(o) ==
  IF Announced(o) = {}
  THEN IF cover # None /\ rows[o].at < cover THEN "blind:never-watched"
       ELSE IF Latest - rows[o].at >= AuditGrace THEN "unobservable" ELSE "waiting"
  ELSE IF audit.upgrades # {} THEN "diverged" ELSE "ask"

\* What the audit knows of an order before it asks the chain again.
BeforeAsking(o) ==
  IF Announced(o) = {}
  THEN IF cover # None /\ rows[o].at < cover THEN "blind:never-watched"
       ELSE IF Latest - rows[o].at >= AuditGrace THEN "unobservable" ELSE "waiting"
  ELSE IF audit.upgrades # {} THEN "diverged"
  ELSE IF Settlement(o) \notin seen.out \/ ledgers[Settlement(o)].moved # ledgers[Settlement(o)].says
       THEN "diverged" ELSE "ask"

AuditOrder(o) ==
  /\ up /\ audit.at = "next" /\ o \in audit.todo
  /\ audit' = IF BeforeAsking(o) = "ask"
              THEN [audit EXCEPT !.at = "asking", !.o = o, !.n = Settlement(o), !.todo = @ \ {o}]
              ELSE [audit EXCEPT !.todo = @ \ {o}, !.found[o] = BeforeAsking(o)]
  /\ UNCHANGED <<world, engine, tailDisk, books, tail, drift, latch, up, reports, budget>>

\* What is wrong with a row on disk shows where it is looked for: the envelope does not
\* decode, the operator did not sign it, it hashes to something else than the row says,
\* it is another payment the operator signed ("other"), or the order's facts differ from
\* the chain's.
DecodesSignedPay(bad) == bad # "xdr"
SignatureValid(bad) == bad # "signature"
HashConsistent(bad) == bad # "hash"
ComputeDiffs(bad) == bad = "intent"

Untouched(bad) == DecodesSignedPay(bad) /\ SignatureValid(bad) /\ HashConsistent(bad)

\* resolveGroundTruth: readable, signed by the operator, consistent with its hash;
\* then present on chain; then the same transaction; then the same business facts.
ResolveGroundTruth(bad, present, sameTx) ==
  CASE ~Untouched(bad) -> "EVIDENCE_TAMPERED"
    [] ~present -> "UNSETTLED"
    [] ~sameTx -> "CHAIN_DIVERGENCE"
    [] ComputeDiffs(bad) -> "CORRUPT_LOCAL"
    [] OTHER -> "MATCHED"

\* checkTxLiveness could not ask.
LivenessUnknown ==
  /\ up /\ audit.at = "asking"
  /\ audit' = [audit EXCEPT !.at = "next", !.found[audit.o] = "unreachable"]
  /\ UNCHANGED <<world, engine, tailDisk, books, tail, drift, latch, up, reports, budget>>

\* The settlement found before the question is what the answer is about.
SameTx(bad, n) == bad # "other" /\ ledgers[n].by = "ours" /\ ledgers[n].o = audit.o
Verdict == ResolveGroundTruth(rows[audit.o].bad, audit.n >= floor, SameTx(rows[audit.o].bad, audit.n))

\* FileReconciledStore.mark.
Marked(o) ==
  /\ closed' = closed \cup {o}
  /\ basis' = [basis EXCEPT ![o] = [n |-> audit.n, done |-> audit.done]]

LivenessAnswered ==
  /\ up /\ audit.at = "asking"
  /\ \/ /\ Verdict = "MATCHED"          \* marked durably, then the state machine
        /\ Marked(audit.o)
        /\ audit' = [audit EXCEPT !.at = "advance"]
     \/ /\ Verdict = "UNSETTLED"
        /\ audit' = [audit EXCEPT !.at = "next", !.found[audit.o] = "blind:aged-out"]
        /\ UNCHANGED <<closed, basis>>
     \/ /\ Verdict \notin {"MATCHED", "UNSETTLED"}
        /\ audit' = [audit EXCEPT !.at = "next", !.found[audit.o] = "diverged"]
        /\ UNCHANGED <<closed, basis>>
  /\ UNCHANGED <<world, engine, tailDisk, rows, booked, final, tail, drift, latch, up, reports, budget>>

\* advance: under the order's lock, {reconciled} is fed to the state machine.
AuditAdvance ==
  /\ up /\ audit.at = "advance"
  /\ final' = final \cup {audit.o}
  /\ audit' = [audit EXCEPT !.at = "next"]
  /\ UNCHANGED <<world, engine, tailDisk, rows, booked, closed, basis, tail, drift, latch, up, reports, budget>>

\* alarmKey; only a divergence and an unobservable settlement page a human.
Pages == {"diverged", "unobservable"}
AlarmKeys == Pages \cup {"blind:never-watched", "blind:aged-out"}

\* observeReconcile: page what is new or changed, hold what could not be looked at.
AuditEnd ==
  /\ up /\ audit.at = "next" /\ audit.todo = {}
  /\ said' = [said EXCEPT !.audit = @ \cup
                {<<o, audit.found[o]>> : o \in {p \in Orders : audit.found[p] \in Pages
                                                               /\ latch[p] # audit.found[p]}}]
  /\ latch' = [o \in Orders |->
                 IF audit.found[o] \in AlarmKeys THEN audit.found[o]
                 ELSE IF audit.found[o] = "unreachable" THEN latch[o] ELSE "none"]
  /\ audit' = IdleAudit
  /\ UNCHANGED <<world, engine, tailDisk, books, tail, drift, up, blind, budget>>

-----------------------------------------------------------------------------
(* The drift tripwire: checkDrift and observeDrift.                        *)

Gone == MapThenSumSet(LAMBDA n : ledgers[n].moved, DOMAIN ledgers)

\* The balance is read now, compared when the answer is there.
DriftRead ==
  /\ up /\ "settlement" \in wired /\ drift.observed = None
  /\ drift' = [drift EXCEPT !.observed = Gone]
  /\ UNCHANGED <<world, engine, tailDisk, books, tail, audit, latch, up, reports, budget>>

\* Mutant: a failed read counts as a reading in sync.
DriftFailsInSync ==
  /\ up /\ "settlement" \in wired /\ drift.observed = None
  /\ drift' = IdleDrift
  /\ UNCHANGED <<world, engine, tailDisk, books, tail, audit, latch, up, reports, budget>>

\* A failed read is not "in sync": the episode keeps its count.
DriftFails ==
  /\ up /\ "settlement" \in wired /\ drift.observed = None
  /\ UNCHANGED vars

DriftCompare ==
  LET count == IF drift.count < AlarmAfter THEN drift.count + 1 ELSE drift.count
      due == count >= AlarmAfter IN
  /\ up /\ drift.observed # None
  /\ IF drift.observed = Cardinality(booked)
     THEN drift' = IdleDrift /\ UNCHANGED said
     ELSE /\ drift' = [observed |-> None, count |-> count]
          /\ said' = [said EXCEPT !.drift = @ \/ due]
  /\ UNCHANGED <<world, engine, tailDisk, books, tail, audit, latch, up, blind, budget>>

-----------------------------------------------------------------------------
(* Process life.                                                           *)

Lost ==
  /\ tail' = IdleTail /\ audit' = IdleAudit /\ drift' = IdleDrift /\ latch' = NoProblem
  /\ up' = FALSE /\ died' = TRUE
  /\ Mishap

Crash ==
  /\ up
  /\ Lost
  /\ UNCHANGED <<world, engine, tailDisk, books, reports>>

\* The process dies, or the durable log refuses an append, inside a page.
ScanDies ==
  /\ Readable
  /\ \E k \in 1 .. Len(WriteOrder) : Recorded(k)
  /\ Lost
  /\ UNCHANGED <<world, engine, cover, books, said>>

Boot ==
  /\ ~up
  /\ up' = TRUE
  /\ UNCHANGED <<world, engine, tailDisk, books, tail, audit, drift, latch, reports, budget>>

\* A row or its witness is edited on disk.
Tamper(o) ==
  /\ ~up /\ rows[o] # NoRow /\ o \notin closed
  /\ \E b \in {"xdr", "signature", "hash", "other", "intent"} : rows' = [rows EXCEPT ![o].bad = b]
  /\ Mishap /\ UNCHANGED died
  /\ UNCHANGED <<world, engine, tailDisk, booked, closed, basis, final, memory, reports>>

-----------------------------------------------------------------------------

TailTick == ColdStart \/ FetchStalls \/ FetchBelowRetention \/ ScanPage
AuditTick == AuditBegin \/ (\E o \in Orders : AuditOrder(o)) \/ LivenessUnknown \/ LivenessAnswered
             \/ AuditAdvance \/ AuditEnd
DriftTick == DriftRead \/ DriftFails \/ DriftCompare

Next ==
  \/ CloseLedger \/ Retire
  \/ \E o \in Orders : PersistPreSubmit(o) \/ Broadcast(o) \/ Witness(o) \/ Book(o) \/ Tamper(o)
  \/ TailTick \/ AuditTick \/ DriftTick
  \/ Crash \/ ScanDies \/ Boot

Spec == Init /\ [][Next]_vars

\* Ledgers close, the process is restarted and its loops tick; the RPC may refuse
\* any number of calls but answers again and again.
Fairness ==
  /\ WF_vars(CloseLedger) /\ WF_vars(Boot)
  /\ WF_vars(ColdStart) /\ SF_vars(FetchBelowRetention) /\ SF_vars(ScanPage)
  /\ WF_vars(AuditBegin \/ (\E o \in Orders : AuditOrder(o)) \/ AuditAdvance \/ AuditEnd)
  /\ SF_vars(LivenessAnswered)
  /\ SF_vars(DriftRead) /\ WF_vars(DriftCompare)

FairSpec == Spec /\ Fairness

-----------------------------------------------------------------------------
(* Properties.                                                             *)

TypeOK ==
  /\ \A n \in DOMAIN ledgers :
       ledgers[n] \in [by : {"none", "ours", "rogue", "upgrade"}, o : Orders \cup {NoOrder},
                       moved : 0 .. 2, says : 0 .. 1]
  /\ floor \in 1 .. MaxLedgers + 1
  /\ sent \subseteq wal /\ wal \subseteq Orders
  /\ cursor \in {None} \cup 0 .. Latest /\ cover \in {None} \cup 1 .. Latest
  /\ \A k \in DOMAIN seen : seen[k] \subseteq 1 .. Latest
  /\ alarmed \subseteq susp /\ susp \subseteq 1 .. Latest
  /\ final \subseteq closed /\ closed \subseteq {o \in Orders : rows[o] # NoRow}
  /\ tail.stalls <= StallAfter /\ drift.count <= AlarmAfter
  /\ audit.at \in {"idle", "next", "asking", "advance"}
  /\ latch \in [Orders -> AlarmKeys \cup {"none"}]

\* Only what the backend never signed is paged as a rogue payout: the journal has the
\* hash of every payment before the payment can be on chain.
RogueNeverOurs == \A n \in said.rogue : ledgers[n].by = "rogue"

\* The checkpoint never passes a theft: an outflow the backend did not sign, in a ledger
\* the tail is done with, is an open suspect on disk or lies in a gap the tail skipped.  (With TypeOK.)
TheftPassed(n) == ledgers[n].by = "rogue" /\ n <= cursor /\ n \notin susp

NoTheftPassed == TypeOK /\ \A n \in DOMAIN ledgers : TheftPassed(n) => n \in blind

\* The tail was done with no replacement of the pool's code up to ledger k, but for those
\* in a gap it skipped.
NoUpgradeUpTo(k) ==
  \A m \in DOMAIN ledgers : m <= k /\ ledgers[m].by = "upgrade" => m \in blind

\* An order is closed against one settlement on chain: it is the transaction that was
\* signed for this order, and what it moved is what it announced; the order's row is
\* sound; and the pass that closed it began before the tail was done with any replacement
\* of the pool's code, unless the tail skipped it.
ClosedTrue ==
  \A o \in closed :
    LET n == basis[o].n IN
    /\ rows[o].bad = "no"
    /\ n \in DOMAIN ledgers
    /\ ledgers[n].by = "ours" /\ ledgers[n].o = o
    /\ ledgers[n].moved = ledgers[n].says
    /\ NoUpgradeUpTo(basis[o].done)

\* The audit accuses the chain or a row only when something is wrong: the code was
\* replaced, the row was edited, or somebody else settled the order.
NoFalseDivergence ==
  \A o \in Orders : <<o, "diverged">> \in said.audit =>
    Upgraded \/ rows[o].bad # "no" \/ (\E n \in Rogues : ledgers[n].o = o)

\* Thefts neither paged nor skipped; a process that dies between the durable mark and
\* the page pages nobody.
Unpaged == {n \in Rogues : n \notin said.rogue \cup blind /\ ~(n \in alarmed /\ died)}

\* Every theft is paged, unless the tail skipped its ledger or the process died between
\* the durable mark and the page.
RoguePaged == "tail" \in wired => []<>(Unpaged = {})

\* Value that left without being booked sounds the tripwire, whatever the tail missed and
\* however often the balance could not be read.
DriftCovers == <>[]("settlement" \in wired /\ Gone # Cardinality(booked)) => <>(said.drift)

\* An honest payout is closed, unless it can no longer be compared with the chain.
AuditConverges ==
  \A o \in Orders :
    ("audit" \in wired /\ rows[o] # NoRow) ~>
      \/ o \in closed \/ rows[o].bad # "no" \/ Upgraded
      \/ \E n \in DOMAIN ledgers : ledgers[n].o = o /\ (n \in blind \/ n < floor)
=============================================================================
