---------------------------- MODULE WatchProofs ----------------------------
(***************************************************************************)
(* Theorems about the watchers of the pool, for any number of orders,      *)
(* ledgers and faults, any page size and any grace periods.                *)
(*                                                                         *)
(* The inductive invariant has four parts: what the chain may hold, what   *)
(* the tail has left on disk, what the audit has left on disk and in       *)
(* memory, and what was said to a human.                                   *)
(***************************************************************************)
EXTENDS Watch, WellFoundedInduction, SequenceTheorems, TLAPS

Txs == [by : {"none", "ours", "rogue", "upgrade"}, o : Orders \cup {NoOrder},
        moved : 0 .. 2, says : 0 .. 1]

\* A payment of ours is in the journal; a settlement is announced by a payment, and only
\* replaced code announces another amount than it moves.
TxTrue(n) ==
  /\ ledgers[n].by = "ours" => ledgers[n].o \in wal /\ ledgers[n].says = 1
  /\ ledgers[n].by \in {"none", "upgrade"} => ledgers[n].moved = 0 /\ ledgers[n].says = 0
  /\ ledgers[n].by = "rogue" => ledgers[n].moved > 0 /\ ledgers[n].says = 1
  /\ ledgers[n].moved # ledgers[n].says => Upgraded

ChainInv ==
  /\ ledgers \in Seq(Txs) /\ Latest <= MaxLedgers
  /\ floor \in Nat \ {0} /\ floor <= MaxLedgers + 1
  /\ sent \subseteq wal /\ wal \subseteq Orders
  /\ \A n \in DOMAIN ledgers : TxTrue(n)

\* A replacement of the code the tail is done with and has not recorded.
UpgradePassed(n) == ledgers[n].by = "upgrade" /\ n <= cursor /\ n \notin seen.upg

\* What the tail has recorded is on chain, an announcement is never recorded without its
\* transfer, every open suspect is a theft, and what the checkpoint has passed is recorded
\* or skipped.
TailInv ==
  /\ tail \in [at : {"idle", "cold"}, stalls : 0 .. StallAfter]
  /\ cursor \in {None} \cup 1 .. Latest /\ cover \in {None} \cup 1 .. Latest
  /\ tail.at = "cold" => cover # None
  /\ seen \in [out : SUBSET (1 .. Latest), set : SUBSET (1 .. Latest), upg : SUBSET (1 .. Latest)]
  /\ \A n \in seen.set : ledgers[n].says = 1 /\ (n \in seen.out \/ ledgers[n].moved = 0)
  /\ \A n \in seen.upg : ledgers[n].by = "upgrade"
  /\ susp \subseteq Rogues /\ alarmed \subseteq susp
  /\ \A n \in DOMAIN ledgers : TheftPassed(n) => n \in blind
  /\ \A n \in DOMAIN ledgers : UpgradePassed(n) => n \in blind

\* Something is wrong with the chain's or the disk's account of a witnessed order.
Faulty(o) ==
  /\ rows[o].bad # "absent"
  /\ Upgraded \/ rows[o].bad # "no" \/ (\E n \in Rogues : ledgers[n].o = o)

RowStates == {"absent", "no", "xdr", "signature", "hash", "other", "intent"}

RowsInv ==
  /\ rows \in [Orders -> [at : Nat, bad : RowStates]]
  /\ \A o \in Orders : rows[o].bad = "absent" => rows[o] = NoRow
  /\ final \subseteq closed /\ closed \subseteq Orders
  /\ basis \in [Orders -> [n : Int, done : Int]]
  /\ \A o \in closed : basis[o].done <= Latest
  /\ ClosedTrue

Found == {"none", "waiting", "unreachable"} \cup AlarmKeys

\* The settlement a question is about: its transfer is what it announced.
Settled(o, n) ==
  /\ n \in DOMAIN ledgers
  /\ ledgers[n].by \in {"ours", "rogue"} /\ ledgers[n].o = o
  /\ ledgers[n].moved = ledgers[n].says

AuditInv ==
  /\ audit \in [at : {"idle", "next", "asking", "advance"}, todo : SUBSET Orders,
                upgrades : SUBSET Nat, done : Int, o : Orders \cup {NoOrder}, n : Int,
                found : [Orders -> Found]]
  /\ ~up => audit = IdleAudit
  /\ audit.upgrades # {} => Upgraded
  /\ audit.done <= Latest /\ (audit.upgrades = {} => NoUpgradeUpTo(audit.done))
  /\ \A o \in audit.todo : rows[o].bad # "absent"
  /\ audit.at = "asking" => /\ audit.o \in Orders
                            /\ rows[audit.o].bad # "absent"
                            /\ Settled(audit.o, audit.n) /\ audit.upgrades = {}
  /\ audit.at = "advance" => audit.o \in closed
  /\ \A o \in Orders : audit.found[o] = "diverged" => Faulty(o)
  /\ latch \in [Orders -> AlarmKeys \cup {"none"}]

SaidInv ==
  /\ said = [rogue |-> said.rogue, audit |-> said.audit, drift |-> said.drift]
  /\ drift = [observed |-> drift.observed, count |-> drift.count]
  /\ drift.count \in 0 .. AlarmAfter
  /\ said.rogue \subseteq Rogues
  /\ \A o \in Orders : <<o, "diverged">> \in said.audit => Faulty(o)

WatchInv == ChainInv /\ TailInv /\ RowsInv /\ AuditInv /\ SaidInv

-----------------------------------------------------------------------------
(* The operators the model takes from the libraries.                       *)

\* The greater of two integers.
LEMMA MaxOfTwo ==
  ASSUME NEW a \in Int, NEW b \in Int
  PROVE  Max({a, b}) = IF a >= b THEN a ELSE b
<1>. DEFINE m == IF a >= b THEN a ELSE b
<1>1. m \in {a, b} /\ \A y \in {a, b} : m >= y
  OBVIOUS
<1>2. \A x \in {a, b} : (\A y \in {a, b} : x >= y) => x = m
  OBVIOUS
<1>. QED  BY <1>1, <1>2 DEF Max

\* A set of naturals that is not empty contains its least element.
LEMMA MinIsMember ==
  ASSUME NEW S \in SUBSET Nat, S # {}
  PROVE  Min(S) \in S
<1>. DEFINE R == {ss \in Nat \X Nat : ss[1] < ss[2]}
<1>1. IsWellFoundedOn(R, Nat)
  BY NatLessThanWellFounded DEF OpToRel
<1>2. PICK x \in S : \A y \in S : ~(<<y, x>> \in R)
  <2>. HIDE DEF R
  <2>. QED  BY <1>1, WFMin
<1>3. ASSUME NEW y \in S PROVE x =< y
  <2>1. ~(<<y, x>> \in R)
    BY <1>2
  <2>2. x \in Nat /\ y \in Nat
    OBVIOUS
  <2>. QED  BY <2>1, <2>2
<1>. QED  BY <1>3 DEF Min

-----------------------------------------------------------------------------
(* What leaves a part of the invariant alone.                              *)

\* The chain and the journal stand still.
LEMMA ChainFrame ==
  ASSUME ChainInv, UNCHANGED <<ledgers, floor, sent, wal>>
  PROVE  ChainInv'
BY DEF ChainInv, TxTrue, Upgraded, Latest

\* The tail's disk and memory stand still.
LEMMA TailFrame ==
  ASSUME TailInv, UNCHANGED <<ledgers, tail, tailDisk, blind>>
  PROVE  TailInv'
BY DEF TailInv, TheftPassed, UpgradePassed, Rogues, Latest, tailDisk

\* A ledger that was skipped stays so.
LEMMA NoUpgradeStays ==
  ASSUME NEW k, NoUpgradeUpTo(k), blind \subseteq blind', UNCHANGED ledgers
  PROVE  NoUpgradeUpTo(k)'
BY DEF NoUpgradeUpTo

\* The evidence rows and what was closed stand still.
LEMMA RowsFrame ==
  ASSUME RowsInv, UNCHANGED <<ledgers, rows, closed, basis, final>>, blind \subseteq blind'
  PROVE  RowsInv'
BY DEF RowsInv, ClosedTrue, NoUpgradeUpTo, Latest

\* The audit and all it has looked at stand still.
LEMMA AuditFrame ==
  ASSUME AuditInv, UNCHANGED <<ledgers, rows, closed, audit, latch, up>>, blind \subseteq blind'
  PROVE  AuditInv'
BY DEF AuditInv, Settled, Faulty, Upgraded, Rogues, NoUpgradeUpTo, Latest

\* Nothing more was said.
LEMMA SaidFrame ==
  ASSUME SaidInv, UNCHANGED <<ledgers, rows, drift, said>>
  PROVE  SaidInv'
BY DEF SaidInv, Faulty, Upgraded, Rogues

\* An accusation stays true while the chain grows and a witnessed row is edited.
LEMMA FaultyStays ==
  ASSUME NEW o \in Orders, Faulty(o), ledgers' = ledgers,
         \/ rows'[o] = rows[o]
         \/ rows'[o].bad \notin {"absent", "no"}
  PROVE  Faulty(o)'
BY DEF Faulty, Upgraded, Rogues

-----------------------------------------------------------------------------
(* The initial states.                                                     *)

\* Nothing on chain, on disk or said.
LEMMA InitWatch == Init => WatchInv
<1>. SUFFICES ASSUME Init PROVE WatchInv
  OBVIOUS
<1>1. ledgers = <<>> /\ ledgers \in Seq(Txs) /\ Latest = 0 /\ DOMAIN ledgers = {} /\ Rogues = {}
  BY EmptySeq DEF Init, Latest, Rogues
<1>2. ChainInv
  BY <1>1, WatchAssumption DEF Init, ChainInv
<1>3. TailInv
  BY <1>1, WatchAssumption DEF Init, TailInv, IdleTail, None
<1>4. RowsInv
  BY <1>1 DEF Init, RowsInv, ClosedTrue, NoRow, RowStates, None
<1>5. AuditInv
  BY <1>1 DEF Init, AuditInv, IdleAudit, NoProblem, Found, NoUpgradeUpTo, None
<1>6. SaidInv
  BY <1>1, WatchAssumption DEF Init, SaidInv, IdleDrift
<1>. QED  BY <1>2, <1>3, <1>4, <1>5, <1>6 DEF WatchInv

-----------------------------------------------------------------------------
(* The chain.                                                              *)

\* A ledger more.
LEMMA Grown ==
  ASSUME ChainInv, NEW t \in Txs, ledgers' = Append(ledgers, t)
  PROVE  /\ ledgers' \in Seq(Txs) /\ Latest \in Nat /\ Latest' = Latest + 1
         /\ DOMAIN ledgers = 1 .. Latest /\ DOMAIN ledgers' = 1 .. (Latest + 1)
         /\ \A n \in 1 .. Latest : ledgers'[n] = ledgers[n]
         /\ ledgers'[Latest + 1] = t
         /\ Rogues \subseteq Rogues' /\ (Upgraded => Upgraded')
         /\ \A o \in Orders : rows' = rows /\ Faulty(o) => Faulty(o)'
<1>1. ledgers \in Seq(Txs)
  BY DEF ChainInv
<1>2. /\ ledgers' \in Seq(Txs) /\ Latest \in Nat /\ Latest' = Latest + 1
      /\ DOMAIN ledgers = 1 .. Latest /\ DOMAIN ledgers' = 1 .. (Latest + 1)
  BY <1>1, AppendProperties, LenProperties DEF Latest
<1>3. /\ \A n \in 1 .. Latest : ledgers'[n] = ledgers[n]
      /\ ledgers'[Latest + 1] = t
  BY <1>1, AppendProperties DEF Latest
<1>4. Rogues \subseteq Rogues' /\ (Upgraded => Upgraded')
  BY <1>2, <1>3 DEF Rogues, Upgraded
<1>5. ASSUME NEW o \in Orders, rows' = rows, Faulty(o) PROVE Faulty(o)'
  <2>1. CASE \E n \in Rogues : ledgers[n].o = o
    BY <1>2, <1>3, <1>4, <1>5, <2>1 DEF Faulty, Rogues
  <2>2. CASE Upgraded \/ rows[o].bad # "no"
    BY <1>4, <1>5, <2>2 DEF Faulty
  <2>. QED  BY <1>5, <2>1, <2>2 DEF Faulty
<1>. QED  BY <1>2, <1>3, <1>4, <1>5

\* What may close is a transaction as the chain's part of the invariant has them.
LEMMA MayCloseTrue ==
  ASSUME ChainInv, NEW t \in MayClose
  PROVE  /\ t \in Txs
         /\ t.by = "ours" => t.o \in wal /\ t.says = 1
         /\ t.by \in {"none", "upgrade"} => t.moved = 0 /\ t.says = 0
         /\ t.by = "rogue" => t.moved > 0 /\ t.says = 1
         /\ t.moved # t.says => Upgraded
BY DEF MayClose, Tx, Txs, ChainInv

\* A ledger closes with whatever the chain may hold.
LEMMA CloseLedgerKeeps == WatchInv /\ CloseLedger => WatchInv'
<1>. SUFFICES ASSUME WatchInv, CloseLedger PROVE WatchInv'
  OBVIOUS
<1>. USE DEF WatchInv
<1>1. PICK t \in MayClose : ledgers' = Append(ledgers, t)
  BY DEF CloseLedger
<1>2. t \in Txs
  BY <1>1, MayCloseTrue
<1>. DEFINE Old == 1 .. Latest
<1>3. /\ ledgers' \in Seq(Txs) /\ Latest \in Nat /\ Latest' = Latest + 1
      /\ DOMAIN ledgers = Old /\ DOMAIN ledgers' = Old \cup {Latest + 1}
      /\ \A n \in Old : ledgers'[n] = ledgers[n]
      /\ ledgers'[Latest + 1] = t
      /\ Rogues \subseteq Rogues' /\ (Upgraded => Upgraded')
      /\ \A o \in Orders : rows' = rows /\ Faulty(o) => Faulty(o)'
  BY <1>1, <1>2, Grown
<1>4. /\ UNCHANGED <<floor, wal, sent, cursor, cover, seen, susp, alarmed, rows, booked, closed, basis, final>>
      /\ UNCHANGED <<tail, audit, drift, latch, up, said, blind>>
  BY DEF CloseLedger, engine, tailDisk, books, memory, reports
<1>5. ChainInv'
  <2>1. ASSUME NEW n \in DOMAIN ledgers' PROVE TxTrue(n)'
    <3>1. CASE n \in Old
      BY <1>3, <1>4, <3>1 DEF TxTrue, ChainInv
    <3>2. CASE n = Latest + 1
      BY <1>1, <1>3, <1>4, <3>2, MayCloseTrue DEF TxTrue
    <3>. QED  BY <1>3, <3>1, <3>2
  <2>2. Latest' <= MaxLedgers
    BY <1>3, WatchAssumption DEF CloseLedger
  <2>. QED  BY <1>3, <1>4, <2>1, <2>2 DEF ChainInv
<1>6. TailInv'
  <2>1. ASSUME NEW n \in DOMAIN ledgers', TheftPassed(n)' PROVE n \in blind'
    <3>1. n \in Old
      BY <1>3, <1>4, <2>1 DEF TheftPassed, TailInv, None
    <3>. QED  BY <1>3, <1>4, <2>1, <3>1 DEF TheftPassed, TailInv
  <2>2. cursor' \in {None} \cup 1 .. Latest' /\ cover' \in {None} \cup 1 .. Latest'
    BY <1>3, <1>4 DEF TailInv, None
  <2>3. seen' \in [out : SUBSET (1 .. Latest'), set : SUBSET (1 .. Latest'), upg : SUBSET (1 .. Latest')]
    BY <1>3, <1>4 DEF TailInv
  <2>4. /\ \A n \in seen'.set : ledgers'[n].says = 1
        /\ \A n \in seen'.upg : ledgers'[n].by = "upgrade"
    BY <1>3, <1>4 DEF TailInv
  <2>5. ASSUME NEW n \in DOMAIN ledgers', UpgradePassed(n)' PROVE n \in blind'
    <3>1. n \in Old
      BY <1>3, <1>4, <2>5 DEF UpgradePassed, TailInv, None
    <3>. QED  BY <1>3, <1>4, <2>5, <3>1 DEF UpgradePassed, TailInv
  <2>. QED  BY <1>3, <1>4, <2>1, <2>2, <2>3, <2>4, <2>5 DEF TailInv
<1>7. \A k \in Int : k <= Latest /\ NoUpgradeUpTo(k) => NoUpgradeUpTo(k)'
  BY <1>3, <1>4 DEF NoUpgradeUpTo
<1>8. RowsInv'
  <2>1. ASSUME NEW o \in closed PROVE basis[o].done \in Int /\ basis[o].done <= Latest
    BY <2>1 DEF RowsInv
  <2>2. ClosedTrue'
    BY <1>3, <1>4, <1>7, <2>1 DEF RowsInv, ClosedTrue
  <2>. QED  BY <1>3, <1>4, <2>1, <2>2 DEF RowsInv
<1>9. AuditInv'
  <2>1. Settled(audit.o, audit.n) => Settled(audit.o, audit.n)'
    BY <1>3, <1>4 DEF Settled
  <2>2. \A o \in Orders : audit.found[o] = "diverged" => Faulty(o)'
    BY <1>3, <1>4 DEF AuditInv
  <2>3. audit.done <= Latest' /\ (audit.upgrades = {} => NoUpgradeUpTo(audit.done)')
    BY <1>3, <1>4, <1>7 DEF AuditInv
  <2>. QED  BY <1>3, <1>4, <2>1, <2>2, <2>3 DEF AuditInv
<1>10. SaidInv'
  BY <1>3, <1>4 DEF SaidInv
<1>. QED  BY <1>5, <1>6, <1>8, <1>9, <1>10

\* The node forgets its oldest ledger.
LEMMA RetireKeeps == WatchInv /\ Retire => WatchInv'
<1>. SUFFICES ASSUME WatchInv, Retire PROVE WatchInv'
  OBVIOUS
<1>. USE DEF WatchInv
<1>1. Latest \in Nat
  BY LenProperties DEF ChainInv, Latest
<1>2. ChainInv'
  BY <1>1, WatchAssumption DEF Retire, ChainInv, TxTrue, Upgraded, Latest, engine
<1>. QED
  BY <1>2, TailFrame, RowsFrame, AuditFrame, SaidFrame
     DEF Retire, tailDisk, books, memory, reports

-----------------------------------------------------------------------------
(* What the settlement engine leaves behind.                               *)

\* The journal grows.
LEMMA PersistKeeps ==
  ASSUME WatchInv, NEW o \in Orders, PersistPreSubmit(o)
  PROVE  WatchInv'
<1>. USE DEF WatchInv
<1>1. ChainInv'
  BY DEF PersistPreSubmit, ChainInv, TxTrue, Upgraded, Latest, world, chain
<1>. QED
  BY <1>1, TailFrame, RowsFrame, AuditFrame, SaidFrame
     DEF PersistPreSubmit, world, chain, tailDisk, books, memory, reports

\* What is broadcast is in the journal.
LEMMA BroadcastKeeps ==
  ASSUME WatchInv, NEW o \in Orders, Broadcast(o)
  PROVE  WatchInv'
<1>. USE DEF WatchInv
<1>1. ChainInv'
  BY DEF Broadcast, ChainInv, TxTrue, Upgraded, Latest, world, chain
<1>. QED
  BY <1>1, TailFrame, RowsFrame, AuditFrame, SaidFrame
     DEF Broadcast, world, chain, tailDisk, books, memory, reports

\* A row is written or edited: only an absent one becomes sound, only one that is neither
\* closed nor under audit becomes unsound.
LEMMA RowChangeKeeps ==
  ASSUME WatchInv, NEW o \in Orders, NEW row \in [at : Nat, bad : RowStates \ {"absent"}],
         rows' = [rows EXCEPT ![o] = row],
         \/ rows[o] = NoRow
         \/ ~up /\ o \notin closed /\ row.bad # "no",
         UNCHANGED <<ledgers, floor, sent, wal, tail, tailDisk, blind, closed, basis, final,
                     audit, latch, up, drift, said>>
  PROVE  WatchInv'
<1>. USE DEF WatchInv
<1>1. /\ rows' \in [Orders -> [at : Nat, bad : RowStates]]
      /\ rows'[o] = row /\ \A p \in Orders \ {o} : rows'[p] = rows[p]
      /\ row.bad # "absent"
  BY DEF RowsInv, RowStates
<1>2. NoRow.bad = "absent"
  BY DEF NoRow
<1>3. ASSUME NEW p \in Orders, Faulty(p) PROVE Faulty(p)'
  <2>1. CASE p # o
    BY <1>1, <1>3, <2>1, FaultyStays
  <2>2. CASE p = o
    BY <1>1, <1>2, <1>3, <2>2, FaultyStays DEF Faulty
  <2>. QED  BY <2>1, <2>2
<1>4. RowsInv'
  <2>1. ASSUME NEW p \in closed PROVE rows'[p].bad = "no"
    BY <1>1, <1>2 DEF RowsInv, ClosedTrue
  <2>2. ClosedTrue'
    BY <2>1, NoUpgradeStays DEF RowsInv, ClosedTrue
  <2>3. \A p \in Orders : rows'[p].bad = "absent" => rows'[p] = NoRow
    BY <1>1 DEF RowsInv
  <2>. QED  BY <1>1, <2>2, <2>3 DEF RowsInv, Latest
<1>5. AuditInv'
  <2>1. \A p \in Orders : rows[p].bad # "absent" => rows'[p].bad # "absent"
    BY <1>1
  <2>2. /\ Settled(audit.o, audit.n) => Settled(audit.o, audit.n)'
        /\ NoUpgradeUpTo(audit.done) => NoUpgradeUpTo(audit.done)'
    BY DEF Settled, NoUpgradeUpTo
  <2>3. Upgraded' = Upgraded /\ Latest' = Latest
    BY DEF Upgraded, Latest
  <2>. QED  BY <1>3, <2>1, <2>2, <2>3 DEF AuditInv
<1>6. SaidInv'
  BY <1>3 DEF SaidInv, Rogues
<1>. QED  BY <1>4, <1>5, <1>6, ChainFrame, TailFrame

\* A payment found on chain gets its row.
LEMMA WitnessKeeps ==
  ASSUME WatchInv, NEW o \in Orders, Witness(o)
  PROVE  WatchInv'
<1>1. Latest \in Nat
  BY LenProperties DEF WatchInv, ChainInv, Latest
<1>. DEFINE row == [at |-> Latest, bad |-> "no"]
<1>2. row \in [at : Nat, bad : RowStates \ {"absent"}]
  BY <1>1 DEF RowStates
<1>3. /\ rows' = [rows EXCEPT ![o] = row] /\ rows[o] = NoRow
      /\ UNCHANGED <<ledgers, floor, sent, wal, tail, tailDisk, blind, closed, basis, final,
                     audit, latch, up, drift, said>>
  BY DEF Witness, world, chain, engine, memory, reports
<1>. HIDE DEF row
<1>. QED  BY <1>2, <1>3, RowChangeKeeps

\* Rows are edited while the process is down.
LEMMA TamperKeeps ==
  ASSUME WatchInv, NEW o \in Orders, Tamper(o)
  PROVE  WatchInv'
<1>1. PICK b \in {"xdr", "signature", "hash", "other", "intent"} : rows' = [rows EXCEPT ![o].bad = b]
  BY DEF Tamper
<1>2. rows[o] \in [at : Nat, bad : RowStates]
  BY DEF WatchInv, RowsInv
<1>. DEFINE row == [rows[o] EXCEPT !.bad = b]
<1>3. row \in [at : Nat, bad : RowStates \ {"absent"}] /\ row.bad # "no"
  BY <1>1, <1>2 DEF RowStates
<1>4. /\ rows' = [rows EXCEPT ![o] = row] /\ ~up /\ o \notin closed
      /\ UNCHANGED <<ledgers, floor, sent, wal, tail, tailDisk, blind, closed, basis, final,
                     audit, latch, up, drift, said>>
  BY <1>1 DEF Tamper, world, chain, engine, memory, reports
<1>. HIDE DEF row
<1>. QED  BY <1>3, <1>4, RowChangeKeeps

\* A booking touches none of this.
LEMMA BookKeeps ==
  ASSUME WatchInv, NEW o \in Orders, Book(o)
  PROVE  WatchInv'
BY ChainFrame, TailFrame, RowsFrame, AuditFrame, SaidFrame
   DEF WatchInv, Book, world, chain, engine, tailDisk, memory, reports

-----------------------------------------------------------------------------
(* The tail.                                                               *)

\* Numbers of the chain and the tail.
LEMMA TailNumbers ==
  ASSUME ChainInv, TailInv
  PROVE  /\ Latest \in Nat /\ DOMAIN ledgers = 1 .. Latest
         /\ cursor \in Int /\ cover \in Int /\ Max({cover, Latest}) = Latest
         /\ Max({1, Latest - 1}) \in Nat \ {0}
         /\ Latest > 0 => Max({1, Latest - 1}) <= Latest
<1>1. Latest \in Nat /\ DOMAIN ledgers = 1 .. Latest
  BY LenProperties DEF ChainInv, Latest
<1>2. cursor \in Int /\ cover \in Int /\ cover <= Latest
  BY <1>1 DEF TailInv, None
<1>3. Max({cover, Latest}) = IF cover >= Latest THEN cover ELSE Latest
  BY <1>1, <1>2, MaxOfTwo
<1>4. Max({1, Latest - 1}) = IF 1 >= Latest - 1 THEN 1 ELSE Latest - 1
  BY <1>1, MaxOfTwo
<1>. QED  BY <1>1, <1>2, <1>3, <1>4

\* The coverage floor is set before the first fetch.
LEMMA ColdStartKeeps == WatchInv /\ ColdStart => WatchInv'
<1>. SUFFICES ASSUME WatchInv, ColdStart PROVE WatchInv'
  OBVIOUS
<1>. USE DEF WatchInv
<1>1. Latest \in 1 .. Latest /\ cover' = Latest
  BY TailNumbers DEF ColdStart
<1>2. UNCHANGED <<ledgers, cursor, seen, susp, alarmed, blind, Latest, Rogues>>
  BY DEF ColdStart, world, chain, reports, Latest, Rogues
<1>3. tail' \in [at : {"idle", "cold"}, stalls : 0 .. StallAfter]
  BY DEF ColdStart, TailInv
<1>4. \A n : TheftPassed(n)' = TheftPassed(n) /\ UpgradePassed(n)' = UpgradePassed(n)
  BY <1>2 DEF TheftPassed, UpgradePassed
<1>5. cover' # None
  BY <1>1, TailNumbers DEF None
<1>6. TailInv'
  BY <1>1, <1>2, <1>3, <1>4, <1>5 DEF TailInv
<1>. QED
  BY <1>6, ChainFrame, RowsFrame, AuditFrame, SaidFrame
     DEF ColdStart, world, chain, engine, books, reports

\* A fetch that fails leaves the disk alone.
LEMMA FetchStallsKeeps == WatchInv /\ FetchStalls => WatchInv'
<1>. SUFFICES ASSUME WatchInv, FetchStalls PROVE WatchInv'
  OBVIOUS
<1>. USE DEF WatchInv
<1>1. Stalled \in [at : {"idle", "cold"}, stalls : 0 .. StallAfter] /\ Stalled.at # "cold"
  BY WatchAssumption DEF Stalled, TailInv
<1>2. TailInv'
  BY <1>1 DEF FetchStalls, TailInv, TheftPassed, UpgradePassed, Rogues, Latest, world, chain, tailDisk, reports
<1>. QED
  BY <1>2, ChainFrame, RowsFrame, AuditFrame, SaidFrame
     DEF FetchStalls, world, chain, engine, tailDisk, books, reports

\* The gap the tail could not read is on record.
LEMMA BelowRetentionKeeps == WatchInv /\ FetchBelowRetention => WatchInv'
<1>. SUFFICES ASSUME WatchInv, FetchBelowRetention PROVE WatchInv'
  OBVIOUS
<1>. USE DEF WatchInv
<1>1. UNCHANGED <<ledgers, seen, susp, alarmed, Latest, Rogues>>
  BY DEF FetchBelowRetention, world, chain, Latest, Rogues
<1>2. Latest > 0
  BY TailNumbers DEF FetchBelowRetention, Fetching, TailInv, None
<1>3. cursor' \in 1 .. Latest /\ cover' \in 1 .. Latest
  BY <1>2, TailNumbers DEF FetchBelowRetention
<1>4. ASSUME NEW n \in DOMAIN ledgers, TheftPassed(n)' \/ UpgradePassed(n)' PROVE n \in blind'
  <2>1. n \in 1 .. cursor'
    BY <1>1, <1>3, <1>4, TailNumbers DEF TheftPassed, UpgradePassed
  <2>2. CASE n <= cursor
    BY <1>1, <1>4, <2>2 DEF TheftPassed, UpgradePassed, TailInv, FetchBelowRetention
  <2>3. CASE ~(n <= cursor)
    BY <2>1, <2>3, TailNumbers DEF FetchBelowRetention, Skipped
  <2>. QED  BY <2>2, <2>3
<1>5. tail' \in [at : {"idle", "cold"}, stalls : 0 .. StallAfter] /\ tail'.at # "cold"
  BY WatchAssumption DEF FetchBelowRetention, IdleTail
<1>6. TailInv'
  BY <1>1, <1>3, <1>4, <1>5 DEF TailInv
<1>7. blind \subseteq blind'
  BY DEF FetchBelowRetention
<1>. QED
  BY <1>6, <1>7, ChainFrame, RowsFrame, AuditFrame, SaidFrame
     DEF FetchBelowRetention, world, chain, engine, books

\* A page is a run of closed ledgers right after what the tail is done with.
LEMMA PageShape ==
  ASSUME ChainInv, TailInv, Readable
  PROVE  /\ Anchor \in Nat \ {0} /\ LastOfPage \in 1 .. Latest
         /\ Page = Anchor .. LastOfPage /\ Page \subseteq 1 .. Latest
<1>1. \/ cursor # None /\ cursor \in 1 .. Latest /\ Anchor = cursor + 1
      \/ cursor = None /\ cover \in 1 .. Latest /\ Anchor = Max({1, cover - Margin})
  BY DEF Readable, Fetching, Anchor, TailInv, None
<1>2. Anchor \in Nat \ {0} /\ Latest \in Nat /\ Latest > 0
  <2>1. CASE cursor # None
    BY <1>1, <2>1, TailNumbers
  <2>2. CASE cursor = None
    <3>1. cover - Margin \in Int
      BY TailNumbers, WatchAssumption
    <3>2. Anchor = IF 1 >= cover - Margin THEN 1 ELSE cover - Margin
      BY <1>1, <2>2, <3>1, MaxOfTwo
    <3>. QED  BY <1>1, <2>2, <3>1, <3>2, TailNumbers
  <2>. QED  BY <2>1, <2>2
<1>3. LastOfPage \in 1 .. Latest
  BY <1>2, WatchAssumption DEF LastOfPage
<1>. QED  BY <1>2, <1>3 DEF Page

\* The journal knows every payment of ours, so only a theft is unauthorized.
LEMMA UnauthorizedIsTheft ==
  ASSUME ChainInv, NEW n \in DOMAIN ledgers
  PROVE  Unauthorized(n) <=> ledgers[n].by = "rogue"
<1>1. ledgers[n] \in Txs /\ TxTrue(n)
  BY ElementOfSeq, LenProperties DEF ChainInv
<1>. QED  BY <1>1 DEF Txs, TxTrue, Unauthorized, IsOutflow

\* The order of the appends: transfers come first, the checkpoint last.
LEMMA Appends ==
  ASSUME NEW k \in 1 .. Len(WriteOrder)
  PROVE  /\ Did(k, "out")
         /\ Did(k, "alarmed") => Did(k, "susp")
         /\ Did(k, "cursor") => Did(k, "susp") /\ Did(k, "upg")
BY DEF Did, WriteOrder

\* However many of a page's appends happen, the tail's part of the invariant holds.
LEMMA RecordedKeeps ==
  ASSUME ChainInv, TailInv, Readable, NEW k \in 1 .. Len(WriteOrder), Recorded(k),
         tail' = IdleTail, UNCHANGED <<ledgers, cover>>
  PROVE  TailInv' /\ RogueNow \subseteq Rogues /\ blind \subseteq blind'
<1>. DEFINE L == 1 .. Latest
<1>1. /\ Latest \in Nat /\ DOMAIN ledgers = L /\ Page \subseteq L
      /\ Page = Anchor .. LastOfPage /\ Anchor \in Nat \ {0} /\ LastOfPage \in L
  BY PageShape, TailNumbers
<1>2. UNCHANGED <<Latest, Rogues>>
  BY DEF Latest, Rogues
<1>3. \A n \in L : Unauthorized(n) <=> n \in Rogues
  BY <1>1, UnauthorizedIsTheft DEF Rogues
<1>4. susp \subseteq Rogues /\ Rogues \subseteq L
  BY <1>1 DEF TailInv, Rogues
<1>5. NewSuspects = (Page \cap Rogues) \ susp
  BY <1>1, <1>3 DEF NewSuspects
<1>6. Cleared = {}
  BY <1>3, <1>4, <1>5 DEF Cleared
<1>7. RogueNow \subseteq susp \cup NewSuspects
  BY DEF RogueNow
<1>8. /\ susp' = IF Did(k, "susp") THEN susp \cup NewSuspects ELSE susp
      /\ alarmed' = IF Did(k, "alarmed") THEN alarmed \cup RogueNow ELSE alarmed
  BY <1>6 DEF Recorded, RecordSuspects, Adding
<1>9. susp' \subseteq Rogues' /\ alarmed' \subseteq susp' /\ susp \subseteq susp'
  BY <1>2, <1>4, <1>5, <1>7, <1>8, Appends DEF TailInv
<1>10. /\ seen' \in [out : SUBSET L, set : SUBSET L, upg : SUBSET L]
       /\ \A n \in seen'.set : ledgers[n].says = 1 /\ (n \in seen'.out \/ ledgers[n].moved = 0)
       /\ seen.upg \subseteq seen'.upg
       /\ Did(k, "upg") => \A n \in Page : ledgers[n].by = "upgrade" => n \in seen'.upg
       /\ \A n \in seen'.upg : ledgers[n].by = "upgrade"
  <2>1. \A n \in L : ledgers[n].says \in 0 .. 1 /\ ledgers[n].moved \in 0 .. 2
    <3>1. \A n \in L : ledgers[n] \in Txs
      BY ElementOfSeq DEF ChainInv, Latest
    <3>. QED  BY <3>1 DEF Txs
  <2>2. /\ seen'.out = seen.out \cup {n \in Page : IsOutflow(n)}
        /\ seen'.set \in {seen.set, seen.set \cup {n \in Page : IsSettlement(n)}}
        /\ seen'.upg \in {seen.upg, seen.upg \cup {n \in Page : ledgers[n].by = "upgrade"}}
        /\ seen' = [out |-> seen'.out, set |-> seen'.set, upg |-> seen'.upg]
        /\ Did(k, "upg") => seen'.upg = seen.upg \cup {n \in Page : ledgers[n].by = "upgrade"}
    BY Appends DEF Recorded, RecordChain, Adding
  <2>3. /\ seen.out \subseteq L /\ seen.set \subseteq L /\ seen.upg \subseteq L
        /\ \A n \in seen.set : ledgers[n].says = 1 /\ (n \in seen.out \/ ledgers[n].moved = 0)
        /\ \A n \in seen.upg : ledgers[n].by = "upgrade"
    BY DEF TailInv
  <2>4. seen'.out \subseteq L /\ seen'.set \subseteq L /\ seen'.upg \subseteq L
    BY <1>1, <2>2, <2>3
  <2>5. \A n \in Page : IsSettlement(n) =>
          ledgers[n].says = 1 /\ (n \in seen'.out \/ ledgers[n].moved = 0)
    BY <1>1, <2>1, <2>2 DEF IsSettlement, IsOutflow
  <2>6. \A n \in seen'.set : ledgers[n].says = 1 /\ (n \in seen'.out \/ ledgers[n].moved = 0)
    BY <2>2, <2>3, <2>5
  <2>7. \A n \in seen'.upg : ledgers[n].by = "upgrade"
    BY <2>2, <2>3
  <2>8. seen' \in [out : SUBSET L, set : SUBSET L, upg : SUBSET L]
    BY <2>2, <2>4
  <2>. QED  BY <2>2, <2>6, <2>7, <2>8
<1>11. cursor' \in {None} \cup L
  BY <1>1 DEF Recorded, SaveCursor, TailInv
<1>12. ASSUME NEW n \in L, n <= cursor', ~(n <= cursor)
       PROVE  Did(k, "cursor") /\ (n \in Page \/ n \in blind')
  <2>1. Did(k, "cursor") /\ cursor' = LastOfPage /\ blind' = blind \cup Skipped(Anchor - 1)
    BY <1>12 DEF Recorded, SaveCursor
  <2>2. n \in Page \/ n \in 1 .. (Anchor - 1)
    BY <1>1, <1>12, <2>1
  <2>. QED  BY <1>12, <2>1, <2>2, TailNumbers DEF Skipped
<1>13. blind \subseteq blind'
  BY DEF Recorded, SaveCursor
<1>14. ASSUME NEW n \in L, TheftPassed(n)' PROVE n \in blind'
  <2>1. n \in Rogues /\ n <= cursor' /\ n \notin susp'
    BY <1>1, <1>14 DEF TheftPassed, Rogues
  <2>2. CASE n <= cursor
    BY <1>1, <1>9, <1>13, <2>1, <2>2 DEF TheftPassed, TailInv, Rogues
  <2>3. CASE ~(n <= cursor)
    BY <1>5, <1>8, <1>12, <2>1, <2>3, Appends
  <2>. QED  BY <2>2, <2>3
<1>15. ASSUME NEW n \in L, UpgradePassed(n)' PROVE n \in blind'
  <2>1. ledgers[n].by = "upgrade" /\ n <= cursor' /\ n \notin seen'.upg
    BY <1>15 DEF UpgradePassed
  <2>2. CASE n <= cursor
    BY <1>1, <1>10, <1>13, <2>1, <2>2 DEF UpgradePassed, TailInv
  <2>3. CASE ~(n <= cursor)
    BY <1>10, <1>12, <2>1, <2>3, Appends
  <2>. QED  BY <2>2, <2>3
<1>16. tail' \in [at : {"idle", "cold"}, stalls : 0 .. StallAfter] /\ tail'.at # "cold"
  BY WatchAssumption DEF IdleTail
<1>17. TailInv'
  BY <1>1, <1>2, <1>9, <1>10, <1>11, <1>14, <1>15, <1>16 DEF TailInv
<1>. QED  BY <1>4, <1>5, <1>7, <1>13, <1>17

\* A page is recorded in full and its thefts are paged.
LEMMA ScanPageKeeps == WatchInv /\ ScanPage => WatchInv'
<1>. SUFFICES ASSUME WatchInv, ScanPage PROVE WatchInv'
  OBVIOUS
<1>. USE DEF WatchInv
<1>1. Len(WriteOrder) \in 1 .. Len(WriteOrder)
  BY DEF WriteOrder
<1>2. UNCHANGED <<ledgers, floor, sent, wal, cover, rows, closed, basis, final, audit, latch, up, drift>>
  BY DEF ScanPage, world, chain, engine, books
<1>3. TailInv' /\ RogueNow \subseteq Rogues /\ blind \subseteq blind'
  BY <1>1, <1>2, RecordedKeeps DEF ScanPage
<1>4. SaidInv'
  <2>1. UNCHANGED Rogues /\ \A o : Faulty(o)' = Faulty(o)
    BY <1>2 DEF Faulty, Rogues, Upgraded
  <2>2. /\ said' = [rogue |-> said'.rogue, audit |-> said'.audit, drift |-> said'.drift]
        /\ said'.rogue = said.rogue \cup RogueNow /\ said'.audit = said.audit
    BY DEF ScanPage, SaidInv
  <2>. QED  BY <1>2, <1>3, <2>1, <2>2 DEF SaidInv
<1>. QED  BY <1>2, <1>3, <1>4, ChainFrame, RowsFrame, AuditFrame

-----------------------------------------------------------------------------
(* Process life.                                                           *)

\* Between two passes the audit has looked at nothing.
LEMMA IdleAuditKeeps ==
  ASSUME ChainInv, audit' = IdleAudit, latch' \in [Orders -> AlarmKeys \cup {"none"}],
         UNCHANGED ledgers
  PROVE  AuditInv'
<1>1. Latest \in Nat /\ DOMAIN ledgers = 1 .. Latest /\ Latest' = Latest
  BY LenProperties DEF ChainInv, Latest
<1>2. audit'.done = -1 /\ DOMAIN ledgers' = 1 .. Latest
  BY <1>1 DEF IdleAudit, None
<1>3. NoUpgradeUpTo(audit.done)'
  BY <1>1, <1>2 DEF NoUpgradeUpTo
<1>4. audit'.done <= Latest'
  BY <1>1, <1>2
<1>5. audit' \in [at : {"idle", "next", "asking", "advance"}, todo : SUBSET Orders,
                  upgrades : SUBSET Nat, done : Int, o : Orders \cup {NoOrder}, n : Int,
                  found : [Orders -> Found]]
  BY DEF IdleAudit, NoProblem, Found, None
<1>6. /\ audit'.at = "idle" /\ audit'.upgrades = {} /\ audit'.todo = {}
      /\ \A o \in Orders : audit'.found[o] = "none"
  BY DEF IdleAudit, NoProblem
<1>. QED  BY <1>3, <1>4, <1>5, <1>6 DEF AuditInv

\* A process without memory satisfies the invariant's parts about memory.
LEMMA LostKeeps ==
  ASSUME ChainInv, RowsInv, SaidInv, Lost, UNCHANGED <<ledgers, rows, closed, said>>
  PROVE  AuditInv' /\ SaidInv'
<1>1. \A o : Faulty(o)' = Faulty(o)
  BY DEF Faulty, Rogues, Upgraded
<1>2. AuditInv'
  BY IdleAuditKeeps DEF Lost, NoProblem
<1>3. SaidInv'
  BY <1>1, WatchAssumption DEF Lost, SaidInv, IdleDrift, Rogues
<1>. QED  BY <1>2, <1>3

\* A crash between two steps.
LEMMA CrashKeeps == WatchInv /\ Crash => WatchInv'
<1>. SUFFICES ASSUME WatchInv, Crash PROVE WatchInv'
  OBVIOUS
<1>. USE DEF WatchInv
<1>1. UNCHANGED <<ledgers, floor, sent, wal, tailDisk, rows, closed, basis, final, said, blind>>
  BY DEF Crash, world, chain, engine, books, reports
<1>2. AuditInv' /\ SaidInv'
  BY <1>1, LostKeeps DEF Crash
<1>3. TailInv'
  <2>1. tail' \in [at : {"idle", "cold"}, stalls : 0 .. StallAfter] /\ tail'.at # "cold"
    BY WatchAssumption DEF Crash, Lost, IdleTail
  <2>. QED  BY <1>1, <2>1 DEF TailInv, TheftPassed, UpgradePassed, Rogues, Latest, tailDisk
<1>. QED  BY <1>1, <1>2, <1>3, ChainFrame, RowsFrame

\* A crash between any two appends of a page.
LEMMA ScanDiesKeeps == WatchInv /\ ScanDies => WatchInv'
<1>. SUFFICES ASSUME WatchInv, ScanDies PROVE WatchInv'
  OBVIOUS
<1>. USE DEF WatchInv
<1>1. PICK k \in 1 .. Len(WriteOrder) : Recorded(k)
  BY DEF ScanDies
<1>2. UNCHANGED <<ledgers, floor, sent, wal, cover, rows, closed, basis, final, said>>
  BY DEF ScanDies, world, chain, engine, books
<1>3. TailInv' /\ blind \subseteq blind'
  BY <1>1, <1>2, RecordedKeeps DEF ScanDies, Lost
<1>4. AuditInv' /\ SaidInv'
  BY <1>2, LostKeeps DEF ScanDies
<1>. QED  BY <1>2, <1>3, <1>4, ChainFrame, RowsFrame

\* The next life starts from the disk.
LEMMA BootKeeps == WatchInv /\ Boot => WatchInv'
<1>. SUFFICES ASSUME WatchInv, Boot PROVE WatchInv'
  OBVIOUS
<1>. USE DEF WatchInv
<1>1. /\ UNCHANGED <<ledgers, floor, sent, wal, tail, tailDisk, blind, rows, closed, basis, final>>
      /\ UNCHANGED <<audit, latch, drift, said>>
  BY DEF Boot, world, chain, engine, books, reports
<1>2. AuditInv'
  <2>1. \A o : Faulty(o)' = Faulty(o)
    BY <1>1 DEF Faulty, Rogues, Upgraded
  <2>2. /\ UNCHANGED <<Upgraded, Latest>> /\ up'
        /\ Settled(audit.o, audit.n) => Settled(audit.o, audit.n)'
        /\ NoUpgradeUpTo(audit.done) => NoUpgradeUpTo(audit.done)'
    BY <1>1 DEF Upgraded, Latest, Boot, Settled, NoUpgradeUpTo
  <2>. QED  BY <1>1, <2>1, <2>2 DEF AuditInv
<1>. QED  BY <1>1, <1>2, ChainFrame, TailFrame, RowsFrame, SaidFrame

-----------------------------------------------------------------------------
(* The audit.                                                              *)

\* A step of the audit that leaves the chain and the disk alone.
LEMMA AuditStepFrame ==
  ASSUME WatchInv, AuditInv',
         UNCHANGED <<world, engine, tailDisk, books, tail, drift, latch, up, reports, budget>>
  PROVE  WatchInv'
BY ChainFrame, TailFrame, RowsFrame, SaidFrame
   DEF WatchInv, world, chain, engine, tailDisk, books, reports

\* What the audit reads does not change under it.
LEMMA AuditReadsFrame ==
  ASSUME UNCHANGED <<world, books, blind>>
  PROVE  /\ UNCHANGED <<ledgers, rows, closed, Upgraded, Latest>>
         /\ \A o : Faulty(o)' = Faulty(o)
         /\ \A o, n : Settled(o, n)' = Settled(o, n)
         /\ \A k : NoUpgradeUpTo(k)' = NoUpgradeUpTo(k)
BY DEF world, chain, books, Upgraded, Latest, Faulty, Rogues, Settled, NoUpgradeUpTo

\* A pass starts with the open rows.
LEMMA AuditBeginKeeps == WatchInv /\ AuditBegin => WatchInv'
<1>. SUFFICES ASSUME WatchInv, AuditBegin PROVE WatchInv'
  OBVIOUS
<1>. USE DEF WatchInv
<1>1. /\ UNCHANGED <<ledgers, rows, closed, Upgraded, Latest>>
      /\ \A o : Faulty(o)' = Faulty(o)
      /\ \A k : NoUpgradeUpTo(k)' = NoUpgradeUpTo(k)
  BY AuditReadsFrame DEF AuditBegin, reports
<1>2. /\ seen.upg \subseteq Nat /\ (seen.upg # {} => Upgraded)
      /\ cursor \in Int /\ cursor <= Latest /\ (seen.upg = {} => NoUpgradeUpTo(cursor))
  <2>1. seen.upg = {} => NoUpgradeUpTo(cursor)
    BY DEF TailInv, UpgradePassed, NoUpgradeUpTo
  <2>. QED  BY <2>1, TailNumbers DEF TailInv, Upgraded, None
<1>3. \A o \in Orders : rows[o] # NoRow => rows[o].bad # "absent"
  BY DEF RowsInv
<1>4. audit' = [at |-> "next", todo |-> {o \in Orders : rows[o] # NoRow} \ closed,
                upgrades |-> seen.upg, done |-> cursor, o |-> NoOrder, n |-> None,
                found |-> NoProblem]
  BY DEF AuditBegin, IdleAudit
<1>5. /\ audit' \in [at : {"idle", "next", "asking", "advance"}, todo : SUBSET Orders,
                     upgrades : SUBSET Nat, done : Int, o : Orders \cup {NoOrder}, n : Int,
                     found : [Orders -> Found]]
      /\ audit'.at = "next" /\ \A o \in Orders : audit'.found[o] = "none"
  BY <1>2, <1>4 DEF NoProblem, Found, None
<1>6. \A o \in audit'.todo : rows[o].bad # "absent"
  BY <1>3, <1>4
<1>7. up' /\ latch' = latch
  BY DEF AuditBegin
<1>8. AuditInv'
  BY <1>1, <1>2, <1>4, <1>5, <1>6, <1>7 DEF AuditInv
<1>. QED  BY <1>8, AuditStepFrame DEF AuditBegin

\* An announcement under the order's own identifier, if there is one.
LEMMA SettlementOnChain ==
  ASSUME ChainInv, TailInv, NEW o \in Orders, Announced(o) # {}
  PROVE  /\ Settlement(o) \in DOMAIN ledgers /\ Settlement(o) \in Int
         /\ ledgers[Settlement(o)].o = o /\ ledgers[Settlement(o)].says = 1
         /\ Settlement(o) \in seen.out \/ ledgers[Settlement(o)].moved = 0
         /\ ledgers[Settlement(o)] \in Txs /\ TxTrue(Settlement(o))
         /\ ledgers[Settlement(o)].by \in {"ours", "rogue"}
<1>1. Announced(o) \in SUBSET Nat
  BY TailNumbers DEF Announced, TailInv
<1>2. Settlement(o) \in Announced(o)
  BY <1>1, MinIsMember DEF Settlement
<1>. DEFINE n == Settlement(o)
<1>3. /\ n \in DOMAIN ledgers /\ n \in Int /\ ledgers[n].o = o /\ ledgers[n].says = 1
      /\ n \in seen.out \/ ledgers[n].moved = 0
  BY <1>2, TailNumbers DEF Announced, TailInv
<1>4. ledgers[n] \in Txs /\ TxTrue(n)
  BY <1>3, ElementOfSeq, LenProperties DEF ChainInv
<1>5. ledgers[n].by \in {"ours", "rogue"}
  BY <1>3, <1>4 DEF Txs, TxTrue
<1>. QED  BY <1>3, <1>4, <1>5

\* What the audit finds before it asks: an accusation has a cause, and a question is
\* asked only about a settlement that moved what it announced, and while no replacement
\* of the code is known.
LEMMA BeforeAskingTrue ==
  ASSUME WatchInv, NEW o \in audit.todo
  PROVE  /\ BeforeAsking(o) \in Found \cup {"ask"}
         /\ BeforeAsking(o) = "diverged" => Faulty(o)
         /\ BeforeAsking(o) = "ask" => /\ Settlement(o) \in Int /\ Settled(o, Settlement(o))
                                       /\ audit.upgrades = {}
<1>. USE DEF WatchInv
<1>1. o \in Orders /\ rows[o].bad # "absent" /\ (audit.upgrades # {} => Upgraded)
  BY DEF AuditInv
<1>2. CASE Announced(o) = {}
  BY <1>2 DEF BeforeAsking, Found, AlarmKeys, Pages
<1>3. CASE Announced(o) # {}
  <2>1. /\ Settlement(o) \in DOMAIN ledgers /\ Settlement(o) \in Int
        /\ ledgers[Settlement(o)].o = o /\ ledgers[Settlement(o)].says = 1
        /\ Settlement(o) \in seen.out \/ ledgers[Settlement(o)].moved = 0
        /\ ledgers[Settlement(o)] \in Txs /\ TxTrue(Settlement(o))
        /\ ledgers[Settlement(o)].by \in {"ours", "rogue"}
    BY <1>1, <1>3, SettlementOnChain
  <2>2. ledgers[Settlement(o)].moved # ledgers[Settlement(o)].says => Upgraded
    BY <2>1 DEF Txs, TxTrue
  <2>3. BeforeAsking(o) \in {"diverged", "ask"} /\ (BeforeAsking(o) = "diverged" => Upgraded)
    BY <1>1, <1>3, <2>1, <2>2 DEF BeforeAsking
  <2>4. BeforeAsking(o) = "ask" => Settled(o, Settlement(o)) /\ audit.upgrades = {}
    BY <1>3, <2>1 DEF BeforeAsking, Settled
  <2>. QED  BY <1>1, <1>3, <2>1, <2>3, <2>4 DEF Faulty, Found, AlarmKeys, Pages
<1>. QED  BY <1>2, <1>3

\* One order is looked at.
LEMMA AuditOrderKeeps ==
  ASSUME WatchInv, NEW o \in Orders, AuditOrder(o)
  PROVE  WatchInv'
<1>. USE DEF WatchInv
<1>1. /\ UNCHANGED <<ledgers, rows, closed, Upgraded, Latest>>
      /\ \A p : Faulty(p)' = Faulty(p)
      /\ \A p, n : Settled(p, n)' = Settled(p, n)
      /\ \A k : NoUpgradeUpTo(k)' = NoUpgradeUpTo(k)
  BY AuditReadsFrame DEF AuditOrder, reports
<1>2. /\ BeforeAsking(o) \in Found \cup {"ask"}
      /\ BeforeAsking(o) = "diverged" => Faulty(o)
      /\ BeforeAsking(o) = "ask" => /\ Settlement(o) \in Int /\ Settled(o, Settlement(o))
                                    /\ audit.upgrades = {}
      /\ rows[o].bad # "absent"
  BY BeforeAskingTrue DEF AuditOrder, AuditInv
<1>3. up /\ up' /\ latch' = latch
  BY DEF AuditOrder
<1>4. CASE BeforeAsking(o) = "ask"
  <2>1. audit' = [audit EXCEPT !.at = "asking", !.o = o, !.n = Settlement(o), !.todo = @ \ {o}]
    BY <1>4 DEF AuditOrder
  <2>2. AuditInv'
    BY <1>1, <1>2, <1>3, <1>4, <2>1 DEF AuditInv
  <2>. QED  BY <2>2, AuditStepFrame DEF AuditOrder
<1>5. CASE BeforeAsking(o) # "ask"
  <2>1. audit' = [audit EXCEPT !.todo = @ \ {o}, !.found[o] = BeforeAsking(o)] /\ audit.at = "next"
    BY <1>5 DEF AuditOrder
  <2>2. AuditInv'
    BY <1>1, <1>2, <1>3, <1>5, <2>1 DEF AuditInv
  <2>. QED  BY <2>2, AuditStepFrame DEF AuditOrder
<1>. QED  BY <1>4, <1>5

\* The chain could not be asked.
LEMMA LivenessUnknownKeeps == WatchInv /\ LivenessUnknown => WatchInv'
<1>. SUFFICES ASSUME WatchInv, LivenessUnknown PROVE WatchInv'
  OBVIOUS
<1>. USE DEF WatchInv
<1>1. /\ UNCHANGED <<ledgers, rows, closed, Upgraded, Latest>>
      /\ \A p : Faulty(p)' = Faulty(p)
      /\ \A k : NoUpgradeUpTo(k)' = NoUpgradeUpTo(k)
  BY AuditReadsFrame DEF LivenessUnknown, reports
<1>2. AuditInv'
  BY <1>1 DEF LivenessUnknown, AuditInv, Found
<1>. QED  BY <1>2, AuditStepFrame DEF LivenessUnknown

\* A match proves the payment, an accusation has a cause.
LEMMA VerdictTrue ==
  ASSUME WatchInv, audit.at = "asking"
  PROVE  /\ audit.o \in Orders /\ Settled(audit.o, audit.n)
         /\ Verdict = "MATCHED" => rows[audit.o].bad = "no" /\ ledgers[audit.n].by = "ours"
         /\ Verdict \notin {"MATCHED", "UNSETTLED"} => Faulty(audit.o)
<1>. USE DEF WatchInv
<1>. DEFINE o == audit.o
            n == audit.n
            bad == rows[o].bad
            same == SameTx(bad, n)
<1>1. o \in Orders /\ bad # "absent" /\ bad \in RowStates /\ Settled(o, n)
  BY DEF AuditInv, RowsInv
<1>2. Verdict = ResolveGroundTruth(bad, n >= floor, same)
  BY DEF Verdict
<1>3. /\ same => bad # "other" /\ ledgers[n].by = "ours"
      /\ ~same => bad = "other" \/ (n \in Rogues /\ ledgers[n].o = o)
  BY <1>1 DEF SameTx, Settled, Rogues
<1>. HIDE DEF same
<1>4. Verdict = "MATCHED" => bad = "no" /\ same
  BY <1>1, <1>2, <1>3
     DEF ResolveGroundTruth, Untouched, DecodesSignedPay, SignatureValid, HashConsistent,
         ComputeDiffs, RowStates
<1>5. Verdict \notin {"MATCHED", "UNSETTLED"} => bad # "no" \/ ~same
  BY <1>1, <1>2
     DEF ResolveGroundTruth, Untouched, DecodesSignedPay, SignatureValid, HashConsistent,
         ComputeDiffs, RowStates
<1>6. Verdict \notin {"MATCHED", "UNSETTLED"} => Faulty(o)
  BY <1>1, <1>3, <1>5 DEF Faulty
<1>. QED  BY <1>1, <1>3, <1>4, <1>6

\* The chain's answer closes the order or is kept as a finding.
LEMMA LivenessAnsweredKeeps == WatchInv /\ LivenessAnswered => WatchInv'
<1>. SUFFICES ASSUME WatchInv, LivenessAnswered PROVE WatchInv'
  OBVIOUS
<1>. USE DEF WatchInv
<1>1. /\ UNCHANGED <<ledgers, floor, sent, wal, tail, tailDisk, blind, rows, final>>
      /\ UNCHANGED <<latch, up, drift, said>> /\ up
  BY DEF LivenessAnswered, world, chain, engine, reports
<1>2. /\ UNCHANGED <<Upgraded, Latest>>
      /\ \A p : Faulty(p)' = Faulty(p)
      /\ \A k : NoUpgradeUpTo(k)' = NoUpgradeUpTo(k)
  BY <1>1 DEF Upgraded, Latest, Faulty, Rogues, NoUpgradeUpTo
<1>3. audit.at = "asking" /\ audit.o \in Orders /\ Settled(audit.o, audit.n)
  BY VerdictTrue DEF LivenessAnswered
<1>4. CASE Verdict = "MATCHED"
  <2>1. /\ closed' = closed \cup {audit.o} /\ audit' = [audit EXCEPT !.at = "advance"]
        /\ basis' = [basis EXCEPT ![audit.o] = [n |-> audit.n, done |-> audit.done]]
    BY <1>4 DEF LivenessAnswered, Marked
  <2>2. /\ audit.n \in Int /\ audit.done \in Int /\ audit.done <= Latest
        /\ NoUpgradeUpTo(audit.done)
    BY <1>3 DEF AuditInv
  <2>3. basis' \in [Orders -> [n : Int, done : Int]]
    BY <2>1, <2>2 DEF RowsInv
  <2>4. /\ basis'[audit.o] = [n |-> audit.n, done |-> audit.done]
        /\ \A p \in Orders \ {audit.o} : basis'[p] = basis[p]
    BY <1>3, <2>1 DEF RowsInv
  <2>5. \A p \in closed' : basis'[p].done <= Latest'
    BY <1>2, <2>1, <2>2, <2>4 DEF RowsInv
  <2>6. ASSUME NEW p \in closed'
        PROVE  /\ rows[p].bad = "no" /\ basis'[p].n \in DOMAIN ledgers
               /\ ledgers[basis'[p].n].by = "ours" /\ ledgers[basis'[p].n].o = p
               /\ ledgers[basis'[p].n].moved = ledgers[basis'[p].n].says
               /\ NoUpgradeUpTo(basis'[p].done)
    <3>1. CASE p = audit.o
      BY <1>3, <1>4, <2>2, <2>4, <3>1, VerdictTrue DEF Settled
    <3>2. CASE p # audit.o
      BY <2>1, <2>4, <2>6, <3>2 DEF RowsInv, ClosedTrue
    <3>. QED  BY <3>1, <3>2
  <2>7. ClosedTrue'
    BY <1>1, <2>6 DEF ClosedTrue, NoUpgradeUpTo
  <2>8. RowsInv'
    BY <1>1, <1>3, <2>1, <2>3, <2>5, <2>7 DEF RowsInv
  <2>9. AuditInv'
    BY <1>1, <1>2, <1>3, <2>1 DEF AuditInv
  <2>. QED  BY <1>1, <2>8, <2>9, ChainFrame, TailFrame, SaidFrame
<1>5. CASE Verdict # "MATCHED"
  <2>1. PICK w \in {"blind:aged-out", "diverged"} :
           /\ audit' = [audit EXCEPT !.at = "next", !.found[audit.o] = w]
           /\ w = "diverged" => Faulty(audit.o)
    BY <1>3, <1>5, VerdictTrue DEF LivenessAnswered
  <2>2. UNCHANGED <<closed, basis>>
    BY <1>5 DEF LivenessAnswered
  <2>3. w \in Found
    BY DEF Found, AlarmKeys, Pages
  <2>4. AuditInv'
    BY <1>1, <1>2, <1>3, <2>1, <2>2, <2>3 DEF AuditInv
  <2>. QED  BY <1>1, <2>2, <2>4, ChainFrame, TailFrame, RowsFrame, SaidFrame
<1>. QED  BY <1>4, <1>5

\* The state machine follows the durable mark.
LEMMA AuditAdvanceKeeps == WatchInv /\ AuditAdvance => WatchInv'
<1>. SUFFICES ASSUME WatchInv, AuditAdvance PROVE WatchInv'
  OBVIOUS
<1>. USE DEF WatchInv
<1>1. /\ UNCHANGED <<ledgers, floor, sent, wal, tail, tailDisk, blind, rows, closed, basis>>
      /\ UNCHANGED <<latch, up, drift, said>> /\ up
  BY DEF AuditAdvance, world, chain, engine, reports
<1>2. /\ UNCHANGED <<Upgraded, Latest>>
      /\ \A p : Faulty(p)' = Faulty(p)
      /\ \A k : NoUpgradeUpTo(k)' = NoUpgradeUpTo(k)
  BY <1>1 DEF Upgraded, Latest, Faulty, Rogues, NoUpgradeUpTo
<1>3. RowsInv'
  <2>1. ClosedTrue'
    BY <1>1, NoUpgradeStays DEF RowsInv, ClosedTrue
  <2>. QED  BY <1>1, <2>1 DEF AuditAdvance, RowsInv, AuditInv, Latest
<1>4. AuditInv'
  BY <1>1, <1>2 DEF AuditAdvance, AuditInv
<1>. QED  BY <1>1, <1>3, <1>4, ChainFrame, TailFrame, SaidFrame

\* The pass is reported.
LEMMA AuditEndKeeps == WatchInv /\ AuditEnd => WatchInv'
<1>. SUFFICES ASSUME WatchInv, AuditEnd PROVE WatchInv'
  OBVIOUS
<1>. USE DEF WatchInv
<1>1. /\ UNCHANGED <<ledgers, floor, sent, wal, tail, tailDisk, blind, rows, closed, basis, final>>
      /\ UNCHANGED <<up, drift>>
  BY DEF AuditEnd, world, chain, engine, books
<1>2. UNCHANGED Rogues /\ \A p : Faulty(p)' = Faulty(p)
  BY <1>1 DEF Upgraded, Faulty, Rogues
<1>3. AuditInv'
  <2>1. latch' \in [Orders -> AlarmKeys \cup {"none"}]
    BY DEF AuditEnd, AuditInv
  <2>2. audit' = IdleAudit
    BY DEF AuditEnd
  <2>. QED  BY <1>1, <2>1, <2>2, IdleAuditKeeps
<1>4. SaidInv'
  <2>1. /\ said' = [rogue |-> said.rogue, audit |-> said'.audit, drift |-> said.drift]
        /\ said'.rogue = said.rogue
        /\ said'.audit = said.audit \cup
             {<<o, audit.found[o]>> : o \in {p \in Orders : audit.found[p] \in Pages
                                                            /\ latch[p] # audit.found[p]}}
    BY DEF AuditEnd, SaidInv
  <2>2. ASSUME NEW o \in Orders, <<o, "diverged">> \in said'.audit PROVE Faulty(o)
    BY <2>1, <2>2 DEF SaidInv, AuditInv
  <2>. QED  BY <1>1, <1>2, <2>1, <2>2 DEF SaidInv
<1>. QED  BY <1>1, <1>3, <1>4, ChainFrame, TailFrame, RowsFrame

-----------------------------------------------------------------------------
(* The tripwire, and the whole.                                            *)

\* The tripwire only counts and reports.
LEMMA DriftKeeps == WatchInv /\ DriftTick => WatchInv'
<1>. SUFFICES ASSUME WatchInv, DriftTick PROVE WatchInv'
  OBVIOUS
<1>. USE DEF WatchInv
<1>1. /\ UNCHANGED <<ledgers, floor, sent, wal, tail, tailDisk, blind, rows, closed, basis, final>>
      /\ UNCHANGED <<audit, latch, up>>
  BY DEF DriftTick, DriftRead, DriftFails, DriftCompare, vars, world, chain, engine, tailDisk,
         books, memory, reports
<1>2. UNCHANGED Rogues /\ \A p : Faulty(p)' = Faulty(p)
  BY <1>1 DEF Upgraded, Faulty, Rogues
<1>3. /\ said' = [rogue |-> said.rogue, audit |-> said.audit, drift |-> said'.drift]
      /\ drift' = [observed |-> drift'.observed, count |-> drift'.count]
      /\ drift'.count \in 0 .. AlarmAfter
  <2>1. CASE DriftRead
    BY <2>1 DEF DriftRead, SaidInv, reports
  <2>2. CASE DriftFails
    BY <2>2 DEF DriftFails, SaidInv, reports, memory, vars
  <2>3. CASE DriftCompare
    BY <2>3, WatchAssumption DEF DriftCompare, SaidInv, IdleDrift
  <2>. QED  BY <2>1, <2>2, <2>3 DEF DriftTick
<1>4. SaidInv'
  BY <1>1, <1>2, <1>3 DEF SaidInv
<1>. QED  BY <1>1, <1>4, ChainFrame, TailFrame, RowsFrame, AuditFrame DEF tailDisk

\* Every step keeps the invariant.
LEMMA WatchStep == WatchInv /\ [Next]_vars => WatchInv'
<1>. SUFFICES ASSUME WatchInv, [Next]_vars PROVE WatchInv'
  OBVIOUS
<1>1. CASE UNCHANGED vars
  BY <1>1, ChainFrame, TailFrame, RowsFrame, AuditFrame, SaidFrame
     DEF WatchInv, vars, world, chain, engine, tailDisk, books, memory, reports
<1>2. CASE \E o \in Orders : PersistPreSubmit(o) \/ Broadcast(o) \/ Witness(o) \/ Book(o) \/ Tamper(o)
  BY <1>2, PersistKeeps, BroadcastKeeps, WitnessKeeps, BookKeeps, TamperKeeps
<1>3. CASE TailTick
  BY <1>3, ColdStartKeeps, FetchStallsKeeps, BelowRetentionKeeps, ScanPageKeeps DEF TailTick
<1>4. CASE AuditTick
  BY <1>4, AuditBeginKeeps, AuditOrderKeeps, LivenessUnknownKeeps, LivenessAnsweredKeeps,
     AuditAdvanceKeeps, AuditEndKeeps DEF AuditTick
<1>5. CASE DriftTick
  BY <1>5, DriftKeeps
<1>6. CASE CloseLedger \/ Retire \/ Crash \/ ScanDies \/ Boot
  BY <1>6, CloseLedgerKeeps, RetireKeeps, CrashKeeps, ScanDiesKeeps, BootKeeps
<1>. QED  BY <1>1, <1>2, <1>3, <1>4, <1>5, <1>6 DEF Next

\* The invariant has what TypeOK and NoTheftPassed say.
LEMMA InvTheft == WatchInv => NoTheftPassed
<1>. SUFFICES ASSUME WatchInv PROVE NoTheftPassed
  OBVIOUS
<1>. USE DEF WatchInv
<1>1. TypeOK
  <2>1. Latest \in Nat /\ DOMAIN ledgers = 1 .. Latest /\ Rogues \subseteq 1 .. Latest
    BY TailNumbers DEF Rogues
  <2>2. \A n \in DOMAIN ledgers : ledgers[n] \in Txs
    BY ElementOfSeq, LenProperties DEF ChainInv
  <2>3. floor \in 1 .. MaxLedgers + 1
    BY WatchAssumption DEF ChainInv
  <2>4. cursor \in {None} \cup 0 .. Latest /\ cover \in {None} \cup 1 .. Latest
    BY <2>1 DEF TailInv
  <2>5. \A k \in DOMAIN seen : seen[k] \subseteq 1 .. Latest
    BY DEF TailInv
  <2>6. closed \subseteq {o \in Orders : rows[o] # NoRow}
    BY DEF RowsInv, ClosedTrue, NoRow
  <2>7. alarmed \subseteq susp /\ susp \subseteq 1 .. Latest /\ tail.stalls <= StallAfter
    BY <2>1, WatchAssumption DEF TailInv
  <2>8. drift.count <= AlarmAfter
    BY WatchAssumption DEF SaidInv
  <2>9. /\ audit.at \in {"idle", "next", "asking", "advance"}
        /\ latch \in [Orders -> AlarmKeys \cup {"none"}]
    BY DEF AuditInv
  <2>. QED
    BY <2>2, <2>3, <2>4, <2>5, <2>6, <2>7, <2>8, <2>9 DEF TypeOK, Txs, ChainInv, RowsInv
<1>. QED  BY <1>1 DEF NoTheftPassed, TailInv

\* No payment of ours is ever paged as a theft: the hash is durable in the journal before
\* the transaction can be broadcast (persistPreSubmit, then submit), and the tail judges
\* every outflow against the live journal.
THEOREM RogueNeverOursHolds == Spec => []RogueNeverOurs
<1>1. WatchInv => RogueNeverOurs
  BY DEF WatchInv, SaidInv, RogueNeverOurs, Rogues
<1>. QED  BY <1>1, InitWatch, WatchStep, PTL DEF Spec

\* The durable checkpoint never passes a theft that is not an open suspect on disk, unless
\* it lies in a gap the tail could not read: whatever page sizes, crashes between two
\* appends (outflow-worker.ts: the checkpoint is saved last) and retention.
THEOREM NoTheftPassedHolds == Spec => []NoTheftPassed
BY InvTheft, InitWatch, WatchStep, PTL DEF Spec

\* The audit closes an order only against a settlement that is the very transaction signed
\* for it and moved what it announced, with a sound row, in a pass that began before the
\* tail was done with any replacement of the code it did not skip: reconcileOrders reads
\* the upgrades once, before the pass, compares the announced amount with the token's own
\* transfer, and resolveGroundTruth binds the row to the transaction; tailOutflows records
\* an upgrade before the checkpoint.
THEOREM ClosedTrueHolds == Spec => []ClosedTrue
<1>1. WatchInv => ClosedTrue
  BY DEF WatchInv, RowsInv
<1>. QED  BY <1>1, InitWatch, WatchStep, PTL DEF Spec

\* The audit pages a divergence only if the pool's code was replaced, the row was edited
\* or somebody else settled the order; a crash between the appends of a page is no cause
\* (transfers are recorded before announcements).
THEOREM NoFalseDivergenceHolds == Spec => []NoFalseDivergence
<1>1. WatchInv => NoFalseDivergence
  BY DEF WatchInv, SaidInv, NoFalseDivergence, Faulty
<1>. QED  BY <1>1, InitWatch, WatchStep, PTL DEF Spec
=============================================================================
