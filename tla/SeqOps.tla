------------------------------- MODULE SeqOps -------------------------------
(***************************************************************************)
(* The operator account's sequence ledger as the data the allocator keeps  *)
(* (packages/core/src/sequence-allocator.ts), and the effect of each of    *)
(* its calls on that data.  A ledger is what SequenceSnapshot persists:    *)
(*                                                                         *)
(*   next     nextSeq, the next fresh sequence                             *)
(*   free     freeList, kept sorted by the code and so a set here          *)
(*   status   the SeqRecord's status, "untracked" when there is no record  *)
(*   owner    the SeqRecord's orderId                                      *)
(*   byOrder  the per-order "current sequence" pointer                     *)
(*                                                                         *)
(* Every operator is a function of ledgers: SequenceAllocator runs them    *)
(* against a memory image and a disk image, Settlement against the one     *)
(* ledger of the whole backend.                                            *)
(***************************************************************************)
EXTENDS Integers, FiniteSets

CONSTANTS
  Orders,      \* canonical order ids
  NoOrder,     \* "no owner"
  BaseSeq,     \* the account's on-chain sequence at bootstrap
  MaxSeq       \* bound: the highest sequence the model hands out

ASSUME SeqAssumption ==
  /\ BaseSeq \in Nat
  /\ MaxSeq \in Nat
  /\ BaseSeq < MaxSeq
  /\ NoOrder \notin Orders

Seqs == (BaseSeq + 1) .. MaxSeq

\* The undefined pointer: below every sequence that can be handed out.
NoSeq == BaseSeq

Ledgers ==
  [next    : (BaseSeq + 1) .. (MaxSeq + 1),
   free    : SUBSET Seqs,
   status  : [Seqs -> {"untracked", "active", "burned"}],
   owner   : [Seqs -> Orders \cup {NoOrder}],
   byOrder : [Orders -> Seqs \cup {NoSeq}]]

\* The constructor on an empty store.
FreshLedger ==
  [next    |-> BaseSeq + 1,
   free    |-> {},
   status  |-> [s \in Seqs |-> "untracked"],
   owner   |-> [s \in Seqs |-> NoOrder],
   byOrder |-> [o \in Orders |-> NoSeq]]

\* Mutant: the free list is used only once the fresh sequences run out.
TakeSeqFreshFirst(L) ==
  IF L.free # {} /\ L.next > MaxSeq
  THEN CHOOSE s \in L.free : \A t \in L.free : s <= t
  ELSE L.next

\* takeSeq: the lowest free sequence, otherwise a fresh one.
TakeSeq(L) ==
  IF L.free # {} THEN CHOOSE s \in L.free : \A t \in L.free : s <= t
                 ELSE L.next

\* Bound on the model, not a guard of the code: sequences are bigint there.
CanTake(L) == TakeSeq(L) \in Seqs

\* Mutant: the free list is read, not shifted.
GrantedKeepsFree(L, o) ==
  LET s == TakeSeq(L) IN
  [next    |-> IF L.free # {} THEN L.next ELSE L.next + 1,
   free    |-> L.free,
   status  |-> [L.status EXCEPT ![s] = "active"],
   owner   |-> [L.owner EXCEPT ![s] = o],
   byOrder |-> [L.byOrder EXCEPT ![o] = s]]

\* The ledger after takeSeq has handed the sequence to order o and the record
\* and the pointer have been written (the common tail of allocate, reallocate).
Granted(L, o) ==
  LET s == TakeSeq(L) IN
  [next    |-> IF L.free # {} THEN L.next ELSE L.next + 1,
   free    |-> L.free \ {s},
   status  |-> [L.status EXCEPT ![s] = "active"],
   owner   |-> [L.owner EXCEPT ![s] = o],
   byOrder |-> [L.byOrder EXCEPT ![o] = s]]

\* allocate: idempotent per order, so an order that has a pointer keeps it.
MayAllocate(L, o) == L.byOrder[o] # NoSeq \/ CanTake(L)
Allocated(L, o) == IF L.byOrder[o] # NoSeq THEN L ELSE Granted(L, o)

\* confirmBurned: throws UnknownSeq without a record, no-op when burned.
MayBurn(L, s) == s \in Seqs /\ L.status[s] # "untracked"
Burned(L, s) == [L EXCEPT !.status[s] = "burned"]

\* Mutant: release does not ask whether the sequence is still active.
OwnedAny(L, s, o) ==
  /\ s \in Seqs
  /\ L.status[s] # "untracked"
  /\ L.owner[s] = o

\* requireOwned and the status test shared by reuseOnDead and release.
OwnedActive(L, s, o) ==
  /\ s \in Seqs
  /\ L.status[s] = "active"
  /\ L.owner[s] = o

\* Mutant: release leaves the order's pointer behind.
ReleasedKeepsPointer(L, s, o) ==
  [L EXCEPT !.free = @ \cup {s},
            !.status[s] = "untracked",
            !.owner[s] = NoOrder]

\* release: the record and the pointer go, the sequence joins the free list.
Released(L, s, o) ==
  [L EXCEPT !.free = @ \cup {s},
            !.status[s] = "untracked",
            !.owner[s] = NoOrder,
            !.byOrder[o] = NoSeq]

\* reallocate: the order's current sequence must be burned.
MayReallocate(L, o) ==
  /\ L.byOrder[o] # NoSeq
  /\ L.status[L.byOrder[o]] = "burned"
  /\ CanTake(L)
Reallocated(L, o) == Granted(L, o)
=============================================================================
