---------------------- MODULE SequenceAllocatorProofs ----------------------
(***************************************************************************)
(* Theorems about the sequence allocator, for every set of orders, every   *)
(* base sequence and every number of failing writes.                       *)
(*                                                                         *)
(* Whole(L) is the inductive content of one ledger.  Both images keep it:  *)
(* the stored image is always an earlier value of the live one, so a       *)
(* restart brings back a whole ledger, and each call preserves wholeness.  *)
(***************************************************************************)
EXTENDS SequenceAllocator, TLAPS, NaturalsInduction, WellFoundedInduction

Whole(L) == L \in Ledgers /\ Accounted(L) /\ PointersAgree(L)

-----------------------------------------------------------------------------
(* The operators of the ledger.                                            *)

\* A set of sequences that is not empty has a lowest one: what takeSeq's
\* freeList.shift() relies on.
LEMMA LowestExists ==
  ASSUME NEW F \in SUBSET Seqs, F # {}
  PROVE  \E s \in F : \A t \in F : s <= t
<1>1. Seqs \subseteq Nat
  BY SeqAssumption DEF Seqs
<1>2. PICK m \in F : \A y \in F : ~ (<<y, m>> \in OpToRel(<, Nat))
  BY <1>1, WFMin, NatLessThanWellFounded
<1>3. \A y \in F : ~ (y < m)
  BY <1>1, <1>2 DEF OpToRel
<1>. QED
  BY <1>1, <1>3

\* takeSeq answers a sequence nobody uses, and the lowest such sequence.
LEMMA TakeSeqUnused ==
  ASSUME NEW L, Whole(L), CanTake(L)
  PROVE  /\ TakeSeq(L) \in Seqs
         /\ L.status[TakeSeq(L)] = "untracked"
         /\ L.free # {} => TakeSeq(L) \in L.free
         /\ L.free = {} => TakeSeq(L) = L.next
         /\ \A t \in Seqs : L.status[t] = "untracked" => TakeSeq(L) <= t
<1>. DEFINE s == TakeSeq(L)
<1>0. s \in Seqs
  BY DEF CanTake
<1>t. Seqs \subseteq Int /\ L.next \in Int /\ L.free \subseteq Seqs
  BY SeqAssumption DEF Whole, Ledgers, Seqs
<1>1. CASE L.free # {}
  <2>1. s \in L.free /\ \A t \in L.free : s <= t
    BY <1>1, LowestExists DEF Whole, Ledgers, TakeSeq
  <2>2. s < L.next
    BY <2>1, <1>0 DEF Whole, Accounted
  <2>3. ASSUME NEW t \in Seqs, L.status[t] = "untracked"
        PROVE  s <= t
    <3>1. CASE t < L.next
      BY <2>1, <2>3, <3>1 DEF Whole, Accounted
    <3>2. CASE ~(t < L.next)
      <4>. HIDE DEF s
      <4>. QED  BY <2>2, <3>2, <1>t, <1>0
    <3>. QED  BY <3>1, <3>2
  <2>. QED
    BY <1>0, <1>1, <2>1, <2>3 DEF Whole, Accounted
<1>2. CASE L.free = {}
  <2>1. s = L.next
    BY <1>2 DEF TakeSeq
  <2>2. L.status[s] = "untracked"
    BY <1>0, <1>2, <1>t, <2>1 DEF Whole, Accounted
  <2>3. ASSUME NEW t \in Seqs, L.status[t] = "untracked"
        PROVE  s <= t
    BY <1>2, <2>1, <2>3, <1>t DEF Whole, Accounted
  <2>. QED
    BY <1>0, <1>2, <2>1, <2>2, <2>3
<1>. QED
  BY <1>1, <1>2

\* The empty store's ledger is whole.
LEMMA FreshWhole == Whole(FreshLedger)
  BY SeqAssumption
  DEF Whole, FreshLedger, Ledgers, Accounted, PointersAgree, Seqs, NoSeq

\* An order without an active sequence: what allocate and reallocate require
\* before they take one.
Idle(L, o) == \A s \in Seqs : L.status[s] = "active" => L.owner[s] # o

\* allocate and reallocate both grant to an idle order.
LEMMA GranteeIdle ==
  ASSUME NEW L, Whole(L), NEW o \in Orders,
         L.byOrder[o] = NoSeq \/ MayReallocate(L, o)
  PROVE  Idle(L, o)
  BY SeqAssumption DEF Whole, PointersAgree, Idle, MayReallocate, Seqs, NoSeq

\* The components of the ledger after a grant.
LEMMA GrantedFields ==
  ASSUME NEW L, Whole(L), NEW o \in Orders, CanTake(L)
  PROVE  LET s == TakeSeq(L)
             G == Granted(L, o) IN
         /\ G \in Ledgers
         /\ G.next = IF L.free # {} THEN L.next ELSE L.next + 1
         /\ G.free = L.free \ {s}
         /\ \A t \in Seqs : G.status[t] = IF t = s THEN "active" ELSE L.status[t]
         /\ \A t \in Seqs : G.owner[t] = IF t = s THEN o ELSE L.owner[t]
         /\ \A p \in Orders : G.byOrder[p] = IF p = o THEN s ELSE L.byOrder[p]
<1>. DEFINE s == TakeSeq(L)
<1>1. s \in Seqs /\ (L.free = {} => s = L.next)
  BY TakeSeqUnused
<1>2. /\ L.next \in (BaseSeq + 1) .. (MaxSeq + 1)
      /\ L.free \in SUBSET Seqs
      /\ L.status \in [Seqs -> {"untracked", "active", "burned"}]
      /\ L.owner \in [Seqs -> Orders \cup {NoOrder}]
      /\ L.byOrder \in [Orders -> Seqs \cup {NoSeq}]
  BY DEF Whole, Ledgers
<1>. HIDE DEF s
<1>3. (IF L.free # {} THEN L.next ELSE L.next + 1) \in (BaseSeq + 1) .. (MaxSeq + 1)
  BY <1>1, <1>2, SeqAssumption DEF Seqs
<1>. QED
  BY <1>1, <1>2, <1>3 DEF Granted, Ledgers, s

\* A grant keeps the ledger whole.
LEMMA GrantedWhole ==
  ASSUME NEW L, Whole(L), NEW o \in Orders, CanTake(L), Idle(L, o)
  PROVE  Whole(Granted(L, o))
<1>. DEFINE s == TakeSeq(L)
            G == Granted(L, o)
<1>1. /\ s \in Seqs
      /\ L.status[s] = "untracked"
      /\ L.free # {} => s \in L.free
      /\ L.free = {} => s = L.next
  BY TakeSeqUnused
<1>2. /\ G \in Ledgers
      /\ G.next = IF L.free # {} THEN L.next ELSE L.next + 1
      /\ G.free = L.free \ {s}
      /\ \A t \in Seqs : G.status[t] = IF t = s THEN "active" ELSE L.status[t]
      /\ \A t \in Seqs : G.owner[t] = IF t = s THEN o ELSE L.owner[t]
      /\ \A p \in Orders : G.byOrder[p] = IF p = o THEN s ELSE L.byOrder[p]
  BY GrantedFields
<1>3. Seqs \subseteq Int /\ L.next \in Int /\ L.free \subseteq Seqs
  BY SeqAssumption DEF Whole, Ledgers, Seqs
<1>. HIDE DEF s, G
<1>4. Accounted(G)
  <2>1. ASSUME NEW t \in Seqs
        PROVE  (t < G.next) <=> (t \in G.free \/ G.status[t] # "untracked")
    <3>0. (t < L.next) <=> (t \in L.free \/ L.status[t] # "untracked")
      BY DEF Whole, Accounted
    <3>1. CASE L.free # {}
      BY <1>1, <1>2, <3>0, <3>1
    <3>2. CASE L.free = {}
      BY <1>1, <1>2, <1>3, <3>0, <3>2
    <3>. QED  BY <3>1, <3>2
  <2>2. \A t \in G.free : G.status[t] = "untracked"
    BY <1>2, <1>3 DEF Whole, Accounted
  <2>3. \A t \in Seqs : G.owner[t] # NoOrder <=> G.status[t] # "untracked"
    BY <1>2, SeqAssumption DEF Whole, Accounted
  <2>. QED  BY <2>1, <2>2, <2>3 DEF Accounted
<1>5. PointersAgree(G)
  <2>1. ASSUME NEW p \in Orders, G.byOrder[p] # NoSeq
        PROVE  G.owner[G.byOrder[p]] = p
    <3>1. CASE p = o
      BY <1>1, <1>2, <3>1
    <3>2. CASE p # o
      <4>1. G.byOrder[p] = L.byOrder[p] /\ L.byOrder[p] \in Seqs
        BY <1>2, <2>1, <3>2 DEF Whole, Ledgers
      <4>2. L.owner[L.byOrder[p]] = p
        BY <2>1, <4>1 DEF Whole, PointersAgree
      <4>3. L.owner[s] = NoOrder
        BY <1>1 DEF Whole, Accounted
      <4>. QED  BY <1>2, <4>1, <4>2, <4>3, SeqAssumption
    <3>. QED  BY <3>1, <3>2
  <2>2. ASSUME NEW t \in Seqs, G.status[t] = "active"
        PROVE  G.byOrder[G.owner[t]] = t
    <3>1. CASE t = s
      BY <1>2, <3>1
    <3>2. CASE t # s
      <4>1. L.status[t] = "active" /\ G.owner[t] = L.owner[t]
        BY <1>2, <2>2, <3>2
      <4>2. L.owner[t] \in Orders /\ L.owner[t] # o /\ L.byOrder[L.owner[t]] = t
        BY <4>1 DEF Whole, Ledgers, Accounted, PointersAgree, Idle
      <4>. QED  BY <1>2, <4>1, <4>2
    <3>. QED  BY <3>1, <3>2
  <2>. QED  BY <2>1, <2>2 DEF PointersAgree
<1>. QED
  BY <1>2, <1>4, <1>5 DEF Whole, G

\* confirmBurned keeps the ledger whole.
LEMMA BurnedWhole ==
  ASSUME NEW L, Whole(L), NEW s, MayBurn(L, s)
  PROVE  Whole(Burned(L, s))
  BY DEF Whole, Burned, MayBurn, Ledgers, Accounted, PointersAgree

\* release keeps the ledger whole.
LEMMA ReleasedWhole ==
  ASSUME NEW L, Whole(L), NEW o \in Orders, NEW s, OwnedActive(L, s, o)
  PROVE  Whole(Released(L, s, o))
<1>. DEFINE R == Released(L, s, o)
<1>1. s \in Seqs /\ L.status[s] = "active" /\ L.owner[s] = o /\ L.byOrder[o] = s
  BY DEF OwnedActive, Whole, PointersAgree
<1>2. /\ R \in Ledgers
      /\ R.next = L.next
      /\ R.free = L.free \cup {s}
      /\ \A t \in Seqs : R.status[t] = IF t = s THEN "untracked" ELSE L.status[t]
      /\ \A t \in Seqs : R.owner[t] = IF t = s THEN NoOrder ELSE L.owner[t]
      /\ \A p \in Orders : R.byOrder[p] = IF p = o THEN NoSeq ELSE L.byOrder[p]
  BY <1>1 DEF Whole, Ledgers, Released
<1>. HIDE DEF R
<1>3. Accounted(R)
  BY <1>1, <1>2 DEF Whole, Ledgers, Accounted
<1>4. PointersAgree(R)
  <2>1. ASSUME NEW p \in Orders, R.byOrder[p] # NoSeq
        PROVE  R.owner[R.byOrder[p]] = p
    <3>1. p # o /\ R.byOrder[p] = L.byOrder[p] /\ L.byOrder[p] \in Seqs
      BY <1>2, <2>1 DEF Whole, Ledgers
    <3>2. L.owner[L.byOrder[p]] = p
      BY <2>1, <3>1 DEF Whole, PointersAgree
    <3>. QED  BY <1>1, <1>2, <3>1, <3>2
  <2>2. ASSUME NEW t \in Seqs, R.status[t] = "active"
        PROVE  R.byOrder[R.owner[t]] = t
    <3>1. t # s /\ L.status[t] = "active" /\ R.owner[t] = L.owner[t]
      BY <1>2, <2>2
    <3>2. L.owner[t] \in Orders /\ L.byOrder[L.owner[t]] = t
      BY <3>1 DEF Whole, Ledgers, Accounted, PointersAgree
    <3>. QED  BY <1>1, <1>2, <3>1, <3>2
  <2>. QED  BY <2>1, <2>2 DEF PointersAgree
<1>. QED
  BY <1>2, <1>3, <1>4 DEF Whole, R

-----------------------------------------------------------------------------
(* The inductive invariant.                                                *)

\* While no write has failed the two images are equal and a row's sequence is
\* recorded for that row's order.
InStep ==
  writeFaults = 0 =>
    /\ mem = disk
    /\ \A o \in Orders : held[o] # NoSeq =>
         mem.status[held[o]] # "untracked" /\ mem.owner[held[o]] = o

IInv ==
  /\ Whole(mem)
  /\ Whole(disk)
  /\ held \in [Orders -> Seqs \cup {NoSeq}]
  /\ writeFaults \in 0 .. MaxWriteFaults
  /\ InStep

\* One call: the ledger goes from mem to a whole L and is written or not, and
\* only order o's row may change, to a sequence that L records for o or to none.
\* Sequences the other orders' rows carry keep their record.
LEMMA CallKeepsIInv ==
  ASSUME IInv, NEW o \in Orders, NEW L, Whole(L),
         \/ Persisted(L)
         \/ WriteFails(L),
         held' \in [Orders -> Seqs \cup {NoSeq}],
         writeFaults = 0 =>
           \A p \in Orders : held'[p] # NoSeq =>
             L.status[held'[p]] # "untracked" /\ L.owner[held'[p]] = p
  PROVE  IInv'
<1>1. CASE Persisted(L)
  <2>1. Whole(mem)' /\ Whole(disk)'
    BY <1>1 DEF Persisted, Whole, Accounted, PointersAgree
  <2>2. InStep'
    BY <1>1 DEF Persisted, InStep
  <2>. QED
    BY <1>1, <2>1, <2>2 DEF IInv, Persisted
<1>2. CASE WriteFails(L)
  <2>1. Whole(mem)' /\ Whole(disk)'
    BY <1>2 DEF WriteFails, Whole, Accounted, PointersAgree, IInv
  <2>2. writeFaults' \in 0 .. MaxWriteFaults /\ writeFaults' # 0
    BY <1>2, WriteFaultAssumption DEF WriteFails, IInv
  <2>. QED
    BY <1>2, <2>1, <2>2 DEF IInv, InStep
<1>. QED
  BY <1>1, <1>2

\* The two images the constructor leaves satisfy the invariant.
LEMMA InitIInv == Init => IInv
<1>. SUFFICES ASSUME Init PROVE IInv
  OBVIOUS
<1>1. Whole(mem) /\ Whole(disk)
  BY FreshWhole DEF Init
<1>. QED
  BY <1>1, WriteFaultAssumption DEF Init, IInv, InStep, NoSeq

\* What the reply may put into the rows is in its range.
LEMMA ReplyType ==
  ASSUME IInv, NEW o \in Orders, NEW s \in Seqs, Reply(o, s)
  PROVE  /\ held' \in [Orders -> Seqs \cup {NoSeq}]
         /\ \A p \in Orders : held'[p] = held[p] \/ (p = o /\ held'[p] = s)
  BY DEF IInv, Reply

\* A grant to an idle order, with its reply.
LEMMA GrantKeepsIInv ==
  ASSUME IInv, NEW o \in Orders, CanTake(mem), Idle(mem, o),
         \/ Persisted(Granted(mem, o)) /\ Reply(o, TakeSeq(mem))
         \/ WriteFails(Granted(mem, o))
  PROVE  IInv'
<1>. DEFINE s == TakeSeq(mem)
            G == Granted(mem, o)
<1>1. Whole(mem)
  BY DEF IInv
<1>2. s \in Seqs /\ mem.status[s] = "untracked"
  BY <1>1, TakeSeqUnused
<1>3. Whole(G)
  BY <1>1, GrantedWhole
<1>4. /\ \A t \in Seqs : G.status[t] = IF t = s THEN "active" ELSE mem.status[t]
      /\ \A t \in Seqs : G.owner[t] = IF t = s THEN o ELSE mem.owner[t]
  BY <1>1, GrantedFields
<1>. HIDE DEF s, G
<1>5. /\ held' \in [Orders -> Seqs \cup {NoSeq}]
      /\ \A p \in Orders : held'[p] = held[p] \/ (p = o /\ held'[p] = s)
  <2>1. CASE Persisted(Granted(mem, o)) /\ Reply(o, TakeSeq(mem))
    BY <1>2, <2>1, ReplyType DEF s
  <2>2. CASE WriteFails(Granted(mem, o))
    BY <2>2 DEF WriteFails, IInv
  <2>. QED  BY <2>1, <2>2
<1>6. ASSUME writeFaults = 0, NEW p \in Orders, held'[p] # NoSeq
      PROVE  G.status[held'[p]] # "untracked" /\ G.owner[held'[p]] = p
  <2>1. held'[p] \in Seqs
    BY <1>5, <1>6
  <2>2. CASE held'[p] = held[p]
    <3>1. mem.status[held'[p]] # "untracked" /\ mem.owner[held'[p]] = p
      BY <1>6, <2>2 DEF IInv, InStep
    <3>. QED  BY <1>2, <1>4, <2>1, <3>1
  <2>3. CASE p = o /\ held'[p] = s
    BY <1>2, <1>4, <2>3
  <2>. QED  BY <1>5, <2>2, <2>3
<1>. QED
  BY <1>3, <1>5, <1>6, CallKeepsIInv DEF G

\* allocate on an order that has a sequence keeps the invariant.
LEMMA AllocateAgainKeepsIInv ==
  ASSUME IInv, NEW o \in Orders, AllocateAgain(o)
  PROVE  IInv'
<1>1. Whole(mem) /\ mem.byOrder[o] \in Seqs /\ mem.owner[mem.byOrder[o]] = o
  BY DEF IInv, AllocateAgain, Whole, Ledgers, PointersAgree
<1>2. mem.status[mem.byOrder[o]] # "untracked"
  BY <1>1, SeqAssumption DEF Whole, Accounted
<1>3. /\ held' \in [Orders -> Seqs \cup {NoSeq}]
      /\ \A p \in Orders : held'[p] = held[p] \/ (p = o /\ held'[p] = mem.byOrder[o])
  BY <1>1, ReplyType DEF AllocateAgain
<1>4. mem' = mem /\ disk' = disk /\ writeFaults' = writeFaults
  BY DEF AllocateAgain
<1>5. Whole(mem)' /\ Whole(disk)'
  BY <1>4 DEF IInv, Whole, Accounted, PointersAgree
<1>6. InStep'
  BY <1>1, <1>2, <1>3, <1>4 DEF IInv, InStep
<1>. QED
  BY <1>3, <1>4, <1>5, <1>6 DEF IInv

\* allocate, with a successful or a failing snapshot write.
LEMMA AllocateKeepsIInv ==
  ASSUME IInv, NEW o \in Orders, Allocate(o)
  PROVE  IInv'
<1>1. Allocated(mem, o) = Granted(mem, o) /\ CanTake(mem)
  BY DEF Allocate, Allocated, MayAllocate
<1>2. Idle(mem, o)
  BY GranteeIdle DEF Allocate, IInv
<1>. QED
  BY <1>1, <1>2, GrantKeepsIInv DEF Allocate

\* reallocate, with a successful or a failing snapshot write.
LEMMA ReallocateKeepsIInv ==
  ASSUME IInv, NEW o \in Orders, Reallocate(o)
  PROVE  IInv'
<1>1. Idle(mem, o) /\ CanTake(mem)
  BY GranteeIdle DEF Reallocate, MayReallocate, IInv
<1>. QED
  BY <1>1, GrantKeepsIInv DEF Reallocate, Reallocated

\* confirmBurned, with a successful or a failing snapshot write.
LEMMA ConfirmBurnedKeepsIInv ==
  ASSUME IInv, NEW o \in Orders, ConfirmBurned(o)
  PROVE  IInv'
<1>. DEFINE B == Burned(mem, held[o])
<1>1. Whole(B)
  BY BurnedWhole DEF IInv, ConfirmBurned
<1>2. \/ Persisted(B)
      \/ WriteFails(B)
  BY DEF ConfirmBurned
<1>3. held' = held
  BY DEF ConfirmBurned, WriteFails
<1>4. /\ \A t \in Seqs : B.status[t] = IF t = held[o] THEN "burned" ELSE mem.status[t]
      /\ B.owner = mem.owner
  BY DEF ConfirmBurned, MayBurn, Burned, IInv, Whole, Ledgers
<1>. HIDE DEF B
<1>5. ASSUME writeFaults = 0, NEW p \in Orders, held'[p] # NoSeq
      PROVE  B.status[held'[p]] # "untracked" /\ B.owner[held'[p]] = p
  BY <1>3, <1>4, <1>5 DEF IInv, InStep
<1>6. held' \in [Orders -> Seqs \cup {NoSeq}]
  BY <1>3 DEF IInv
<1>. QED
  BY <1>1, <1>2, <1>5, <1>6, CallKeepsIInv

\* release, with a successful or a failing snapshot write.
LEMMA ReleaseKeepsIInv ==
  ASSUME IInv, NEW o \in Orders, Release(o)
  PROVE  IInv'
<1>. DEFINE R == Released(mem, held[o], o)
<1>1. Whole(R)
  BY ReleasedWhole DEF IInv, Release
<1>2. \/ Persisted(R) /\ held' = [held EXCEPT ![o] = NoSeq]
      \/ WriteFails(R)
  BY DEF Release
<1>3. /\ \A t \in Seqs : t # held[o] =>
           R.status[t] = mem.status[t] /\ R.owner[t] = mem.owner[t]
      /\ mem.owner[held[o]] = o
  BY DEF Release, OwnedActive, Released, IInv, Whole, Ledgers
<1>4. held' \in [Orders -> Seqs \cup {NoSeq}]
  BY <1>2 DEF IInv, WriteFails
<1>. HIDE DEF R
<1>5. CASE Persisted(R) /\ held' = [held EXCEPT ![o] = NoSeq]
  <2>1. ASSUME writeFaults = 0, NEW p \in Orders, held'[p] # NoSeq
        PROVE  R.status[held'[p]] # "untracked" /\ R.owner[held'[p]] = p
    <3>1. p # o /\ held'[p] = held[p] /\ held[p] \in Seqs
      BY <1>5, <2>1 DEF IInv
    <3>2. mem.status[held[p]] # "untracked" /\ mem.owner[held[p]] = p
      BY <2>1, <3>1 DEF IInv, InStep
    <3>. QED  BY <1>3, <3>1, <3>2
  <2>. QED
    BY <1>1, <1>4, <1>5, <2>1, CallKeepsIInv
<1>6. CASE WriteFails(R)
  <2>1. Whole(mem)' /\ Whole(disk)'
    BY <1>1, <1>6 DEF WriteFails, Whole, Accounted, PointersAgree, IInv
  <2>2. writeFaults' \in 0 .. MaxWriteFaults /\ writeFaults' # 0
    BY <1>6, WriteFaultAssumption DEF WriteFails, IInv
  <2>. QED
    BY <1>4, <2>1, <2>2 DEF IInv, InStep
<1>. QED
  BY <1>2, <1>5, <1>6

\* A restart on the stored snapshot keeps the invariant.
LEMMA RestartKeepsIInv ==
  ASSUME IInv, Restart
  PROVE  IInv'
<1>1. Whole(mem)' /\ Whole(disk)'
  BY DEF IInv, Restart, Whole, Accounted, PointersAgree
<1>2. writeFaults # 0
  BY DEF IInv, InStep, Restart
<1>. QED
  BY <1>1, <1>2 DEF IInv, InStep, Restart

\* Every step keeps the invariant.
LEMMA NextIInv ==
  ASSUME IInv, [Next]_vars
  PROVE  IInv'
<1>1. CASE UNCHANGED vars
  BY <1>1 DEF vars, IInv, InStep, Whole, Accounted, PointersAgree
<1>2. CASE Next
  BY <1>2, AllocateAgainKeepsIInv, AllocateKeepsIInv, ConfirmBurnedKeepsIInv,
     ReleaseKeepsIInv, ReallocateKeepsIInv, RestartKeepsIInv DEF Next
<1>. QED
  BY <1>1, <1>2

\* The inductive invariant holds in every reachable state.
THEOREM Invariance == Spec => []IInv
  BY InitIInv, NextIInv, PTL DEF Spec

-----------------------------------------------------------------------------
(* The properties.                                                         *)

\* Type correctness of the allocator (the shape SequenceSnapshot declares).
THEOREM TypeCorrect == Spec => []TypeOK
<1>1. IInv => TypeOK
  BY DEF IInv, TypeOK, Whole
<1>. QED
  BY <1>1, Invariance, PTL

\* The live and the stored ledger stay whole through every call, failing write
\* and restart: no sequence is lost, doubled or mispointed.
THEOREM LedgersStayWhole == Spec => []LedgersWhole
<1>1. IInv => LedgersWhole
  BY DEF IInv, LedgersWhole, TypeOK, Whole
<1>. QED
  BY <1>1, Invariance, PTL

\* Unless a snapshot write fails, no two orders ever carry the same sequence and
\* no order carries one that is on the free list.
THEOREM SequencesHeldByOne == Spec => []HeldByOne
<1>1. ASSUME IInv PROVE HeldByOne
  <2>. SUFFICES ASSUME writeFaults = 0
                PROVE  /\ \A o, p \in Orders : held[o] = held[p] /\ held[o] # NoSeq => o = p
                       /\ \A o \in Orders : held[o] \notin mem.free
    BY DEF HeldByOne
  <2>1. \A o \in Orders : held[o] # NoSeq =>
          mem.status[held[o]] # "untracked" /\ mem.owner[held[o]] = o
    BY <1>1 DEF IInv, InStep
  <2>2. NoSeq \notin mem.free
    BY <1>1, SeqAssumption DEF IInv, Whole, Ledgers, Seqs, NoSeq
  <2>3. \A s \in mem.free : mem.status[s] = "untracked"
    BY <1>1 DEF IInv, Whole, Accounted
  <2>. QED
    BY <2>1, <2>2, <2>3
<1>. QED
  BY <1>1, Invariance, PTL

\* A call that is not followed by a failed write was not preceded by one.
LEMMA NoFaultBefore ==
  ASSUME IInv, Next, writeFaults' = 0
  PROVE  writeFaults = 0 /\ mem = disk /\ ~Restart
<1>1. writeFaults = 0
  BY DEF IInv, Next, AllocateAgain, Allocate, ConfirmBurned, Release, Reallocate,
     Restart, Persisted, WriteFails
<1>. QED
  BY <1>1 DEF IInv, InStep, Restart

\* Without failing writes, a step of the ledger is one of these four.
LEMMA LedgerSteps ==
  ASSUME IInv, Next, writeFaults' = 0
  PROVE  \/ mem' = mem
         \/ \E o \in Orders : Idle(mem, o) /\ CanTake(mem) /\ mem' = Granted(mem, o)
         \/ \E o \in Orders : /\ MayBurn(mem, held[o])
                              /\ mem.status[held[o]] # "burned"
                              /\ mem' = Burned(mem, held[o])
         \/ \E o \in Orders : /\ OwnedActive(mem, held[o], o)
                              /\ mem' = Released(mem, held[o], o)
<1>0. Whole(mem)
  BY DEF IInv
<1>1. ASSUME NEW o \in Orders, AllocateAgain(o) PROVE mem' = mem
  BY <1>1 DEF AllocateAgain
<1>2. ASSUME NEW o \in Orders, Allocate(o)
      PROVE  Idle(mem, o) /\ CanTake(mem) /\ mem' = Granted(mem, o)
  BY <1>0, <1>2, GranteeIdle DEF Allocate, Allocated, MayAllocate, Persisted, WriteFails
<1>3. ASSUME NEW o \in Orders, Reallocate(o)
      PROVE  Idle(mem, o) /\ CanTake(mem) /\ mem' = Granted(mem, o)
  BY <1>0, <1>3, GranteeIdle
  DEF Reallocate, Reallocated, MayReallocate, Persisted, WriteFails
<1>4. ASSUME NEW o \in Orders, ConfirmBurned(o)
      PROVE  /\ MayBurn(mem, held[o])
             /\ mem.status[held[o]] # "burned"
             /\ mem' = Burned(mem, held[o])
  BY <1>4 DEF ConfirmBurned, Persisted, WriteFails
<1>5. ASSUME NEW o \in Orders, Release(o)
      PROVE  OwnedActive(mem, held[o], o) /\ mem' = Released(mem, held[o], o)
  BY <1>5 DEF Release, Persisted, WriteFails
<1>. QED
  BY <1>1, <1>2, <1>3, <1>4, <1>5, NoFaultBefore DEF Next

\* Unless a snapshot write fails, a burned sequence is burned for good.
THEOREM BurnedStaysBurned == Spec => BurnedForever
<1>1. ASSUME IInv, [Next]_vars, writeFaults' = 0,
             NEW s \in Seqs, mem.status[s] = "burned"
      PROVE  mem'.status[s] = "burned" /\ mem'.owner[s] = mem.owner[s]
  <2>0. Whole(mem)
    BY <1>1 DEF IInv
  <2>1. CASE mem' = mem
    BY <1>1, <2>1
  <2>2. ASSUME NEW o \in Orders, CanTake(mem), mem' = Granted(mem, o)
        PROVE  mem'.status[s] = "burned" /\ mem'.owner[s] = mem.owner[s]
    <3>1. mem.status[TakeSeq(mem)] = "untracked"
      BY <2>0, <2>2, TakeSeqUnused
    <3>2. /\ mem'.status[s] = IF s = TakeSeq(mem) THEN "active" ELSE mem.status[s]
          /\ mem'.owner[s] = IF s = TakeSeq(mem) THEN o ELSE mem.owner[s]
      BY <2>0, <2>2, GrantedFields
    <3>. QED  BY <1>1, <3>1, <3>2
  <2>3. ASSUME NEW o \in Orders, MayBurn(mem, held[o]), mem' = Burned(mem, held[o])
        PROVE  mem'.status[s] = "burned" /\ mem'.owner[s] = mem.owner[s]
    BY <1>1, <2>0, <2>3 DEF MayBurn, Burned, Whole, Ledgers
  <2>4. ASSUME NEW o \in Orders, OwnedActive(mem, held[o], o),
               mem' = Released(mem, held[o], o)
        PROVE  mem'.status[s] = "burned" /\ mem'.owner[s] = mem.owner[s]
    BY <1>1, <2>0, <2>4 DEF OwnedActive, Released, Whole, Ledgers
  <2>5. CASE UNCHANGED vars
    BY <1>1, <2>5 DEF vars
  <2>. QED
    BY <1>1, <2>1, <2>2, <2>3, <2>4, <2>5, LedgerSteps
<1>2. IInv /\ [Next]_vars =>
        [writeFaults' = 0 =>
           \A s \in Seqs : mem.status[s] = "burned" =>
             mem'.status[s] = "burned" /\ mem'.owner[s] = mem.owner[s]]_vars
  BY <1>1
<1>. QED
  BY <1>2, Invariance, PTL DEF Spec, BurnedForever

-----------------------------------------------------------------------------
(* The allocator implements SeqSpace.                                      *)

\* What the mapped space says of one sequence.
LEMMA SpaceOfValues ==
  ASSUME NEW L, Whole(L), NEW s \in Seqs
  PROVE  /\ SpaceOf(L)[s] = <<"unused">> <=> L.status[s] = "untracked"
         /\ \A o \in Orders : SpaceOf(L)[s] = <<"held", o>>
                                <=> (L.status[s] = "active" /\ L.owner[s] = o)
         /\ L.status[s] = "active" => SpaceOf(L)[s] = <<"held", L.owner[s]>>
         /\ L.status[s] = "burned" => SpaceOf(L)[s] = <<"spent", L.owner[s]>>
<1>1. L.status[s] \in {"untracked", "active", "burned"}
  BY DEF Whole, Ledgers
<1>2. SpaceOf(L)[s] =
        CASE L.status[s] = "active" -> <<"held", L.owner[s]>>
          [] L.status[s] = "burned" -> <<"spent", L.owner[s]>>
          [] OTHER -> <<"unused">>
  BY DEF SpaceOf
<1>3. CASE L.status[s] = "untracked"
  BY <1>2, <1>3
<1>4. CASE L.status[s] = "active"
  BY <1>2, <1>4
<1>5. CASE L.status[s] = "burned"
  BY <1>2, <1>5
<1>. QED
  BY <1>1, <1>3, <1>4, <1>5

\* Two whole ledgers that differ in one sequence map to spaces that do.
LEMMA SpaceOfUpdate ==
  ASSUME NEW L, NEW K, NEW s \in Seqs,
         \A t \in Seqs : t # s => K.status[t] = L.status[t] /\ K.owner[t] = L.owner[t]
  PROVE  SpaceOf(K) = [SpaceOf(L) EXCEPT ![s] = SpaceOf(K)[s]]
  BY DEF SpaceOf

\* takeSeq and its records are a Grant of the lowest unused sequence.
LEMMA GrantImplements ==
  ASSUME IInv, NEW o \in Orders, Idle(mem, o), CanTake(mem), mem' = Granted(mem, o)
  PROVE  Abs!SpaceNext
<1>. DEFINE s == TakeSeq(mem)
            G == Granted(mem, o)
<1>1. Whole(mem) /\ Whole(G)
  BY GrantedWhole DEF IInv
<1>2. /\ s \in Seqs
      /\ mem.status[s] = "untracked"
      /\ \A t \in Seqs : mem.status[t] = "untracked" => s <= t
  BY <1>1, TakeSeqUnused
<1>3. /\ \A t \in Seqs : G.status[t] = IF t = s THEN "active" ELSE mem.status[t]
      /\ \A t \in Seqs : G.owner[t] = IF t = s THEN o ELSE mem.owner[t]
  BY <1>1, GrantedFields
<1>4. SpaceOf(mem)' = SpaceOf(G)
  BY DEF SpaceOf
<1>. HIDE DEF s, G
<1>5. SpaceOf(G) = [SpaceOf(mem) EXCEPT ![s] = <<"held", o>>]
  <2>1. SpaceOf(G)[s] = <<"held", o>>
    BY <1>1, <1>2, <1>3, SpaceOfValues
  <2>2. \A t \in Seqs : t # s => G.status[t] = mem.status[t] /\ G.owner[t] = mem.owner[t]
    BY <1>3
  <2>3. SpaceOf(G) = [SpaceOf(mem) EXCEPT ![s] = SpaceOf(G)[s]]
    <3>1. s \in Seqs
      BY <1>2
    <3>. QED  BY <2>2, <3>1, SpaceOfUpdate
  <2>. QED  BY <2>1, <2>3
<1>6. \A t \in Seqs : SpaceOf(mem)[t] # <<"held", o>>
  BY <1>1, SpaceOfValues DEF Idle
<1>7. /\ SpaceOf(mem)[s] = <<"unused">>
      /\ \A t \in Seqs : SpaceOf(mem)[t] = <<"unused">> => s <= t
  BY <1>1, <1>2, SpaceOfValues
<1>8. Abs!Grant(o, s)
  BY <1>4, <1>5, <1>6, <1>7
  DEF Abs!Grant, Abs!SpaceSeqs, Abs!Held, Abs!Unused, Seqs
<1>. QED
  BY <1>2, <1>8 DEF Abs!SpaceNext, Abs!SpaceSeqs, Seqs

\* confirmBurned is a Burn of a held sequence.
LEMMA BurnImplements ==
  ASSUME IInv, NEW s, MayBurn(mem, s), mem.status[s] # "burned", mem' = Burned(mem, s)
  PROVE  Abs!SpaceNext
<1>. DEFINE B == Burned(mem, s)
            o == mem.owner[s]
<1>1. Whole(mem) /\ Whole(B) /\ s \in Seqs
  BY BurnedWhole DEF IInv, MayBurn
<1>2. mem.status[s] = "active" /\ o \in Orders
  BY <1>1 DEF Whole, Ledgers, Accounted, MayBurn
<1>3. /\ \A t \in Seqs : B.status[t] = IF t = s THEN "burned" ELSE mem.status[t]
      /\ B.owner = mem.owner
  BY <1>1 DEF Whole, Ledgers, Burned
<1>4. SpaceOf(mem)' = SpaceOf(B)
  BY DEF SpaceOf
<1>. HIDE DEF B, o
<1>5. SpaceOf(B) = [SpaceOf(mem) EXCEPT ![s] = <<"spent", o>>]
  <2>1. SpaceOf(B)[s] = <<"spent", o>>
    BY <1>1, <1>2, <1>3, SpaceOfValues DEF o
  <2>2. \A t \in Seqs : t # s => B.status[t] = mem.status[t] /\ B.owner[t] = mem.owner[t]
    BY <1>3
  <2>3. SpaceOf(B) = [SpaceOf(mem) EXCEPT ![s] = SpaceOf(B)[s]]
    BY <1>1, <2>2, SpaceOfUpdate
  <2>. QED  BY <2>1, <2>3
<1>6. SpaceOf(mem)[s] = <<"held", o>>
  BY <1>1, <1>2, SpaceOfValues DEF o
<1>7. Abs!Burn(o, s)
  BY <1>4, <1>5, <1>6 DEF Abs!Burn, Abs!Held, Abs!Spent
<1>. QED
  BY <1>1, <1>2, <1>7 DEF Abs!SpaceNext, Abs!SpaceSeqs, Seqs

\* release is a Return of a held sequence.
LEMMA ReleaseImplements ==
  ASSUME IInv, NEW o \in Orders, NEW s, OwnedActive(mem, s, o),
         mem' = Released(mem, s, o)
  PROVE  Abs!SpaceNext
<1>. DEFINE R == Released(mem, s, o)
<1>1. Whole(mem) /\ Whole(R) /\ s \in Seqs
  BY ReleasedWhole DEF IInv, OwnedActive
<1>2. /\ \A t \in Seqs : R.status[t] = IF t = s THEN "untracked" ELSE mem.status[t]
      /\ \A t \in Seqs : R.owner[t] = IF t = s THEN NoOrder ELSE mem.owner[t]
  BY <1>1 DEF Whole, Ledgers, Released
<1>3. SpaceOf(mem)' = SpaceOf(R)
  BY DEF SpaceOf
<1>. HIDE DEF R
<1>4. SpaceOf(R) = [SpaceOf(mem) EXCEPT ![s] = <<"unused">>]
  <2>1. SpaceOf(R)[s] = <<"unused">>
    BY <1>1, <1>2, SpaceOfValues
  <2>2. \A t \in Seqs : t # s => R.status[t] = mem.status[t] /\ R.owner[t] = mem.owner[t]
    BY <1>2
  <2>3. SpaceOf(R) = [SpaceOf(mem) EXCEPT ![s] = SpaceOf(R)[s]]
    BY <1>1, <2>2, SpaceOfUpdate
  <2>. QED  BY <2>1, <2>3
<1>5. SpaceOf(mem)[s] = <<"held", o>>
  BY <1>1, SpaceOfValues DEF OwnedActive
<1>6. Abs!Return(o, s)
  BY <1>3, <1>4, <1>5 DEF Abs!Return, Abs!Held, Abs!Unused
<1>. QED
  BY <1>1, <1>6 DEF Abs!SpaceNext, Abs!SpaceSeqs, Seqs

\* Unless a snapshot write fails, every step of the allocator is a step of the
\* sequence space or leaves it alone: grants are lowest-first, free list and
\* nextSeq together, whatever was burned, released or re-read before.
THEOREM AllocatorImplementsSpace == Spec => ImplementsSpace
<1>1. Init => Abs!SpaceInit
  BY DEF Init, FreshLedger, SpaceOf, Abs!SpaceInit, Abs!SpaceSeqs, Abs!Unused, Seqs
<1>2. ASSUME IInv, [Next]_vars
      PROVE  [writeFaults' = 0 => Abs!SpaceNext]_(SpaceOf(mem))
  <2>1. CASE mem' = mem
    BY <2>1 DEF SpaceOf
  <2>2. CASE mem' # mem /\ writeFaults' = 0
    <3>1. Next
      BY <1>2, <2>2 DEF vars
    <3>. QED
      BY <1>2, <2>2, <3>1, LedgerSteps, GrantImplements, BurnImplements,
         ReleaseImplements
  <2>. QED
    BY <2>1, <2>2
<1>. QED
  BY <1>1, <1>2, Invariance, PTL DEF Spec, ImplementsSpace
=============================================================================
