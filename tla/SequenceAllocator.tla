------------------------- MODULE SequenceAllocator -------------------------
(***************************************************************************)
(* The single-account sequence allocator as a running process: the ledger  *)
(* in memory, the snapshot in the sequence store, and the sequences the    *)
(* orders' rows carry.                                                     *)
(*                                                                         *)
(* Every call of the code changes memory FIRST and then writes the whole   *)
(* snapshot; the write may fail (the SQLite statement throws), in which    *)
(* case the caller sees the exception, memory keeps the change and the     *)
(* store does not.  A restart replaces memory by the stored snapshot.      *)
(* The reply of a call may be lost to a crash before the order's row has   *)
(* it: allocate is then simply called again.                               *)
(***************************************************************************)
EXTENDS SeqOps

CONSTANT MaxWriteFaults   \* bound: how many snapshot writes may fail

ASSUME WriteFaultAssumption == MaxWriteFaults \in Nat

VARIABLES
  mem,          \* the live SequenceAllocator object
  disk,         \* the snapshot in the SequenceStore
  held,         \* held[o]: the sequence order o's row carries and may use
  writeFaults   \* how many writes have failed

vars == <<mem, disk, held, writeFaults>>

Init ==
  /\ mem = FreshLedger
  /\ disk = FreshLedger
  /\ held = [o \in Orders |-> NoSeq]
  /\ writeFaults = 0

-----------------------------------------------------------------------------
(* The calls.                                                              *)

\* persist(): the whole snapshot is written, or the write throws.
Persisted(L) ==
  /\ mem' = L
  /\ disk' = L
  /\ UNCHANGED writeFaults

WriteFails(L) ==
  /\ writeFaults < MaxWriteFaults
  /\ mem' = L
  /\ writeFaults' = writeFaults + 1
  /\ UNCHANGED <<disk, held>>

\* The reply reaches the order's row, or the process stops before it does.
Reply(o, s) == held' \in {held, [held EXCEPT ![o] = s]}

\* allocate on an order that already has a sequence: no write, same answer.
AllocateAgain(o) ==
  /\ mem.byOrder[o] # NoSeq
  /\ Reply(o, mem.byOrder[o])
  /\ UNCHANGED <<mem, disk, writeFaults>>

Allocate(o) ==
  /\ mem.byOrder[o] = NoSeq
  /\ MayAllocate(mem, o)
  /\ \/ Persisted(Allocated(mem, o)) /\ Reply(o, TakeSeq(mem))
     \/ WriteFails(Allocated(mem, o))

\* confirmBurned(seq): the order saw its transaction land.
ConfirmBurned(o) ==
  /\ held[o] # NoSeq
  /\ MayBurn(mem, held[o])
  /\ mem.status[held[o]] # "burned"
  /\ \/ Persisted(Burned(mem, held[o])) /\ UNCHANGED held
     \/ WriteFails(Burned(mem, held[o]))

\* release(seq, order): only the owner, only while active.
Release(o) ==
  /\ held[o] # NoSeq
  /\ OwnedActive(mem, held[o], o)
  /\ \/ /\ Persisted(Released(mem, held[o], o))
        /\ held' = [held EXCEPT ![o] = NoSeq]
     \/ WriteFails(Released(mem, held[o], o))

Reallocate(o) ==
  /\ MayReallocate(mem, o)
  /\ \/ Persisted(Reallocated(mem, o)) /\ Reply(o, TakeSeq(mem))
     \/ WriteFails(Reallocated(mem, o))

\* The constructor on a store that holds a snapshot.
Restart ==
  /\ mem # disk
  /\ mem' = disk
  /\ UNCHANGED <<disk, held, writeFaults>>

Next ==
  \/ \E o \in Orders :
       \/ AllocateAgain(o)
       \/ Allocate(o)
       \/ ConfirmBurned(o)
       \/ Release(o)
       \/ Reallocate(o)
  \/ Restart

Spec == Init /\ [][Next]_vars

-----------------------------------------------------------------------------
(* Properties.                                                             *)

\* The state has the shape SequenceSnapshot declares.
TypeOK ==
  /\ mem \in Ledgers
  /\ disk \in Ledgers
  /\ held \in [Orders -> Seqs \cup {NoSeq}]
  /\ writeFaults \in 0 .. MaxWriteFaults

\* No sequence is lost and none is in two places: what lies below nextSeq is
\* either on the free list or has a record, and nothing above it is used.
Accounted(L) ==
  /\ \A s \in Seqs : (s < L.next) <=> (s \in L.free \/ L.status[s] # "untracked")
  /\ \A s \in L.free : L.status[s] = "untracked"
  /\ \A s \in Seqs : L.owner[s] # NoOrder <=> L.status[s] # "untracked"

\* The persisted pointer and the records agree: the pointer names a record of
\* the order, and an active record is the one its owner points at.
PointersAgree(L) ==
  /\ \A o \in Orders : L.byOrder[o] # NoSeq => L.owner[L.byOrder[o]] = o
  /\ \A s \in Seqs : L.status[s] = "active" => L.byOrder[L.owner[s]] = s

\* Whatever writes fail and whenever the process restarts, both the live
\* ledger and the stored one keep their shape and stay whole (takeSeq,
\* release, restore).
LedgersWhole ==
  /\ TypeOK
  /\ Accounted(mem)   /\ PointersAgree(mem)
  /\ Accounted(disk)  /\ PointersAgree(disk)

\* The double-pay shield's ownership half: while no write has failed, no two
\* orders' rows carry the same sequence, and a sequence on the free list is in
\* nobody's row.  (After a failed write it is false: allocate answers again
\* from memory what the store never saw, and a restart hands it out twice.)
HeldByOne ==
  writeFaults = 0 =>
    /\ \A o, p \in Orders : held[o] = held[p] /\ held[o] # NoSeq => o = p
    /\ \A o \in Orders : held[o] \notin mem.free

\* A burned sequence stays burned for the same order in the live ledger, and
\* is never handed out again, restarts included, while no write has failed.
BurnedForever ==
  [][writeFaults' = 0 =>
       \A s \in Seqs : mem.status[s] = "burned" =>
         mem'.status[s] = "burned" /\ mem'.owner[s] = mem.owner[s]]_vars

\* The ledger seen as SeqSpace sees it.
SpaceOf(L) ==
  [s \in Seqs |->
     CASE L.status[s] = "active" -> <<"held", L.owner[s]>>
       [] L.status[s] = "burned" -> <<"spent", L.owner[s]>>
       [] OTHER -> <<"unused">>]

Abs == INSTANCE SeqSpace WITH space <- SpaceOf(mem)

\* While no write has failed the allocator implements SeqSpace: every grant
\* hands out the lowest unused sequence, free list and nextSeq together.
ImplementsSpace ==
  /\ Abs!SpaceInit
  /\ [][writeFaults' = 0 => Abs!SpaceNext]_(SpaceOf(mem))
=============================================================================
