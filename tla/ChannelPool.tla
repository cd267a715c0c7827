---------------------------- MODULE ChannelPool ----------------------------
(***************************************************************************)
(* Channel mode: one sequence ledger per channel account and, on top, the  *)
(* sticky assignment of orders to channels (packages/core/src/             *)
(* channel-pool.ts), which testnet-deps.ts gives to the order store when   *)
(* channel secrets are configured.  An order's retries are shielded from   *)
(* paying twice only while all of them use ONE account's sequences.        *)
(*                                                                         *)
(* The calls are synchronous, so no two interleave, but a call writes the  *)
(* database up to twice (the map, a ledger).  Each write may throw, and    *)
(* the process may die after each.  Memory changes before the write.       *)
(* All channels start at the same sequence, as accounts created in one     *)
(* ledger do: equal numbers on two channels are the rule.                  *)
(***************************************************************************)
EXTENDS SeqOps, Sequences

CONSTANTS
  NChannels,        \* how many channel accounts the configuration names, at least one
  MaxChannelSeq,    \* bound: the highest sequence of a channel, at most MaxSeq
  MaxWriteFaults    \* bound: how many writes may throw

\* The channels, in the order of the configuration.
Channels == 1 .. NChannels
NoChannel == 0

\* What memory and the database each hold: the map and the ledgers.
Pools ==
  [map : [Orders -> Channels \cup {NoChannel}],
   led : [Channels -> Ledgers]]

NotHeld == [channel |-> NoChannel, seq |-> NoSeq]

VARIABLES
  mem,           \* the live ChannelPoolProvider
  disk,          \* channel_map and the seq_snapshots of the channels
  held,          \* held[o]: the channel and the sequence o's row carries
  givingUp,      \* orders whose release has begun: they send nothing more
  writeFaults,   \* how many writes have thrown
  unsavedDeals   \* how many of them were the map write of a new assignment

vars == <<mem, disk, held, givingUp, writeFaults, unsavedDeals>>

Init ==
  /\ mem = [map |-> [o \in Orders |-> NoChannel],
            led |-> [c \in Channels |-> FreshLedger]]
  /\ disk = mem
  /\ held = [o \in Orders |-> NotHeld]
  /\ givingUp = {}
  /\ writeFaults = 0
  /\ unsavedDeals = 0

-----------------------------------------------------------------------------
(* A call as its writes: each with the memory at that moment and with what *)
(* the database holds once the write is through.                           *)

\* persistMap rewrites the whole map; an allocator rewrites its own ledger.
MapWrite(m, d) == [kind |-> "map", mem |-> m, disk |-> [d EXCEPT !.map = m.map]]
LedgerWrite(m, d, c) ==
  [kind |-> "ledger", mem |-> m, disk |-> [d EXCEPT !.led[c] = m.led[c]]]

\* The database after the first k writes.
After(writes, k) == IF k = 0 THEN disk ELSE writes[k].disk

Returns(writes) ==
  /\ mem' = IF writes = <<>> THEN mem ELSE writes[Len(writes)].mem
  /\ disk' = After(writes, Len(writes))
  /\ UNCHANGED <<writeFaults, unsavedDeals>>

\* The k-th write throws: memory keeps the change, the caller the exception.
Throws(writes) ==
  /\ writeFaults < MaxWriteFaults
  /\ writeFaults' = writeFaults + 1
  /\ \E k \in DOMAIN writes :
       /\ mem' = writes[k].mem
       /\ disk' = After(writes, k - 1)

\* The process dies after the k-th write; the constructor reads the database.
Dies(writes) ==
  /\ \E k \in DOMAIN writes :
       /\ disk' = After(writes, k)
       /\ mem' = disk'
  /\ UNCHANGED <<writeFaults, unsavedDeals>>

\* Whether the write that throws is the one of a new assignment.
DealUnsaved(o) ==
  unsavedDeals' = unsavedDeals
    + IF mem.map[o] = NoChannel /\ disk.map = disk'.map THEN 1 ELSE 0

-----------------------------------------------------------------------------
(* The calls of the SequenceProvider.                                      *)

\* loads: the pointers of a channel's ledger, burned ones among them.
Load(m, c) == Cardinality({o \in Orders : m.led[c].byOrder[o] # NoSeq})

\* assign: the first of the least loaded channels.
LeastLoaded(m) ==
  CHOOSE c \in Channels :
    /\ \A d \in Channels : Load(m, c) <= Load(m, d)
    /\ \A d \in Channels : d < c => Load(m, c) < Load(m, d)

\* allocate: the sticky channel, or a new assignment.
ChannelOf(m, o) == IF m.map[o] # NoChannel THEN m.map[o] ELSE LeastLoaded(m)

\* Mutant: the ledger is written before the map.
AllocateWritesLedgerFirst(o) ==
  LET c == ChannelOf(mem, o)
      dealt == [mem EXCEPT !.led[c] = Allocated(@, o)]
      granted == [dealt EXCEPT !.map[o] = c]
      first == IF mem.led[c].byOrder[o] = NoSeq THEN <<LedgerWrite(dealt, disk, c)>> ELSE <<>>
      second == IF mem.map[o] = NoChannel
                THEN <<MapWrite(granted, After(first, Len(first)))>> ELSE <<>>
  IN first \o second

\* allocate: a new assignment is written before the channel's allocator is
\* asked; an order that has a sequence there gets it again without a write.
AllocateWrites(o) ==
  LET c == ChannelOf(mem, o)
      dealt == [mem EXCEPT !.map[o] = c]
      granted == [dealt EXCEPT !.led[c] = Allocated(@, o)]
      first == IF mem.map[o] = NoChannel THEN <<MapWrite(dealt, disk)>> ELSE <<>>
      second == IF mem.led[c].byOrder[o] = NoSeq
                THEN <<LedgerWrite(granted, After(first, Len(first)), c)>> ELSE <<>>
  IN first \o second

\* The reply reaches the order's row (allocateSeq, then persistInFlight with
\* the sequence and channelFor), or the drive ends before it does.
Reply(o, c, s) == held' \in {held, [held EXCEPT ![o] = [channel |-> c, seq |-> s]]}

\* chargeOk allocates for an order whose row has no sequence yet.
Allocate(o) ==
  LET c == ChannelOf(mem, o)
      L == mem.led[c]
      s == IF L.byOrder[o] # NoSeq THEN L.byOrder[o] ELSE TakeSeq(L)
  IN /\ held[o] = NotHeld
     /\ MayAllocate(L, o)
     /\ s <= MaxChannelSeq
     /\ \/ Returns(AllocateWrites(o)) /\ Reply(o, c, s)
        \/ Throws(AllocateWrites(o)) /\ DealUnsaved(o) /\ UNCHANGED held
        \/ Dies(AllocateWrites(o)) /\ UNCHANGED held
     /\ UNCHANGED givingUp

\* Mutant: confirmBurned goes by the bare number, to the first channel on which
\* it is active.
BurnChannelByNumber(o) ==
  LET active == {c \in Channels : mem.led[c].status[held[o].seq] = "active"}
  IN CHOOSE c \in (IF active = {} THEN Channels ELSE active) :
       \A d \in active : c <= d

\* requireChannel: confirmBurned goes to the channel of the order.
BurnChannel(o) == mem.map[o]

\* confirmBurned(seq, orderId): the order saw its transaction land.
ConfirmBurned(o) ==
  /\ o \notin givingUp
  /\ held[o].seq # NoSeq
  /\ mem.map[o] # NoChannel
  /\ LET c == BurnChannel(o)
         writes == <<LedgerWrite([mem EXCEPT !.led[c] = Burned(@, held[o].seq)], disk, c)>>
     IN /\ MayBurn(mem.led[c], held[o].seq)
        /\ mem.led[c].status[held[o].seq] # "burned"
        /\ \/ Returns(writes)
           \/ Throws(writes) /\ UNCHANGED unsavedDeals
           \/ Dies(writes)
  /\ UNCHANGED <<held, givingUp>>

\* reallocate, after a revert: a fresh sequence from the same channel.
Reallocate(o) ==
  LET c == mem.map[o]
  IN /\ o \notin givingUp
     /\ c # NoChannel
     /\ MayReallocate(mem.led[c], o)
     /\ TakeSeq(mem.led[c]) <= MaxChannelSeq
     /\ LET writes == <<LedgerWrite([mem EXCEPT !.led[c] = Reallocated(@, o)], disk, c)>>
        IN \/ Returns(writes) /\ Reply(o, c, TakeSeq(mem.led[c]))
           \/ Throws(writes) /\ UNCHANGED <<held, unsavedDeals>>
           \/ Dies(writes) /\ UNCHANGED held
     /\ UNCHANGED givingUp

\* release: the ledger first, then the assignment dissolves.
ReleaseWrites(o) ==
  LET c == mem.map[o]
      freed == [mem EXCEPT !.led[c] = Released(@, held[o].seq, o)]
      first == LedgerWrite(freed, disk, c)
  IN <<first, MapWrite([freed EXCEPT !.map[o] = NoChannel], first.disk)>>

\* Terminal abandonment.  A release that did not return is tried again by the
\* next drive of the order, which the ownership test may refuse.
Release(o) ==
  /\ held[o].seq # NoSeq
  /\ mem.map[o] # NoChannel
  /\ OwnedActive(mem.led[mem.map[o]], held[o].seq, o)
  /\ \/ /\ Returns(ReleaseWrites(o))
        /\ held' = [held EXCEPT ![o] = NotHeld]
        /\ givingUp' = givingUp \ {o}
     \/ /\ Throws(ReleaseWrites(o)) \/ Dies(ReleaseWrites(o))
        /\ givingUp' = givingUp \cup {o}
        /\ UNCHANGED <<held, unsavedDeals>>

\* The process restarts between two calls.
Restart ==
  /\ mem # disk
  /\ mem' = disk
  /\ UNCHANGED <<disk, held, givingUp, writeFaults, unsavedDeals>>

Next ==
  \/ \E o \in Orders :
       \/ Allocate(o)
       \/ ConfirmBurned(o)
       \/ Reallocate(o)
       \/ Release(o)
  \/ Restart

Spec == Init /\ [][Next]_vars

-----------------------------------------------------------------------------
(* Properties.                                                             *)

\* The state has the shape of the map, the snapshots and the rows.
TypeOK ==
  /\ mem \in Pools
  /\ disk \in Pools
  /\ held \in [Orders -> [channel : Channels \cup {NoChannel}, seq : Seqs \cup {NoSeq}]]
  /\ givingUp \subseteq Orders
  /\ writeFaults \in 0 .. MaxWriteFaults
  /\ unsavedDeals \in 0 .. writeFaults

\* The channels on which an order has a sequence, in memory or on disk.
ChannelsWith(o) ==
  {c \in Channels : mem.led[c].byOrder[o] # NoSeq \/ disk.led[c].byOrder[o] # NoSeq}

\* One sequence space for one order.
OneSpace(o) == Cardinality(ChannelsWith(o)) <= 1

\* An order's sequences, those of its row included, come from one channel, and
\* the stored map names it, so that a restart deals the order nowhere else.
Sticky(o) ==
  /\ Cardinality(ChannelsWith(o)) <= 1
  /\ \A c \in ChannelsWith(o) : disk.map[o] = c
  /\ held[o] # NotHeld /\ o \notin givingUp =>
       mem.map[o] = held[o].channel /\ disk.map[o] = held[o].channel

\* What becomes burned is a sequence its owner has been signing with on that very
\* channel, not one with the same number on another.
BurnsItsOwn ==
  \A c \in Channels, s \in Seqs :
    mem.led[c].status[s] = "active" /\ mem'.led[c].status[s] = "burned" =>
      held[mem.led[c].owner[s]] = [channel |-> c, seq |-> s]

\* The shield of channel mode (assign, requireChannel, release, the constructor): every
\* order keeps to one channel, through throwing ledger writes, throwing map writes of a
\* release and deaths between the two writes of a call; and while no write has thrown,
\* equal numbers on two channels are never confused.  The first half excuses one thing,
\* the throwing map write of a NEW assignment: it stays in memory, the next allocate uses
\* it without writing it, and a restart deals the order anew.
OneChannel ==
  /\ [](unsavedDeals = 0 => TypeOK /\ \A o \in Orders : Sticky(o))
  /\ [][writeFaults' = 0 => BurnsItsOwn]_vars
=============================================================================
