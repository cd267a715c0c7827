------------------------ MODULE MCSequenceAllocator ------------------------
(* The engine's SequenceProvider, chosen once at boot: the single-operator *)
(* allocator, or the channel pool.  Three orders over four sequences, or   *)
(* over two channels with the same two numbers, and one failing write:     *)
(* enough for a release, a reuse of the released sequence below a burned   *)
(* one, a channel shared by two orders, and a restart on a stale snapshot. *)
EXTENDS SequenceAllocator, TLC

CONSTANTS
  NChannels,       \* channel accounts
  MaxChannelSeq    \* bound: the highest sequence of a channel, at most MaxSeq

VARIABLES
  provider,        \* "operator" or "channels"
  poolMem, poolDisk, poolHeld, givingUp, poolFaults, unsavedDeals

poolVars == <<poolMem, poolDisk, poolHeld, givingUp, poolFaults, unsavedDeals>>

Pool == INSTANCE ChannelPool WITH
  mem <- poolMem, disk <- poolDisk, held <- poolHeld, writeFaults <- poolFaults

MCInit == Init /\ Pool!Init /\ provider \in {"operator", "channels"}

MCNext ==
  \/ provider = "operator" /\ Next /\ UNCHANGED <<provider, poolVars>>
  \/ provider = "channels" /\ Pool!Next /\ UNCHANGED <<provider, vars>>

MCSpec == MCInit /\ [][MCNext]_<<provider, vars, poolVars>>

\* In channel mode every order keeps to one channel's sequences (ChannelPool).
OneChannel == Pool!OneChannel

\* Orders are interchangeable: no definition tells them apart.
OrderSymmetry == Permutations(Orders)
=============================================================================
