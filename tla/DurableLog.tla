----------------------------- MODULE DurableLog -----------------------------
(***************************************************************************)
(* The files behind the books: FileAppendLog, the two logs the boot        *)
(* replays with opposite tolerance (the ledger's journal and the evidence  *)
(* log), the writer lock of the data directory, and the processes that     *)
(* take it.                                                                *)
(*                                                                         *)
(* A frame "L<len>,<crc>|<payload>\n" is four cells, written in order: the *)
(* header up to the comma, the rest of the header, the payload, the        *)
(* newline.  A cell that is damaged, or that a power cut left unwritten    *)
(* inside the file, is Bad: it matches nothing the reader looks for.       *)
(***************************************************************************)
EXTENDS Naturals, Sequences

CONSTANTS
  Refs,        \* what is to be booked: an order's entry, an order's evidence
  Procs,       \* processes that may be started on the data directory
  Free,        \* the lock file does not exist
  MaxFrames,   \* bound: frames in a log
  MaxDeaths,   \* bound: kills and power cuts
  MaxDamage,   \* bound: cells damaged after they were written
  MaxErrors    \* bound: failing writes or syncs

ASSUME LogAssumption ==
  /\ Free \notin Procs
  /\ {MaxFrames, MaxDeaths, MaxDamage, MaxErrors} \subseteq Nat

Logs == {"journal", "evidence"}

VARIABLES
  file,      \* the cells of each log
  lock,      \* writer.lock: the process named in it, or Free
  proc,      \* each process: where it is, its append in progress
  mem,       \* each process: the entries and rows it holds in memory
  poisoned,  \* each process: the logs that refuse every further append
  acked,     \* refs whose append returned, per log, in any life
  refused,   \* some boot refused to start
  spent      \* how much of each bound is used up

vars == <<file, lock, proc, mem, poisoned, acked, refused, spent>>

NoJob == [log |-> "journal", r |-> [ref |-> Free, seq |-> 0], off |-> 0]
Down == [at |-> "down", job |-> NoJob]
Nothing == [l \in Logs |-> <<>>]

Init ==
  /\ file = Nothing
  /\ lock = Free
  /\ proc = [p \in Procs |-> Down]
  /\ mem = [p \in Procs |-> Nothing]
  /\ poisoned = [p \in Procs |-> {}]
  /\ acked = [l \in Logs |-> {}]
  /\ refused = FALSE
  /\ spent = [deaths |-> 0, cuts |-> 0, damage |-> 0, errors |-> 0]

Idle(p) == proc[p].job = NoJob

-----------------------------------------------------------------------------
(* The frame and its reader.                                               *)

Bad == [part |-> 0, r |-> NoJob.r]
Frame(r) == [i \in 1 .. 4 |-> [part |-> i, r |-> r]]

\* parseHeader at cell c: both halves there, and of one record.
Header(f, c) ==
  /\ c + 1 <= Len(f)
  /\ f[c].part = 1
  /\ f[c + 1] = [f[c] EXCEPT !.part = 2]

IsNewline(cell) == cell.part = 4

\* readRecord at cell c: the frame fits, ends in a newline, and its crc matches.
Readable(f, c) ==
  /\ Header(f, c)
  /\ c + 3 <= Len(f)
  /\ IsNewline(f[c + 3])
  /\ f[c + 2] = [f[c] EXCEPT !.part = 3]

Starts(f) == {c \in DOMAIN f : c % 4 = 1}

\* The first cell no record can be read at, or the end of the file.
BadStart(f) ==
  LET bad == {c \in Starts(f) : ~Readable(f, c)} IN
  IF bad = {} THEN Len(f) + 1 ELSE CHOOSE c \in bad : \A d \in bad : c <= d

Payloads(f) == [k \in 1 .. ((BadStart(f) - 1) \div 4) |-> f[4 * k - 3].r]

\* Mutant: a tail without a newline is torn, whatever its header says.
TornNoNewline(f) == \A i \in BadStart(f) .. Len(f) : ~IsNewline(f[i])

\* handleBadRecord: a torn tail has no newline and runs past the end of the file.
\* Anything else is corruption.
Torn(f) ==
  LET b == BadStart(f) IN
  /\ \A i \in b .. Len(f) : ~IsNewline(f[i])
  /\ ~(Header(f, b) /\ b + 3 <= Len(f))

Corrupt(f) == BadStart(f) <= Len(f) /\ ~Torn(f)

\* ftruncate to the end of the last good record.
Healed(f) == SubSeq(f, 1, BadStart(f) - 1)

\* hydrate: the sequence numbers have no gap and no ref repeats.
Hydrates(entries) ==
  /\ \A k \in DOMAIN entries : entries[k].seq = k - 1
  /\ \A j, k \in DOMAIN entries : entries[j].ref = entries[k].ref => j = k

\* dedupeEvidence: row after row, the first one of each order and transaction hash is
\* kept.  A ref stands for that pair.
DedupeEvidence(rows) ==
  LET kept[n \in 0 .. Len(rows)] ==
        IF n = 0 THEN <<>>
        ELSE LET out == kept[n - 1] IN
             IF \E k \in DOMAIN out : out[k].ref = rows[n].ref THEN out
             ELSE Append(out, rows[n])
  IN  kept[Len(rows)]

Replayed(l, f) == IF l = "evidence" THEN DedupeEvidence(Payloads(f)) ELSE Payloads(f)

-----------------------------------------------------------------------------
(* A process starts.                                                       *)

\* Mutant: the lock file is opened without O_EXCL.
LockOpen == TRUE

\* openSync(path, 'wx').
LockFree == lock = Free

AcquireLock(p) ==
  /\ proc[p].at = "down"
  /\ LockFree
  /\ lock' = p
  /\ proc' = [proc EXCEPT ![p].at = "journal"]
  /\ UNCHANGED <<file, mem, poisoned, acked, refused, spent>>

\* The exit handler unlinks the lock file this process created.
Exits(p) ==
  /\ proc' = [proc EXCEPT ![p] = Down]
  /\ mem' = [mem EXCEPT ![p] = Nothing]
  /\ poisoned' = [poisoned EXCEPT ![p] = {}]
  /\ lock' = Free

\* Replay of the next log; corruption, or a journal that breaks the ledger's laws,
\* ends the boot.
Replay(p) ==
  LET l == proc[p].at
      entries == Replayed(l, file[l]) IN
  /\ l \in Logs
  /\ IF Corrupt(file[l]) \/ (l = "journal" /\ ~Hydrates(entries))
     THEN /\ Exits(p)
          /\ refused' = TRUE
          /\ UNCHANGED file
     ELSE /\ file' = [file EXCEPT ![l] = Healed(file[l])]
          /\ mem' = [mem EXCEPT ![p][l] = entries]
          /\ proc' = [proc EXCEPT ![p].at = IF l = "journal" THEN "evidence" ELSE "up"]
          /\ UNCHANGED <<lock, poisoned, refused>>
  /\ UNCHANGED <<acked, spent>>

-----------------------------------------------------------------------------
(* Appending: Ledger.post and appendEvidence over append.                  *)

Holds(p, l, ref) == \E k \in DOMAIN mem[p][l] : mem[p][l][k].ref = ref

\* post refuses a known ref; evidence is appended again whenever an order is
\* driven again.  A poisoned log throws.
AppendBegin(p, l, ref) ==
  /\ proc[p].at = "up" /\ Idle(p)
  /\ l \notin poisoned[p]
  /\ Len(file[l]) < 4 * MaxFrames
  /\ l = "journal" => ~Holds(p, l, ref)
  /\ proc' = [proc EXCEPT ![p].job =
       [log |-> l, off |-> 1,
        r |-> [ref |-> ref, seq |-> IF l = "journal" THEN Len(mem[p][l]) ELSE 0]]]
  /\ UNCHANGED <<file, lock, mem, poisoned, acked, refused, spent>>

\* One write(2): it takes as much of the rest of the frame as it likes.
WriteSome(p) ==
  LET j == proc[p].job IN
  /\ j.off \in 1 .. 4
  /\ \E n \in j.off .. 4 :
       /\ file' = [file EXCEPT ![j.log] = @ \o SubSeq(Frame(j.r), j.off, n)]
       /\ proc' = [proc EXCEPT ![p].job.off = n + 1]
  /\ UNCHANGED <<lock, mem, poisoned, acked, refused, spent>>

\* The whole frame is out and fdatasync returned.
MayReturn(p) == proc[p].job.off = 5

\* append returns; then memory follows.
AppendReturns(p) ==
  LET j == proc[p].job IN
  /\ MayReturn(p)
  /\ acked' = [acked EXCEPT ![j.log] = @ \cup {j.r.ref}]
  /\ mem' = [mem EXCEPT ![p][j.log] = Append(@, j.r)]
  /\ proc' = [proc EXCEPT ![p].job = NoJob]
  /\ UNCHANGED <<file, lock, poisoned, refused, spent>>

\* Mutant: a failed write leaves the log open.
PoisonedNever(p) == poisoned

Poisoned(p) == [poisoned EXCEPT ![p] = @ \cup {proc[p].job.log}]

\* A write or the sync fails: a prefix of the frame, or all of it, may be there.
AppendFails(p) ==
  /\ ~Idle(p)
  /\ spent.errors < MaxErrors
  /\ spent' = [spent EXCEPT !.errors = @ + 1]
  /\ poisoned' = Poisoned(p)
  /\ proc' = [proc EXCEPT ![p].job = NoJob]
  /\ UNCHANGED <<file, lock, mem, acked, refused>>

\* tickFailed, or a signal: process.exit runs the exit handler.
Exit(p) ==
  /\ proc[p].at = "up" /\ Idle(p)
  /\ Exits(p)
  /\ UNCHANGED <<file, acked, refused, spent>>

-----------------------------------------------------------------------------
(* What happens to a process and to a disk (external).                     *)

\* kill -9: what was written stays in the page cache, the lock file stays.
Kill(p) ==
  /\ proc[p].at # "down"
  /\ spent.deaths < MaxDeaths
  /\ spent' = [spent EXCEPT !.deaths = @ + 1]
  /\ proc' = [proc EXCEPT ![p] = Down]
  /\ mem' = [mem EXCEPT ![p] = Nothing]
  /\ poisoned' = [poisoned EXCEPT ![p] = {}]
  /\ UNCHANGED <<file, lock, acked, refused>>

\* What a power cut can leave of a log with an append of p in progress: any of the
\* cells not yet synced is missing at the end or Bad inside the file.
AfterCut(l) ==
  LET open == {p \in Procs : proc[p].job.log = l /\ proc[p].job.off > 1}
      unsynced == IF open = {} THEN 0
                  ELSE (CHOOSE n \in 1 .. 4 : \E p \in open : n = proc[p].job.off - 1)
      kept == Len(file[l]) - unsynced IN
  UNION {{[i \in 1 .. n |-> IF i \in lost THEN Bad ELSE file[l][i]] :
            lost \in SUBSET ((kept + 1) .. n)} : n \in kept .. Len(file[l])}

PowerCut ==
  /\ spent.deaths < MaxDeaths
  /\ \E p \in Procs : ~Idle(p)
  /\ spent' = [spent EXCEPT !.deaths = @ + 1, !.cuts = @ + 1]
  /\ \E j \in AfterCut("journal"), e \in AfterCut("evidence") :
       file' = [journal |-> j, evidence |-> e]
  /\ proc' = [p \in Procs |-> Down]
  /\ mem' = [p \in Procs |-> Nothing]
  /\ poisoned' = [p \in Procs |-> {}]
  /\ UNCHANGED <<lock, acked, refused>>

\* A cell goes bad after it was written.
Damage(l, i) ==
  /\ spent.damage < MaxDamage
  /\ \A p \in Procs : Idle(p)
  /\ file[l][i] # Bad
  /\ spent' = [spent EXCEPT !.damage = @ + 1]
  /\ file' = [file EXCEPT ![l][i] = Bad]
  /\ UNCHANGED <<lock, proc, mem, poisoned, acked, refused>>

\* "verify its PID is no longer running before removing this lock".
OperatorUnlocks ==
  /\ lock # Free
  /\ proc[lock].at = "down"
  /\ lock' = Free
  /\ UNCHANGED <<file, proc, mem, poisoned, acked, refused, spent>>

Next ==
  \/ \E p \in Procs :
       \/ AcquireLock(p) \/ Replay(p) \/ WriteSome(p) \/ AppendReturns(p)
       \/ AppendFails(p) \/ Exit(p) \/ Kill(p)
       \/ \E l \in Logs, ref \in Refs : AppendBegin(p, l, ref)
  \/ PowerCut
  \/ OperatorUnlocks
  \/ \E l \in Logs : \E i \in DOMAIN file[l] : Damage(l, i)

Spec == Init /\ [][Next]_vars

-----------------------------------------------------------------------------
(* Properties.                                                             *)

\* The shape of the files and of the processes, and the lock names the only
\* process that is not down.
TypeOK ==
  /\ \A l \in Logs : Len(file[l]) <= 4 * MaxFrames
  /\ lock \in Procs \cup {Free}
  /\ \A p \in Procs : /\ proc[p].at \in Logs \cup {"down", "up"}
                      /\ proc[p].job.off \in 0 .. 5
                      /\ poisoned[p] \subseteq Logs
                      /\ proc[p].at # "down" => lock = p
  /\ \A l \in Logs : acked[l] \subseteq Refs

\* What append acknowledged in any life is in the memory of every process that is
\* up, through kills, power cuts, failed writes, torn tails and one damaged cell:
\* a boot either replays it or refuses to start.  Two damaged cells can be too many:
\* a last frame without its header and without its newline looks torn.
AckedKept ==
  spent.damage <= 1 =>
    \A p \in Procs, l \in Logs :
      proc[p].at = "up" => \A ref \in acked[l] : Holds(p, l, ref)

\* Without damage or a power cut no boot ever refuses to start: a kill or a failing
\* write at any byte leaves a tail the next boot heals, and the heal leaves a file
\* the next append may extend.
OnlyDamageRefuses == refused => spent.damage + spent.cuts > 0

\* The books in memory are the books on disk: between appends, a process whose log
\* is not poisoned holds exactly what a replay of the file would give it.  (With TypeOK.)
MemoryIsDisk ==
  /\ TypeOK
  /\ \A p \in Procs : proc[p].at = "up" /\ Idle(p) /\ spent.damage = 0 =>
       \A l \in Logs \ poisoned[p] :
         LET disk == Replayed(l, file[l]) IN
         IF l = "journal" THEN mem[p][l] = disk
         ELSE {mem[p][l][k].ref : k \in DOMAIN mem[p][l]} = {disk[k].ref : k \in DOMAIN disk}
=============================================================================
