-------------------------- MODULE DurableLogProofs --------------------------
(***************************************************************************)
(* What append acknowledged is never lost, a boot refuses only for damage  *)
(* or a power cut, and memory is what is on disk: for every number of      *)
(* refs, processes, frames, deaths, failing writes and damaged cells.      *)
(*                                                                         *)
(* BaseInv says who may touch a log and that an open log is whole frames   *)
(* and the part of one frame its append has written.  Solid says which     *)
(* frames: those of a list R that holds all that was acknowledged, one of  *)
(* whose cells may be damaged, and then a part of one more frame, in which *)
(* a power cut may have left holes.  The lemmas on the reader say what a   *)
(* boot makes of such a file: it refuses, or it reads R and perhaps that   *)
(* last frame, and cuts off the rest.                                      *)
(***************************************************************************)
EXTENDS DurableLog, SequenceTheorems, WellFoundedInduction, NaturalsInduction, TLAPS

-----------------------------------------------------------------------------
(* Shapes.                                                                 *)

Recs == [ref : Refs \cup {Free}, seq : Nat]
Cells == [part : 0 .. 4, r : Recs]
CellOf(i, r) == [part |-> i, r |-> r]

\* The cells of a frame are not Bad.
LEMMA CellTyped ==
  ASSUME NEW r \in Recs, NEW i \in 1 .. 4
  PROVE  /\ CellOf(i, r) \in Cells /\ CellOf(i, r).part = i /\ CellOf(i, r).r = r
         /\ CellOf(i, r) # Bad
  BY DEF CellOf, Cells, Bad

LEMMA BadTyped == NoJob.r \in Recs /\ Bad \in Cells /\ Bad.part = 0 /\ ~IsNewline(Bad)
  BY DEF NoJob, Recs, Bad, Cells, IsNewline

\* The four cells of a frame, in order.
LEMMA FrameTyped ==
  ASSUME NEW r \in Recs
  PROVE  /\ Frame(r) \in Seq(Cells) /\ Len(Frame(r)) = 4
         /\ \A i \in 1 .. 4 : Frame(r)[i] = CellOf(i, r)
<1>1. \A i \in 1 .. 4 : CellOf(i, r) \in Cells
  BY CellTyped
<1>2. Frame(r) = [i \in 1 .. 4 |-> CellOf(i, r)]
  BY DEF Frame, CellOf
<1>. QED  BY <1>1, <1>2

-----------------------------------------------------------------------------
(* The reader.                                                             *)

\* The induction used here: a nonempty set of numbers has a least one.
LEMMA LowestCell ==
  ASSUME NEW S \in SUBSET Nat, S # {}
  PROVE  \E c \in S : \A e \in S : c <= e
<1>1. PICK c \in S : \A e \in S : ~ (<<e, c>> \in OpToRel(<, Nat))
  BY WFMin, NatLessThanWellFounded
<1>2. \A e \in S : ~ (e < c)
  BY <1>1 DEF OpToRel
<1>. QED  BY <1>2

LEMMA ByFours ==
  ASSUME NEW c \in Nat
  PROVE  \E m \in Nat, j \in 0 .. 3 : c = 4 * m + j /\ (c % 4 = 1 <=> j = 1)
<1>1. c = 4 * (c \div 4) + (c % 4) /\ c \div 4 \in Nat /\ c % 4 \in 0 .. 3
  OBVIOUS
<1>. QED  BY <1>1

\* A file is read frame by frame up to the first unreadable one.
LEMMA BadStartIs ==
  ASSUME NEW f \in Seq(Cells)
  PROVE  \E m \in Nat :
           /\ BadStart(f) = 4 * m + 1 /\ 4 * m <= Len(f)
           /\ \A k \in 0 .. (m - 1) : Readable(f, 4 * k + 1)
           /\ BadStart(f) <= Len(f) => ~Readable(f, BadStart(f))
<1>. DEFINE bad == {c \in Starts(f) : ~Readable(f, c)}
<1>1. Len(f) \in Nat /\ DOMAIN f = 1 .. Len(f)
  OBVIOUS
<1>2. \A k \in Nat : 4 * k + 1 <= Len(f) => 4 * k + 1 \in Starts(f)
  BY <1>1 DEF Starts
<1>3. \A c \in Starts(f) : c \in Nat /\ c <= Len(f) /\ c % 4 = 1
  BY <1>1 DEF Starts
<1>4. CASE bad = {}
  <2>1. PICK m \in Nat, j \in 0 .. 3 : Len(f) = 4 * m + j
    BY <1>1, ByFours
  <2>2. \A k \in Nat : 4 * k + 1 <= Len(f) => Readable(f, 4 * k + 1)
    BY <1>2, <1>4
  <2>3. j = 0
    <3>. SUFFICES ASSUME j # 0 PROVE FALSE
      OBVIOUS
    <3>1. Readable(f, 4 * m + 1)
      BY <2>1, <2>2
    <3>. QED  BY <2>1, <3>1 DEF Readable
  <2>4. BadStart(f) = 4 * m + 1
    BY <1>4, <2>1, <2>3 DEF BadStart
  <2>5. \A k \in 0 .. (m - 1) : Readable(f, 4 * k + 1)
    BY <2>1, <2>2
  <2>6. ~(BadStart(f) <= Len(f))
    BY <2>1, <2>3, <2>4
  <2>. QED  BY <2>1, <2>4, <2>5, <2>6
<1>5. CASE bad # {}
  <2>1. bad \in SUBSET Nat
    BY <1>3
  <2>2. \E c \in bad : \A e \in bad : c <= e
    <3>. HIDE DEF bad
    <3>. QED  BY <1>5, <2>1, LowestCell
  <2>3. BadStart(f) = CHOOSE c \in bad : \A e \in bad : c <= e
    BY <1>5 DEF BadStart
  <2>. DEFINE b == BadStart(f)
  <2>4. b \in bad /\ \A e \in bad : b <= e
    <3>. HIDE DEF bad
    <3>. QED  BY <2>2, <2>3
  <2>5. b \in Nat /\ b <= Len(f) /\ b % 4 = 1 /\ ~Readable(f, b)
    BY <1>3, <2>4
  <2>6. PICK m \in Nat : b = 4 * m + 1
    BY <2>5, ByFours
  <2>7. ASSUME NEW k \in 0 .. (m - 1) PROVE Readable(f, 4 * k + 1)
    <3>1. k \in Nat /\ 4 * k + 1 < b
      BY <2>6
    <3>2. 4 * k + 1 \in Starts(f)
      BY <1>1, <1>2, <2>5, <3>1
    <3>. QED  BY <2>4, <2>5, <3>1, <3>2
  <2>. HIDE DEF b
  <2>. QED  BY <1>1, <2>5, <2>6, <2>7 DEF b
<1>. QED  BY <1>4, <1>5

\* What is kept of a file with a torn tail.
LEMMA HealedIs ==
  ASSUME NEW f \in Seq(Cells), NEW m \in Nat, BadStart(f) = 4 * m + 1, 4 * m <= Len(f)
  PROVE  /\ Healed(f) \in Seq(Cells) /\ Len(Healed(f)) = 4 * m
         /\ \A i \in 1 .. (4 * m) : Healed(f)[i] = f[i]
  BY DEF Healed

\* The payloads a replay hands over: one for each frame before the first unreadable one.
LEMMA PayloadsAre ==
  ASSUME NEW f \in Seq(Cells), NEW m \in Nat, BadStart(f) = 4 * m + 1, 4 * m <= Len(f)
  PROVE  /\ Payloads(f) \in Seq(Recs) /\ Len(Payloads(f)) = m
         /\ \A k \in 1 .. m : Payloads(f)[k] = f[4 * k - 3].r
<1>1. (BadStart(f) - 1) \div 4 = m
  OBVIOUS
<1>2. Payloads(f) = [k \in 1 .. m |-> f[4 * k - 3].r]
  BY <1>1 DEF Payloads
<1>3. \A k \in 1 .. m : f[4 * k - 3].r \in Recs
  <2>. SUFFICES ASSUME NEW k \in 1 .. m PROVE f[4 * k - 3].r \in Recs
    OBVIOUS
  <2>1. 4 * k - 3 \in 1 .. Len(f)
    OBVIOUS
  <2>2. f[4 * k - 3] \in Cells
    BY <2>1
  <2>. QED  BY <2>2 DEF Cells
<1>. QED  BY <1>2, <1>3

-----------------------------------------------------------------------------
(* What dedupeEvidence keeps.                                              *)

Fold(rows, out, n) ==
  IF \E k \in DOMAIN out : out[k].ref = rows[n].ref THEN out ELSE Append(out, rows[n])

Keeps(rows, f, N) ==
  f = [n \in 0 .. N |-> IF n = 0 THEN <<>> ELSE Fold(rows, f[n - 1], n)]

\* The loop of dedupeEvidence is a function of the rows.
LEMMA KeepsExists ==
  ASSUME NEW rows, NEW N \in Nat
  PROVE  \E f : Keeps(rows, f, N)
<1>. DEFINE bad == {n \in Nat : ~ \E f : Keeps(rows, f, n)}
<1>1. SUFFICES ASSUME bad # {} PROVE FALSE
  OBVIOUS
<1>2. PICK n \in bad : \A e \in bad : n <= e
  <2>1. bad \in SUBSET Nat
    OBVIOUS
  <2>. HIDE DEF bad
  <2>. QED  BY <1>1, <2>1, LowestCell
<1>3. n # 0
  <2>. SUFFICES ASSUME n = 0 PROVE FALSE
    OBVIOUS
  <2>. DEFINE f == [i \in 0 .. 0 |-> <<>>]
  <2>1. f = [i \in 0 .. 0 |-> IF i = 0 THEN <<>> ELSE Fold(rows, f[i - 1], i)]
    OBVIOUS
  <2>2. Keeps(rows, f, 0)
    BY <2>1 DEF Keeps
  <2>. QED  BY <1>2, <2>2
<1>4. n - 1 \in Nat /\ n - 1 \notin bad
  BY <1>2, <1>3
<1>5. PICK g : Keeps(rows, g, n - 1)
  BY <1>4
<1>6. \A i \in 0 .. (n - 1) : g[i] = IF i = 0 THEN <<>> ELSE Fold(rows, g[i - 1], i)
  <2>. DEFINE h == [i \in 0 .. (n - 1) |-> IF i = 0 THEN <<>> ELSE Fold(rows, g[i - 1], i)]
  <2>1. g = h
    BY <1>5 DEF Keeps
  <2>2. \A i \in 0 .. (n - 1) : h[i] = IF i = 0 THEN <<>> ELSE Fold(rows, g[i - 1], i)
    OBVIOUS
  <2>. HIDE DEF h
  <2>. QED  BY <2>1, <2>2
<1>. DEFINE f == [i \in 0 .. n |-> IF i = n THEN Fold(rows, g[n - 1], n) ELSE g[i]]
            h == [i \in 0 .. n |-> IF i = 0 THEN <<>> ELSE Fold(rows, f[i - 1], i)]
<1>7. n \in Nat
  BY <1>2
<1>8. ASSUME NEW i \in 0 .. n PROVE f[i] = h[i]
  <2>1. CASE i = n
    <3>1. f[n] = Fold(rows, g[n - 1], n) /\ f[n - 1] = g[n - 1]
      BY <1>3, <1>7
    <3>. QED  BY <1>3, <2>1, <3>1
  <2>2. CASE i # n /\ i # 0
    <3>1. f[i] = g[i] /\ f[i - 1] = g[i - 1] /\ i \in 0 .. (n - 1)
      BY <1>7, <2>2
    <3>. QED  BY <1>6, <2>2, <3>1
  <2>3. CASE i = 0
    BY <1>3, <1>6, <1>7, <2>3
  <2>. QED  BY <2>1, <2>2, <2>3
<1>9. f = h
  BY <1>8
<1>10. Keeps(rows, f, n)
  BY <1>9 DEF Keeps
<1>. QED  BY <1>2, <1>10

\* Every row's order is kept, and nothing else is.
LEMMA DedupeIs ==
  ASSUME NEW rows \in Seq(Recs)
  PROVE  /\ DedupeEvidence(rows) \in Seq(Recs)
         /\ {DedupeEvidence(rows)[k].ref : k \in DOMAIN DedupeEvidence(rows)}
              = {rows[k].ref : k \in DOMAIN rows}
<1>. DEFINE N == Len(rows)
            f == CHOOSE g : Keeps(rows, g, N)
            R(n) == {rows[k].ref : k \in 1 .. n}
            K(s) == {s[k].ref : k \in DOMAIN s}
            bad == {n \in Nat : n <= N /\ ~(f[n] \in Seq(Recs) /\ K(f[n]) = R(n))}
<1>1. DedupeEvidence(rows) = f[N]
  BY DEF DedupeEvidence, Keeps, Fold
<1>2. N \in Nat /\ DOMAIN rows = 1 .. N /\ \A n \in 1 .. N : rows[n] \in Recs
  OBVIOUS
<1>. HIDE DEF N
<1>3. Keeps(rows, f, N)
  BY <1>2, KeepsExists
<1>. HIDE DEF f
<1>4. \A n \in 0 .. N : f[n] = IF n = 0 THEN <<>> ELSE Fold(rows, f[n - 1], n)
  <2>. DEFINE h == [n \in 0 .. N |-> IF n = 0 THEN <<>> ELSE Fold(rows, f[n - 1], n)]
  <2>1. f = h
    BY <1>3 DEF Keeps
  <2>2. \A n \in 0 .. N : h[n] = IF n = 0 THEN <<>> ELSE Fold(rows, f[n - 1], n)
    OBVIOUS
  <2>. HIDE DEF h
  <2>. QED  BY <2>1, <2>2
<1>5. bad = {}
  <2>. SUFFICES ASSUME bad # {} PROVE FALSE
    OBVIOUS
  <2>1. PICK n \in bad : \A e \in bad : n <= e
    <3>1. bad \in SUBSET Nat
      OBVIOUS
    <3>. HIDE DEF bad
    <3>. QED  BY <3>1, LowestCell
  <2>2. n \in Nat /\ n <= N
    BY <2>1
  <2>3. CASE n = 0
    <3>1. f[0] = <<>>
      BY <1>2, <1>4
    <3>2. <<>> \in Seq(Recs) /\ K(<<>>) = R(0)
      OBVIOUS
    <3>. QED  BY <2>1, <2>3, <3>1, <3>2
  <2>4. CASE n # 0
    <3>. DEFINE out == f[n - 1]
    <3>1. n - 1 \in Nat /\ n - 1 <= N /\ n - 1 < n /\ n \in 1 .. N
      BY <1>2, <2>2, <2>4
    <3>2. n - 1 \notin bad
      <4>. HIDE DEF bad
      <4>. QED  BY <2>1, <3>1
    <3>3. out \in Seq(Recs) /\ K(out) = R(n - 1)
      BY <3>1, <3>2
    <3>4. f[n] = Fold(rows, out, n) /\ rows[n] \in Recs
      BY <1>2, <1>4, <2>4, <3>1
    <3>5. R(n) = R(n - 1) \cup {rows[n].ref}
      <4>1. 1 .. n = (1 .. (n - 1)) \cup {n}
        BY <3>1
      <4>. QED  BY <4>1
    <3>. HIDE DEF out
    <3>6. CASE \E k \in DOMAIN out : out[k].ref = rows[n].ref
      <4>1. rows[n].ref \in K(out)
        BY <3>6
      <4>2. f[n] = out
        BY <3>4, <3>6 DEF Fold
      <4>3. R(n) = K(out)
        BY <3>3, <3>5, <4>1
      <4>. HIDE DEF R, K
      <4>. QED  BY <2>1, <3>3, <4>2, <4>3
    <3>7. CASE ~ \E k \in DOMAIN out : out[k].ref = rows[n].ref
      <4>. DEFINE new == Append(out, rows[n])
      <4>1. f[n] = new
        BY <3>4, <3>7 DEF Fold
      <4>2. /\ new \in Seq(Recs) /\ DOMAIN new = DOMAIN out \cup {Len(out) + 1}
            /\ new[Len(out) + 1] = rows[n] /\ \A k \in DOMAIN out : new[k] = out[k]
        BY <3>3, <3>4
      <4>. HIDE DEF new
      <4>3. K(new) = K(out) \cup {rows[n].ref}
        BY <4>2
      <4>. HIDE DEF R, K
      <4>. QED  BY <2>1, <3>3, <3>5, <4>1, <4>2, <4>3
    <3>. QED  BY <3>6, <3>7
  <2>. QED  BY <2>3, <2>4
<1>6. f[N] \in Seq(Recs) /\ K(f[N]) = R(N)
  <2>1. N \notin bad
    BY <1>5
  <2>. HIDE DEF K, R
  <2>. QED  BY <1>2, <2>1
<1>. QED  BY <1>1, <1>2, <1>6

-----------------------------------------------------------------------------
(* The first layer: shapes, the lock and the frames' boundaries.           *)

Jobs == [log : Logs, r : Recs, off : 0 .. 5]

Shape ==
  /\ file \in [Logs -> Seq(Cells)]
  /\ lock \in Procs \cup {Free}
  /\ proc \in [Procs -> [at : Logs \cup {"down", "up"}, job : Jobs]]
  /\ mem \in [Procs -> [Logs -> Seq(Recs)]]
  /\ poisoned \in [Procs -> SUBSET Logs]
  /\ acked \in [Logs -> SUBSET Refs]
  /\ refused \in BOOLEAN
  /\ spent \in [deaths : Nat, cuts : Nat, damage : Nat, errors : Nat]

\* Only the holder of the lock is not down; only a process that is up appends, and to a log
\* that is open.
ProcInv ==
  \A p \in Procs :
    /\ proc[p].at # "down" => lock = p
    /\ proc[p].job.off = 0 <=> proc[p].job = NoJob
    /\ proc[p].job.off # 0 =>
         /\ proc[p].at = "up" /\ proc[p].job.log \notin poisoned[p]
         /\ proc[p].job.r.ref \in Refs

\* The log has been replayed by p; it can be appended to.
Booted(p, l) == proc[p].at = "up" \/ (proc[p].at = "evidence" /\ l = "journal")
Open(p, l) == Booted(p, l) /\ l \notin poisoned[p]

\* The append in progress on a log, and the cells it has written.
At(p, l) == IF proc[p].job.log = l THEN proc[p].job.off ELSE 0
Out(p, l) == IF At(p, l) = 0 THEN 0 ELSE At(p, l) - 1

\* An open log is whole frames and what the append in progress has written.
Aligned(l, p) ==
  \E m \in Nat : /\ Len(file[l]) = 4 * m + Out(p, l)
                 /\ At(p, l) # 0 => m < MaxFrames

AlignInv ==
  \A l \in Logs : /\ Len(file[l]) <= 4 * MaxFrames
                  /\ \A p \in Procs : Open(p, l) => Aligned(l, p)

BaseInv == Shape /\ ProcInv /\ AlignInv

\* Only one process is not down.
LEMMA OnlyOne ==
  ASSUME ProcInv, NEW p \in Procs, NEW q \in Procs, proc[p].at # "down", proc[q].at # "down"
  PROVE  p = q
  BY DEF ProcInv

\* The shapes, one by one.
LEMMA ShapeOf ==
  ASSUME Shape, NEW p \in Procs, NEW l \in Logs
  PROVE  /\ file[l] \in Seq(Cells) /\ Len(file[l]) \in Nat
         /\ proc[p].at \in Logs \cup {"down", "up"} /\ proc[p].job \in Jobs
         /\ proc[p].job.log \in Logs /\ proc[p].job.r \in Recs /\ proc[p].job.off \in 0 .. 5
         /\ mem[p][l] \in Seq(Recs) /\ poisoned[p] \subseteq Logs /\ acked[l] \subseteq Refs
         /\ At(p, l) \in 0 .. 5 /\ Out(p, l) \in 0 .. 4
  BY DEF Shape, Jobs, At, Out

LEMMA JobTyped ==
  ASSUME Shape, NEW p \in Procs
  PROVE  /\ proc[p].job \in Jobs
         /\ proc[p].job.log \in Logs /\ proc[p].job.r \in Recs /\ proc[p].job.off \in 0 .. 5
  BY DEF Shape, Jobs

LEMMA Idles == NoJob \in Jobs /\ NoJob.off = 0 /\ Down.at = "down" /\ Down.job = NoJob
               /\ Down \in [at : Logs \cup {"down", "up"}, job : Jobs] /\ Nothing \in [Logs -> Seq(Recs)]
  BY BadTyped DEF NoJob, Jobs, Logs, Down, Nothing

\* What another process sees of a step of p.
LEMMA AlignKept ==
  ASSUME Shape, Shape', AlignInv, NEW l \in Logs, file'[l] = file[l],
         \A q \in Procs : Open(q, l)' => Open(q, l) /\ At(q, l)' = At(q, l)
  PROVE  /\ Len(file'[l]) <= 4 * MaxFrames
         /\ \A q \in Procs : Open(q, l)' => Aligned(l, q)'
<1>1. ASSUME NEW q \in Procs, Open(q, l)' PROVE Aligned(l, q)'
  <2>1. PICK m \in Nat : Len(file[l]) = 4 * m + Out(q, l) /\ (At(q, l) # 0 => m < MaxFrames)
    BY <1>1 DEF AlignInv, Aligned
  <2>2. At(q, l) \in 0 .. 5
    BY ShapeOf
  <2>3. Out(q, l)' = Out(q, l) /\ (At(q, l)' # 0 => m < MaxFrames)
    BY <1>1, <2>1, <2>2 DEF Out
  <2>. QED  BY <2>1, <2>3 DEF Aligned
<1>. QED  BY <1>1 DEF AlignInv

\* The lock was free, so every process is down but the one that takes it.
LEMMA AcquireLockBase ==
  ASSUME BaseInv, NEW p \in Procs, AcquireLock(p)
  PROVE  BaseInv'
<1>. USE DEF BaseInv
<1>1. /\ lock = Free /\ lock' = p /\ proc' = [proc EXCEPT ![p].at = "journal"]
      /\ UNCHANGED <<file, mem, poisoned, acked, refused, spent>> /\ proc[p].at = "down"
  BY DEF AcquireLock, LockFree
<1>2. \A q \in Procs : proc[q].at = "down"
  BY <1>1, LogAssumption DEF ProcInv
<1>3. /\ proc'[p].at = "journal" /\ proc'[p].job = proc[p].job
      /\ \A q \in Procs \ {p} : proc'[q] = proc[q]
  BY <1>1 DEF Shape
<1>4. Shape'
  BY <1>1 DEF Shape, Logs
<1>5. ProcInv'
  BY <1>1, <1>2, <1>3 DEF ProcInv
<1>6. \A l \in Logs, q \in Procs : ~Open(q, l)'
  BY <1>2, <1>3 DEF Open, Booted
<1>7. AlignInv'
  BY <1>1, <1>6 DEF AlignInv
<1>. QED  BY <1>4, <1>5, <1>7

\* A process leaves, its lock with it or not.
LEMMA LeavesBase ==
  ASSUME BaseInv, NEW p \in Procs, proc[p].at # "down",
         proc' = [proc EXCEPT ![p] = Down], mem' = [mem EXCEPT ![p] = Nothing],
         poisoned' = [poisoned EXCEPT ![p] = {}], lock' \in {lock, Free},
         UNCHANGED <<file, acked>>, refused' \in BOOLEAN,
         spent' \in [deaths : Nat, cuts : Nat, damage : Nat, errors : Nat]
  PROVE  BaseInv'
<1>. USE DEF BaseInv
<1>1. \A q \in Procs : proc'[q].at = "down" /\ proc'[q].job = NoJob
  <2>1. ASSUME NEW q \in Procs \ {p} PROVE proc'[q].at = "down" /\ proc'[q].job = NoJob
    <3>1. proc'[q] = proc[q] /\ proc[q].at = "down"
      BY OnlyOne DEF Shape
    <3>. QED  BY <3>1, ShapeOf DEF ProcInv
  <2>2. proc'[p] = Down
    BY DEF Shape
  <2>. QED  BY <2>1, <2>2, Idles
<1>2. Shape'
  BY Idles DEF Shape
<1>3. ProcInv'
  BY <1>1, Idles DEF ProcInv
<1>4. \A l \in Logs, q \in Procs : ~Open(q, l)'
  BY <1>1 DEF Open, Booted
<1>5. AlignInv'
  BY <1>4 DEF AlignInv
<1>. QED  BY <1>2, <1>3, <1>5

\* A replay leaves whole frames and no append in progress.
LEMMA ReplayBase ==
  ASSUME BaseInv, NEW p \in Procs, Replay(p)
  PROVE  BaseInv'
<1>. USE DEF BaseInv
<1>. DEFINE l == proc[p].at
            f == file[l]
            entries == Replayed(l, f)
<1>1. l \in Logs /\ l # "down" /\ l # "up" /\ f \in Seq(Cells) /\ Len(f) <= 4 * MaxFrames
  BY ShapeOf DEF Replay, Logs, AlignInv
<1>2. CASE Corrupt(f) \/ (l = "journal" /\ ~Hydrates(entries))
  <2>1. Exits(p) /\ refused' = TRUE /\ UNCHANGED <<file, acked, spent>>
    BY <1>2 DEF Replay
  <2>. QED  BY <1>1, <2>1, LeavesBase DEF Exits, Shape
<1>3. CASE ~(Corrupt(f) \/ (l = "journal" /\ ~Hydrates(entries)))
  <2>1. /\ file' = [file EXCEPT ![l] = Healed(f)] /\ mem' = [mem EXCEPT ![p][l] = entries]
        /\ proc' = [proc EXCEPT ![p].at = IF l = "journal" THEN "evidence" ELSE "up"]
        /\ UNCHANGED <<lock, poisoned, refused, acked, spent>>
    BY <1>3 DEF Replay
  <2>2. PICK m \in Nat : BadStart(f) = 4 * m + 1 /\ 4 * m <= Len(f)
    BY <1>1, BadStartIs
  <2>3. Healed(f) \in Seq(Cells) /\ Len(Healed(f)) = 4 * m
    BY <1>1, <2>2, HealedIs
  <2>4. entries \in Seq(Recs)
    <3>1. Payloads(f) \in Seq(Recs)
      BY <1>1, <2>2, PayloadsAre
    <3>. QED  BY <3>1, DedupeIs DEF Replayed
  <2>. HIDE DEF f, entries
  <2>5. file'[l] = Healed(f) /\ \A k \in Logs \ {l} : file'[k] = file[k]
    BY <1>1, <2>1 DEF Shape
  <2>6. /\ proc'[p].at = (IF l = "journal" THEN "evidence" ELSE "up") /\ proc'[p].job = proc[p].job
        /\ \A q \in Procs \ {p} : proc'[q] = proc[q] /\ proc[q].at = "down"
    <3>1. \A q \in Procs \ {p} : proc[q].at = "down"
      BY <1>1, OnlyOne
    <3>. QED  BY <2>1, <3>1 DEF Shape
  <2>7. proc[p].job = NoJob /\ lock = p
    BY <1>1, ShapeOf DEF ProcInv
  <2>8. Shape'
    <3>1. file' \in [Logs -> Seq(Cells)]
      BY <2>1, <2>3 DEF Shape
    <3>2. mem' \in [Procs -> [Logs -> Seq(Recs)]]
      BY <1>1, <2>1, <2>4 DEF Shape
    <3>3. proc' \in [Procs -> [at : Logs \cup {"down", "up"}, job : Jobs]]
      <4>. DEFINE x == IF l = "journal" THEN "evidence" ELSE "up"
      <4>1. x \in Logs \cup {"down", "up"} /\ proc' = [proc EXCEPT ![p].at = x]
        BY <2>1 DEF Logs
      <4>. HIDE DEF x, l
      <4>. QED  BY <4>1 DEF Shape
    <3>. QED  BY <2>1, <3>1, <3>2, <3>3 DEF Shape
  <2>9. ProcInv'
    BY <2>1, <2>6, <2>7, Idles DEF ProcInv
  <2>10. ASSUME NEW k \in Logs
         PROVE  Len(file'[k]) <= 4 * MaxFrames /\ \A q \in Procs : Open(q, k)' => Aligned(k, q)'
    <3>1. CASE k = l
      <4>1. Len(file'[k]) = 4 * m /\ Len(f) \in Nat /\ MaxFrames \in Nat
        BY <1>1, <2>3, <2>5, <3>1, LogAssumption
      <4>2. Len(file'[k]) <= 4 * MaxFrames
        BY <1>1, <2>2, <4>1 DEF f
      <4>3. \A q \in Procs : At(q, k)' = 0
        BY <2>6, <2>7, ShapeOf, Idles DEF At, ProcInv
      <4>4. \A q \in Procs : Aligned(k, q)'
        BY <4>1, <4>3 DEF Aligned, Out
      <4>. QED  BY <4>2, <4>4
    <3>2. CASE k # l
      <4>1. \A q \in Procs : Open(q, k)' => Open(q, k) /\ At(q, k)' = At(q, k)
        BY <1>1, <2>1, <2>6, <3>2 DEF Open, Booted, At, Logs
      <4>2. file'[k] = file[k]
        BY <2>5, <3>2
      <4>. QED  BY <2>8, <4>1, <4>2, AlignKept
    <3>. QED  BY <3>1, <3>2
  <2>. QED  BY <2>8, <2>9, <2>10 DEF AlignInv
<1>. QED  BY <1>2, <1>3

\* An append begins at the end of a whole number of frames.
LEMMA AppendBeginBase ==
  ASSUME BaseInv, NEW p \in Procs, NEW l \in Logs, NEW ref \in Refs, AppendBegin(p, l, ref)
  PROVE  BaseInv'
<1>. USE DEF BaseInv
<1>. DEFINE x == [ref |-> ref, seq |-> IF l = "journal" THEN Len(mem[p][l]) ELSE 0]
            j == [log |-> l, off |-> 1, r |-> x]
<1>1. /\ proc[p].at = "up" /\ Idle(p) /\ l \notin poisoned[p] /\ Len(file[l]) < 4 * MaxFrames
      /\ proc' = [proc EXCEPT ![p].job = j]
      /\ UNCHANGED <<file, lock, mem, poisoned, acked, refused, spent>>
  BY DEF AppendBegin
<1>2. x \in Recs /\ x.ref \in Refs
  BY ShapeOf DEF Recs
<1>3. j \in Jobs /\ j.off = 1 /\ j.log = l /\ j.r = x
  BY <1>2 DEF Jobs
<1>. HIDE DEF x, j
<1>4. proc'[p].job = j /\ proc'[p].at = proc[p].at /\ \A q \in Procs \ {p} : proc'[q] = proc[q]
  BY <1>1 DEF Shape
<1>5. Shape'
  BY <1>1, <1>3 DEF Shape
<1>6. ProcInv'
  BY <1>1, <1>2, <1>3, <1>4, Idles DEF ProcInv
<1>7. ASSUME NEW k \in Logs
      PROVE  Len(file'[k]) <= 4 * MaxFrames /\ \A q \in Procs : Open(q, k)' => Aligned(k, q)'
  <2>0. proc[p].job = NoJob /\ NoJob.off = 0 /\ At(p, k) = 0
    BY <1>1, Idles DEF Idle, At
  <2>1. CASE k # l
    <3>1. \A q \in Procs : Open(q, k)' => Open(q, k) /\ At(q, k)' = At(q, k)
      BY <1>1, <1>3, <1>4, <2>0, <2>1 DEF Open, Booted, At
    <3>. QED  BY <1>1, <1>5, <3>1, AlignKept
  <2>2. CASE k = l
    <3>1. ASSUME NEW q \in Procs, Open(q, k)' PROVE q = p
      <4>1. proc[q].at # "down"
        BY <1>1, <1>4, <3>1 DEF Open, Booted
      <4>. QED  BY <1>1, <4>1, OnlyOne
    <3>2. PICK m \in Nat : Len(file[l]) = 4 * m
      BY <1>1, <2>0, <2>2 DEF AlignInv, Aligned, Out, Open, Booted
    <3>3. m < MaxFrames
      BY <1>1, <3>2, LogAssumption
    <3>4. At(p, k)' = 1
      BY <1>3, <1>4, <2>2 DEF At
    <3>5. Aligned(k, p)'
      BY <1>1, <2>2, <3>2, <3>3, <3>4 DEF Aligned, Out
    <3>. QED  BY <1>1, <3>1, <3>5 DEF AlignInv
  <2>. QED  BY <2>1, <2>2
<1>. QED  BY <1>5, <1>6, <1>7 DEF AlignInv

-----------------------------------------------------------------------------
(* A write.                                                                *)

LEMMA Slice ==
  ASSUME NEW S, NEW t \in Seq(S), Len(t) = 4, NEW a \in 1 .. 4, NEW n \in 1 .. 4, a <= n
  PROVE  /\ SubSeq(t, a, n) \in Seq(S) /\ Len(SubSeq(t, a, n)) = n + 1 - a
         /\ \A i \in 1 .. (n + 1 - a) : SubSeq(t, a, n)[i] = t[a + i - 1]
<1>0. \A i \in a .. n : t[i] \in S
  <2>1. a .. n \subseteq 1 .. 4
    OBVIOUS
  <2>2. \A i \in 1 .. Len(t) : t[i] \in S
    BY ElementOfSeq, Zenon
  <2>. QED  BY <2>1, <2>2
<1>1. a \in Int /\ n \in Int
  OBVIOUS
<1>2. /\ SubSeq(t, a, n) \in Seq(S)
      /\ Len(SubSeq(t, a, n)) = IF a <= n THEN n - a + 1 ELSE 0
      /\ \A i \in 1 .. n - a + 1 : SubSeq(t, a, n)[i] = t[a + i - 1]
  BY <1>0, <1>1, SubSeqProperties
<1>3. n - a + 1 = n + 1 - a
  OBVIOUS
<1>. QED  BY <1>2, <1>3

LEMMA Glue ==
  ASSUME NEW S, NEW s \in Seq(S), NEW t \in Seq(S)
  PROVE  /\ s \o t \in Seq(S) /\ Len(s \o t) = Len(s) + Len(t)
         /\ \A i \in 1 .. Len(s) : (s \o t)[i] = s[i]
         /\ \A i \in 1 .. Len(t) : (s \o t)[Len(s) + i] = t[i]
  OBVIOUS

\* What one write adds.
LEMMA WriteAdds ==
  ASSUME BaseInv, NEW p \in Procs, WriteSome(p)
  PROVE  LET j == proc[p].job IN
         /\ j.off \in 1 .. 4 /\ proc[p].at = "up" /\ j.log \in Logs /\ j.r \in Recs
         /\ UNCHANGED <<lock, mem, poisoned, acked, refused, spent>>
         /\ \E n \in j.off .. 4 :
              /\ proc' = [proc EXCEPT ![p].job.off = n + 1]
              /\ file' = [file EXCEPT ![j.log] = file'[j.log]]
              /\ file'[j.log] \in Seq(Cells)
              /\ Len(file'[j.log]) = Len(file[j.log]) + (n + 1 - j.off)
              /\ \A i \in 1 .. Len(file[j.log]) : file'[j.log][i] = file[j.log][i]
              /\ \A i \in j.off .. n :
                   file'[j.log][Len(file[j.log]) + (i + 1 - j.off)] = CellOf(i, j.r)
<1>. USE DEF BaseInv
<1>. DEFINE j == proc[p].job
            f == file[j.log]
            t == Frame(j.r)
<1>1. j.off \in 1 .. 4 /\ proc[p].at = "up" /\ j.log \in Logs /\ j.r \in Recs
      /\ UNCHANGED <<lock, mem, poisoned, acked, refused, spent>>
  <2>1. j.off \in 1 .. 4 /\ UNCHANGED <<lock, mem, poisoned, acked, refused, spent>>
    BY DEF WriteSome
  <2>2. j.off # 0
    BY <2>1
  <2>3. proc[p].at = "up"
    BY <2>2 DEF ProcInv
  <2>. QED  BY <2>1, <2>3, JobTyped
<1>2. f \in Seq(Cells) /\ Len(f) \in Nat
  BY <1>1 DEF Shape
<1>3. PICK n \in j.off .. 4 :
        /\ file' = [file EXCEPT ![j.log] = f \o SubSeq(Frame(j.r), j.off, n)]
        /\ proc' = [proc EXCEPT ![p].job.off = n + 1]
  BY DEF WriteSome
<1>. DEFINE s == SubSeq(t, j.off, n)
<1>4. t \in Seq(Cells) /\ Len(t) = 4 /\ \A i \in 1 .. 4 : t[i] = CellOf(i, j.r)
  BY <1>1, FrameTyped
<1>5. n \in 1 .. 4 /\ j.off <= n /\ j.off \in 1 .. 4
  BY <1>1, <1>3
<1>. HIDE DEF t, f
<1>6. /\ s \in Seq(Cells) /\ Len(s) = n + 1 - j.off
      /\ \A i \in 1 .. (n + 1 - j.off) : s[i] = t[j.off + i - 1]
  <2>. DEFINE a == j.off
  <2>1. a \in 1 .. 4 /\ a <= n
    BY <1>5
  <2>. HIDE DEF a
  <2>2. /\ SubSeq(t, a, n) \in Seq(Cells) /\ Len(SubSeq(t, a, n)) = n + 1 - a
        /\ \A i \in 1 .. (n + 1 - a) : SubSeq(t, a, n)[i] = t[a + i - 1]
    BY <1>4, <1>5, <2>1, Slice
  <2>. QED  BY <2>2 DEF a
<1>7. file'[j.log] = f \o s
  BY <1>1, <1>3 DEF Shape, f, t
<1>. HIDE DEF s, j
<1>8. ASSUME NEW i \in j.off .. n
      PROVE  i + 1 - j.off \in 1 .. (n + 1 - j.off) /\ s[i + 1 - j.off] = CellOf(i, j.r)
  <2>1. i + 1 - j.off \in 1 .. (n + 1 - j.off) /\ j.off + (i + 1 - j.off) - 1 = i /\ i \in 1 .. 4
    BY <1>5
  <2>. QED  BY <1>4, <1>6, <2>1
<1>9. /\ f \o s \in Seq(Cells) /\ Len(f \o s) = Len(f) + Len(s)
      /\ \A i \in 1 .. Len(f) : (f \o s)[i] = f[i]
      /\ \A i \in 1 .. Len(s) : (f \o s)[Len(f) + i] = s[i]
  BY <1>2, <1>6, Glue, SMTT(30)
<1>10. \A i \in j.off .. n : (f \o s)[Len(f) + (i + 1 - j.off)] = CellOf(i, j.r)
  BY <1>6, <1>8, <1>9
<1>11. file' = [file EXCEPT ![j.log] = file'[j.log]]
  BY <1>3, <1>7 DEF f, s, t, j
<1>12. /\ file'[j.log] \in Seq(Cells)
       /\ Len(file'[j.log]) = Len(f) + (n + 1 - j.off)
       /\ \A i \in 1 .. Len(f) : file'[j.log][i] = f[i]
       /\ \A i \in j.off .. n : file'[j.log][Len(f) + (i + 1 - j.off)] = CellOf(i, j.r)
  BY <1>6, <1>7, <1>9, <1>10
<1>. QED  BY <1>1, <1>3, <1>11, <1>12 DEF f, j

\* A write moves the end of the file and the offset together.
LEMMA WriteSomeBase ==
  ASSUME BaseInv, NEW p \in Procs, WriteSome(p)
  PROVE  BaseInv'
<1>. USE DEF BaseInv
<1>. DEFINE j == proc[p].job
            l == j.log
            f == file[l]
            g == file'[l]
<1>1. /\ j.off \in 1 .. 4 /\ proc[p].at = "up" /\ l \in Logs /\ j \in Jobs
      /\ UNCHANGED <<lock, mem, poisoned, acked, refused, spent>>
  BY WriteAdds, JobTyped
<1>2. PICK n \in j.off .. 4 :
        /\ proc' = [proc EXCEPT ![p].job.off = n + 1]
        /\ file' = [file EXCEPT ![l] = g] /\ g \in Seq(Cells)
        /\ Len(g) = Len(f) + (n + 1 - j.off)
  BY WriteAdds
<1>3. n \in 1 .. 4 /\ n + 1 \in 2 .. 5 /\ n + 1 # 0
  BY <1>1, <1>2
<1>4. /\ proc'[p].at = "up" /\ proc'[p].job.off = n + 1 /\ proc'[p].job.log = l
      /\ proc'[p].job.r = j.r
      /\ \A q \in Procs \ {p} : proc'[q] = proc[q]
  BY <1>1, <1>2 DEF Shape, Jobs
<1>5. \A k \in Logs \ {l} : file'[k] = file[k]
  BY <1>1, <1>2 DEF Shape
<1>6. Shape'
  <2>1. file' \in [Logs -> Seq(Cells)]
    BY <1>1, <1>2 DEF Shape
  <2>2. proc' \in [Procs -> [at : Logs \cup {"down", "up"}, job : Jobs]]
    <3>. DEFINE x == [j EXCEPT !.off = n + 1]
    <3>1. x \in Jobs
      BY <1>1, <1>3 DEF Jobs
    <3>2. proc' = [proc EXCEPT ![p].job = x]
      BY <1>2
    <3>. HIDE DEF x
    <3>. QED  BY <3>1, <3>2 DEF Shape
  <2>. QED  BY <1>1, <2>1, <2>2 DEF Shape
<1>7. ProcInv'
  BY <1>1, <1>3, <1>4, Idles DEF ProcInv
<1>8. ASSUME NEW k \in Logs
      PROVE  Len(file'[k]) <= 4 * MaxFrames /\ \A q \in Procs : Open(q, k)' => Aligned(k, q)'
  <2>1. CASE k # l
    <3>1. \A q \in Procs : Open(q, k)' => Open(q, k) /\ At(q, k)' = At(q, k)
      BY <1>1, <1>4, <2>1 DEF Open, Booted, At
    <3>2. file'[k] = file[k]
      BY <1>5, <2>1
    <3>. QED  BY <1>6, <3>1, <3>2, AlignKept
  <2>2. CASE k = l
    <3>1. ASSUME NEW q \in Procs, Open(q, k)' PROVE q = p
      <4>1. proc[q].at # "down"
        BY <1>1, <1>4, <3>1 DEF Open, Booted
      <4>. QED  BY <1>1, <4>1, OnlyOne
    <3>2. At(p, l) = j.off /\ Open(p, l) /\ At(p, k)' = n + 1
      BY <1>1, <1>4, <2>2 DEF At, Open, Booted, ProcInv
    <3>3. PICK m \in Nat : Len(f) = 4 * m + (j.off - 1) /\ m < MaxFrames
      <4>1. PICK m \in Nat : Len(f) = 4 * m + Out(p, l) /\ (At(p, l) # 0 => m < MaxFrames)
        BY <1>1, <3>2 DEF AlignInv, Aligned
      <4>. QED  BY <1>1, <3>2, <4>1 DEF Out
    <3>. HIDE DEF f, g
    <3>4. Len(g) = 4 * m + n /\ Len(g) <= 4 * MaxFrames
      <4>1. MaxFrames \in Nat /\ j.off \in Nat /\ n \in 1 .. 4
        BY <1>1, <1>3, LogAssumption
      <4>. DEFINE a == j.off
      <4>2. Len(g) = Len(f) + (n + 1 - a) /\ Len(f) = 4 * m + (a - 1) /\ a \in Nat
        BY <1>2, <3>3, <4>1
      <4>. HIDE DEF a, j, l
      <4>3. Len(g) = 4 * m + n
        BY <4>1, <4>2
      <4>. QED  BY <3>3, <4>1, <4>3
    <3>5. Out(p, k)' = n
      BY <1>3, <3>2 DEF Out
    <3>6. Aligned(k, p)'
      <4>1. Len(file'[k]) = 4 * m + Out(p, k)' /\ m < MaxFrames
        BY <2>2, <3>3, <3>4, <3>5 DEF g
      <4>. HIDE DEF l, j
      <4>. QED  BY <4>1 DEF Aligned
    <3>. QED  BY <2>2, <3>1, <3>4, <3>6 DEF g
  <2>. QED  BY <2>1, <2>2
<1>. QED  BY <1>6, <1>7, <1>8 DEF AlignInv

\* An append that returns leaves one frame more; one that fails closes its log.
LEMMA AppendEndsBase ==
  ASSUME BaseInv, NEW p \in Procs, AppendReturns(p) \/ AppendFails(p)
  PROVE  BaseInv'
<1>. USE DEF BaseInv
<1>. DEFINE j == proc[p].job
            l == j.log
<1>1. /\ j \in Jobs /\ j.off # 0 /\ l \in Logs /\ j.r \in Recs /\ j.r.ref \in Refs
      /\ proc[p].at = "up" /\ l \notin poisoned[p]
  <2>1. j.off # 0
    BY DEF AppendReturns, MayReturn, AppendFails, Idle, ProcInv
  <2>2. proc[p].at = "up" /\ l \notin poisoned[p] /\ j.r.ref \in Refs
    BY <2>1 DEF ProcInv
  <2>. QED  BY <2>1, <2>2, JobTyped
<1>2. proc' = [proc EXCEPT ![p].job = NoJob] /\ UNCHANGED <<file, lock, refused>>
  BY Zenon DEF AppendReturns, AppendFails
<1>3. \/ /\ j.off = 5 /\ UNCHANGED <<poisoned, spent>>
         /\ acked' = [acked EXCEPT ![l] = @ \cup {j.r.ref}]
         /\ mem' = [mem EXCEPT ![p][l] = Append(@, j.r)]
      \/ /\ poisoned' = [poisoned EXCEPT ![p] = @ \cup {l}]
         /\ spent' = [spent EXCEPT !.errors = @ + 1] /\ UNCHANGED <<mem, acked>>
  BY DEF AppendReturns, AppendFails, MayReturn, Poisoned
<1>4. proc'[p].job = NoJob /\ proc'[p].at = proc[p].at /\ \A q \in Procs \ {p} : proc'[q] = proc[q]
  BY <1>2 DEF Shape
<1>5. Shape'
  <2>1. proc' \in [Procs -> [at : Logs \cup {"down", "up"}, job : Jobs]]
    BY <1>2, Idles DEF Shape
  <2>2. CASE AppendReturns(p)
    <3>1. /\ UNCHANGED <<poisoned, spent>> /\ acked' = [acked EXCEPT ![l] = @ \cup {j.r.ref}]
          /\ mem' = [mem EXCEPT ![p][l] = Append(@, j.r)]
      BY <2>2 DEF AppendReturns
    <3>2. Append(mem[p][l], j.r) \in Seq(Recs)
      BY <1>1, ShapeOf
    <3>. HIDE DEF j, l
    <3>3. mem' \in [Procs -> [Logs -> Seq(Recs)]]
      BY <1>1, <3>1, <3>2 DEF Shape
    <3>4. acked' \in [Logs -> SUBSET Refs]
      BY <1>1, <3>1 DEF Shape
    <3>. QED  BY <1>2, <2>1, <3>1, <3>3, <3>4 DEF Shape
  <2>3. CASE AppendFails(p)
    <3>1. /\ poisoned' = [poisoned EXCEPT ![p] = @ \cup {l}]
          /\ spent' = [spent EXCEPT !.errors = @ + 1] /\ UNCHANGED <<mem, acked>>
      BY <2>3 DEF AppendFails, Poisoned
    <3>. HIDE DEF j, l
    <3>2. poisoned' \in [Procs -> SUBSET Logs]
      BY <1>1, <3>1 DEF Shape
    <3>3. spent' \in [deaths : Nat, cuts : Nat, damage : Nat, errors : Nat]
      <4>1. spent \in [deaths : Nat, cuts : Nat, damage : Nat, errors : Nat]
        BY DEF Shape
      <4>. QED  BY <3>1, <4>1
    <3>. QED  BY <1>2, <2>1, <3>1, <3>2, <3>3 DEF Shape
  <2>. QED  BY <2>2, <2>3
<1>6. \A q \in Procs : q # p => poisoned'[q] = poisoned[q]
  BY <1>3 DEF Shape
<1>7. ProcInv'
  BY <1>1, <1>2, <1>4, <1>6, Idles DEF ProcInv
<1>8. ASSUME NEW k \in Logs
      PROVE  Len(file'[k]) <= 4 * MaxFrames /\ \A q \in Procs : Open(q, k)' => Aligned(k, q)'
  <2>1. ASSUME NEW q \in Procs, Open(q, k)' PROVE q = p
    <3>1. proc[q].at # "down"
      BY <1>4, <2>1 DEF Open, Booted
    <3>. QED  BY <1>1, <3>1, OnlyOne
  <2>2. At(p, k)' = 0
    BY <1>4, Idles DEF At
  <2>3. ASSUME Open(p, k)' PROVE \E m \in Nat : Len(file[k]) = 4 * m
    <3>1. Open(p, k)
      BY <1>1, <1>3, <1>4, <2>3 DEF Open, Booted, Shape
    <3>2. PICK m \in Nat : Len(file[k]) = 4 * m + Out(p, k)
      BY <3>1 DEF AlignInv, Aligned
    <3>3. CASE k # l
      BY <3>2, <3>3 DEF Out, At
    <3>4. CASE k = l
      <4>1. j.off = 5
        BY <1>1, <1>3, <2>3, <3>4 DEF Open, Shape
      <4>2. Len(file[k]) = 4 * (m + 1)
        BY <3>2, <3>4, <4>1 DEF Out, At
      <4>. QED  BY <4>2
    <3>. QED  BY <3>3, <3>4
  <2>4. Open(p, k)' => Aligned(k, p)'
    BY <1>2, <2>2, <2>3 DEF Aligned, Out
  <2>. QED  BY <1>2, <2>1, <2>4 DEF AlignInv
<1>. QED  BY <1>5, <1>7, <1>8 DEF AlignInv

-----------------------------------------------------------------------------
(* A power cut.                                                            *)

\* What a power cut leaves of a log: the cells of the append in progress may be lost.
LEMMA AfterCutIs ==
  ASSUME BaseInv, NEW l \in Logs, NEW g \in AfterCut(l)
  PROVE  \E u \in 0 .. 4 :
           /\ u = 0 \/ \E p \in Procs : At(p, l) # 0 /\ Open(p, l) /\ u = Out(p, l)
           /\ u <= Len(file[l])
           /\ g \in Seq(Cells) /\ Len(file[l]) - u <= Len(g) /\ Len(g) <= Len(file[l])
           /\ \A i \in 1 .. (Len(file[l]) - u) : g[i] = file[l][i]
           /\ \A i \in 1 .. Len(g) : g[i] = Bad \/ g[i] = file[l][i]
<1>. USE DEF BaseInv
<1>. DEFINE f == file[l]
            open == {p \in Procs : proc[p].job.log = l /\ proc[p].job.off > 1}
            U == IF open = {} THEN 0
                 ELSE (CHOOSE n \in 1 .. 4 : \E p \in open : n = proc[p].job.off - 1)
            kept == Len(f) - U
<1>1. f \in Seq(Cells) /\ Len(f) \in Nat
  BY DEF Shape
<1>2. U \in 0 .. 4 /\ (U = 0 \/ \E p \in open : U = proc[p].job.off - 1)
  <2>1. CASE open = {}
    BY <2>1
  <2>2. CASE open # {}
    <3>1. PICK p \in open : TRUE
      BY <2>2
    <3>2. proc[p].job.off - 1 \in 1 .. 4
      BY <3>1, JobTyped
    <3>3. \E n \in 1 .. 4 : \E q \in open : n = proc[q].job.off - 1
      BY <3>1, <3>2
    <3>. DEFINE P(n) == \E q \in open : n = proc[q].job.off - 1
    <3>4. U = CHOOSE n \in 1 .. 4 : P(n)
      BY <2>2
    <3>5. U \in 1 .. 4 /\ P(U)
      <4>1. \E n \in 1 .. 4 : P(n)
        BY <3>3
      <4>. HIDE DEF P, U
      <4>. QED  BY <3>4, <4>1
    <3>. HIDE DEF U
    <3>. QED  BY <3>5
  <2>. QED  BY <2>1, <2>2
<1>3. U = 0 \/ \E p \in Procs : At(p, l) # 0 /\ Open(p, l) /\ U = Out(p, l)
  <2>. SUFFICES ASSUME U # 0 PROVE \E p \in Procs : At(p, l) # 0 /\ Open(p, l) /\ U = Out(p, l)
    OBVIOUS
  <2>. HIDE DEF U
  <2>1. PICK p \in open : U = proc[p].job.off - 1
    BY <1>2
  <2>2. p \in Procs /\ At(p, l) = proc[p].job.off /\ proc[p].job.off > 1 /\ proc[p].job.off \in 0 .. 5
    BY <2>1, JobTyped DEF At
  <2>3. Open(p, l)
    BY <2>1, <2>2 DEF ProcInv, Open, Booted
  <2>. QED  BY <2>1, <2>2, <2>3 DEF Out
<1>4. \E n \in kept .. Len(f) : \E lost \in SUBSET ((kept + 1) .. n) :
        g = [i \in 1 .. n |-> IF i \in lost THEN Bad ELSE f[i]]
  <2>1. g \in UNION {{[i \in 1 .. n |-> IF i \in lost THEN Bad ELSE f[i]] :
                        lost \in SUBSET ((kept + 1) .. n)} : n \in kept .. Len(f)}
    BY Zenon DEF AfterCut
  <2>. DEFINE F(n, lost) == [i \in 1 .. n |-> IF i \in lost THEN Bad ELSE f[i]]
              S(n) == {F(n, lost) : lost \in SUBSET ((kept + 1) .. n)}
  <2>2. g \in UNION {S(n) : n \in kept .. Len(f)}
    BY <2>1, Zenon
  <2>. HIDE DEF kept, f, S
  <2>3. PICK n \in kept .. Len(f) : g \in S(n)
    BY <2>2
  <2>. HIDE DEF F
  <2>4. \E lost \in SUBSET ((kept + 1) .. n) : g = F(n, lost)
    BY <2>3 DEF S
  <2>. QED  BY <2>3, <2>4, Zenon DEF F
<1>. HIDE DEF U, f
<1>5. U <= Len(f)
  <2>1. CASE U = 0
    BY <1>1, <2>1
  <2>2. CASE U # 0
    <3>1. PICK p \in Procs : At(p, l) # 0 /\ Open(p, l) /\ U = Out(p, l)
      BY <1>3, <2>2
    <3>2. PICK m \in Nat : Len(f) = 4 * m + Out(p, l)
      BY <3>1 DEF AlignInv, Aligned, f
    <3>. QED  BY <1>2, <3>1, <3>2
  <2>. QED  BY <2>1, <2>2
<1>6. PICK n \in kept .. Len(f) : \E lost \in SUBSET ((kept + 1) .. n) :
        g = [i \in 1 .. n |-> IF i \in lost THEN Bad ELSE f[i]]
  BY <1>4
<1>7. PICK lost \in SUBSET ((kept + 1) .. n) : g = [i \in 1 .. n |-> IF i \in lost THEN Bad ELSE f[i]]
  BY <1>6
<1>8. n \in Nat /\ n <= Len(f) /\ kept <= n /\ kept \in Nat
  BY <1>1, <1>2, <1>5, <1>6
<1>9. \A i \in 1 .. n : f[i] \in Cells
  BY <1>1, <1>8
<1>10. g \in Seq(Cells) /\ Len(g) = n
  BY <1>7, <1>8, <1>9, BadTyped
<1>11. \A i \in 1 .. n : g[i] = Bad \/ g[i] = f[i]
  BY <1>7
<1>12. \A i \in 1 .. kept : g[i] = f[i]
  BY <1>7, <1>8
<1>. QED  BY <1>2, <1>3, <1>5, <1>8, <1>10, <1>11, <1>12 DEF f

LEMMA CutSpent ==
  ASSUME NEW s \in [deaths : Nat, cuts : Nat, damage : Nat, errors : Nat], NEW a \in Nat, NEW b \in Nat
  PROVE  /\ [s EXCEPT !.deaths = a, !.cuts = b] \in [deaths : Nat, cuts : Nat, damage : Nat, errors : Nat]
         /\ [s EXCEPT !.deaths = a, !.cuts = b].damage = s.damage
         /\ [s EXCEPT !.deaths = a, !.cuts = b].cuts = b
  OBVIOUS

\* After a power cut every process is down and no file has grown.
LEMMA PowerCutBase ==
  ASSUME BaseInv, PowerCut
  PROVE  BaseInv'
<1>. USE DEF BaseInv
<1>1. PICK j \in AfterCut("journal"), e \in AfterCut("evidence") :
        file' = [journal |-> j, evidence |-> e]
  BY DEF PowerCut
<1>2. /\ spent' = [spent EXCEPT !.deaths = @ + 1, !.cuts = @ + 1]
      /\ proc' = [p \in Procs |-> Down] /\ mem' = [p \in Procs |-> Nothing]
      /\ poisoned' = [p \in Procs |-> {}] /\ UNCHANGED <<lock, acked, refused>>
  BY DEF PowerCut
<1>3. file'["journal"] = j /\ file'["evidence"] = e /\ "journal" \in Logs /\ "evidence" \in Logs
  BY <1>1 DEF Logs
<1>4. \A l \in Logs : file'[l] \in Seq(Cells) /\ Len(file'[l]) <= Len(file[l])
  <2>1. j \in Seq(Cells) /\ Len(j) <= Len(file["journal"])
    BY <1>3, AfterCutIs
  <2>2. e \in Seq(Cells) /\ Len(e) <= Len(file["evidence"])
    BY <1>3, AfterCutIs
  <2>. QED  BY <1>3, <2>1, <2>2 DEF Logs
<1>5. spent \in [deaths : Nat, cuts : Nat, damage : Nat, errors : Nat]
  BY DEF Shape
<1>6. spent' \in [deaths : Nat, cuts : Nat, damage : Nat, errors : Nat]
  <2>1. spent.deaths + 1 \in Nat /\ spent.cuts + 1 \in Nat
    BY <1>5
  <2>. QED  BY <1>2, <1>5, <2>1, CutSpent
<1>7. Shape'
  <2>1. file' \in [Logs -> Seq(Cells)]
    BY <1>1, <1>3, <1>4 DEF Logs
  <2>. QED  BY <1>2, <1>6, <2>1, Idles DEF Shape
<1>8. \A q \in Procs : proc'[q] = Down
  BY <1>2
<1>9. ProcInv'
  BY <1>8, Idles DEF ProcInv
<1>10. AlignInv'
  <2>1. ASSUME NEW l \in Logs PROVE Len(file'[l]) <= 4 * MaxFrames
    <3>1. Len(file[l]) \in Nat /\ Len(file'[l]) \in Nat /\ MaxFrames \in Nat
      BY <1>4, LogAssumption DEF Shape
    <3>2. Len(file[l]) <= 4 * MaxFrames /\ Len(file'[l]) <= Len(file[l])
      BY <1>4 DEF AlignInv
    <3>. QED  BY <3>1, <3>2
  <2>2. \A l \in Logs, q \in Procs : ~Open(q, l)'
    BY <1>8, Idles DEF Open, Booted
  <2>. QED  BY <2>1, <2>2 DEF AlignInv
<1>. QED  BY <1>7, <1>9, <1>10

\* What damage to one cell changes.
LEMMA DamageIs ==
  ASSUME Shape, NEW l \in Logs, NEW i \in DOMAIN file[l], Damage(l, i)
  PROVE  /\ file' \in [Logs -> Seq(Cells)] /\ \A k \in Logs \ {l} : file'[k] = file[k]
         /\ Len(file'[l]) = Len(file[l]) /\ file'[l][i] = Bad /\ i \in 1 .. Len(file[l])
         /\ \A c \in 1 .. Len(file[l]) : c # i => file'[l][c] = file[l][c]
<1>. DEFINE f == file[l]
            g == [f EXCEPT ![i] = Bad]
<1>1. f \in Seq(Cells) /\ i \in 1 .. Len(f)
  BY DEF Shape
<1>2. file' = [file EXCEPT ![l] = g]
  BY DEF Damage
<1>. HIDE DEF f
<1>3. g \in Seq(Cells) /\ Len(g) = Len(f) /\ g[i] = Bad
  BY <1>1, BadTyped
<1>4. \A c \in 1 .. Len(f) : c # i => g[c] = f[c]
  BY <1>1
<1>. HIDE DEF g
<1>5. file'[l] = g /\ \A k \in Logs \ {l} : file'[k] = file[k]
  BY <1>2 DEF Shape
<1>6. file' \in [Logs -> Seq(Cells)]
  BY <1>2, <1>3 DEF Shape
<1>. QED  BY <1>1, <1>3, <1>4, <1>5, <1>6 DEF f

\* Damage changes no length.
LEMMA DamageBase ==
  ASSUME BaseInv, NEW l \in Logs, NEW i \in DOMAIN file[l], Damage(l, i)
  PROVE  BaseInv'
<1>. USE DEF BaseInv
<1>1. spent' = [spent EXCEPT !.damage = @ + 1] /\ UNCHANGED <<lock, proc, mem, poisoned, acked, refused>>
  BY DEF Damage
<1>2. spent \in [deaths : Nat, cuts : Nat, damage : Nat, errors : Nat]
  BY DEF Shape
<1>3. spent' \in [deaths : Nat, cuts : Nat, damage : Nat, errors : Nat]
  BY <1>1, <1>2
<1>4. Shape'
  BY <1>1, <1>3, DamageIs DEF Shape
<1>5. ProcInv'
  BY <1>1 DEF ProcInv
<1>6. \A k \in Logs : Len(file'[k]) = Len(file[k])
  BY DamageIs
<1>7. \A k \in Logs, q \in Procs : (Open(q, k)' <=> Open(q, k)) /\ At(q, k)' = At(q, k) /\ Out(q, k)' = Out(q, k)
  BY <1>1 DEF Open, Booted, At, Out
<1>8. AlignInv'
  BY <1>6, <1>7 DEF AlignInv, Aligned
<1>. QED  BY <1>4, <1>5, <1>8

LEMMA UnlocksBase ==
  ASSUME BaseInv, OperatorUnlocks
  PROVE  BaseInv'
<1>. USE DEF BaseInv
<1>1. /\ lock' = Free /\ proc[lock].at = "down" /\ UNCHANGED <<file, proc, mem, poisoned, acked, refused, spent>>
  BY DEF OperatorUnlocks
<1>2. \A q \in Procs : proc[q].at = "down"
  BY <1>1 DEF ProcInv
<1>3. Shape'
  BY <1>1 DEF Shape
<1>4. ProcInv'
  BY <1>1, <1>2 DEF ProcInv
<1>5. \A k \in Logs, q \in Procs : (Open(q, k)' <=> Open(q, k)) /\ Out(q, k)' = Out(q, k) /\ At(q, k)' = At(q, k)
  BY <1>1 DEF Open, Booted, At, Out
<1>6. AlignInv'
  BY <1>1, <1>5 DEF AlignInv, Aligned
<1>. QED  BY <1>3, <1>4, <1>6

LEMMA ExitBase ==
  ASSUME BaseInv, NEW p \in Procs, Exit(p) \/ Kill(p)
  PROVE  BaseInv'
<1>1. spent \in [deaths : Nat, cuts : Nat, damage : Nat, errors : Nat] /\ refused \in BOOLEAN
  BY DEF BaseInv, Shape
<1>2. CASE Exit(p)
  BY <1>1, <1>2, LeavesBase DEF Exit, Exits
<1>3. CASE Kill(p)
  <2>1. spent' = [spent EXCEPT !.deaths = @ + 1]
    BY <1>3 DEF Kill
  <2>2. spent' \in [deaths : Nat, cuts : Nat, damage : Nat, errors : Nat]
    BY <1>1, <2>1
  <2>. QED  BY <1>1, <1>3, <2>2, LeavesBase DEF Kill
<1>. QED  BY <1>2, <1>3

LEMMA InitBase == Init => BaseInv
<1>. SUFFICES ASSUME Init PROVE BaseInv
  OBVIOUS
<1>. USE DEF Init
<1>1. Shape
  <2>1. file \in [Logs -> Seq(Cells)]
    BY DEF Nothing
  <2>2. spent \in [deaths : Nat, cuts : Nat, damage : Nat, errors : Nat]
    OBVIOUS
  <2>. QED  BY <2>1, <2>2, Idles DEF Shape
<1>2. ProcInv
  BY Idles DEF ProcInv
<1>3. \A l \in Logs : Len(file[l]) = 0
  BY DEF Nothing
<1>4. \A l \in Logs, q \in Procs : ~Open(q, l)
  BY Idles DEF Open, Booted
<1>5. AlignInv
  BY <1>3, <1>4, LogAssumption DEF AlignInv
<1>. QED  BY <1>1, <1>2, <1>5 DEF BaseInv

LEMMA NextBase == BaseInv /\ [Next]_vars => BaseInv'
<1>. SUFFICES ASSUME BaseInv, [Next]_vars PROVE BaseInv'
  OBVIOUS
<1>1. CASE UNCHANGED vars
  BY <1>1 DEF vars, BaseInv, Shape, ProcInv, AlignInv, Aligned, Open, Booted, At, Out
<1>2. ASSUME NEW p \in Procs,
             \/ AcquireLock(p) \/ Replay(p) \/ WriteSome(p) \/ AppendReturns(p)
             \/ AppendFails(p) \/ Exit(p) \/ Kill(p)
             \/ \E l \in Logs, ref \in Refs : AppendBegin(p, l, ref)
      PROVE  BaseInv'
  BY <1>2, AcquireLockBase, ReplayBase, WriteSomeBase, AppendEndsBase, ExitBase, AppendBeginBase
<1>3. CASE PowerCut
  BY <1>3, PowerCutBase
<1>4. CASE OperatorUnlocks
  BY <1>4, UnlocksBase
<1>5. CASE \E l \in Logs : \E i \in DOMAIN file[l] : Damage(l, i)
  BY <1>5, DamageBase
<1>. QED  BY <1>1, <1>2, <1>3, <1>4, <1>5 DEF Next

\* Every reachable state has the shapes, the one process that is not down holds the lock, and
\* every open log ends where its append has come to: append writes at the end of the file,
\* and a failed one closes the log.
THEOREM AlwaysBase == Spec => []BaseInv
  BY InitBase, NextBase, PTL DEF Spec

-----------------------------------------------------------------------------
(* The second layer: what is in the files.                                 *)

RefsOf(s) == {s[k].ref : k \in DOMAIN s}

\* The next entry of the ledger after R.
Follows(R, r) == r.seq = Len(R) /\ r.ref \notin RefsOf(R)

\* A file holds the frames of R, the cell d of them damaged (0: none), and then a prefix of
\* the frame of r, in which cells are Bad only if it is loose.
Laid(f, R, r, d, loose) ==
  /\ 4 * Len(R) <= Len(f) /\ Len(f) <= 4 * Len(R) + 4
  /\ \A k \in 1 .. Len(R), i \in 1 .. 4 : 4 * k - 4 + i = d \/ f[4 * k - 4 + i] = CellOf(i, R[k])
  /\ d # 0 => d \in 1 .. (4 * Len(R)) /\ f[d] = Bad
  /\ \A i \in 1 .. 4 : 4 * Len(R) + i <= Len(f) =>
       f[4 * Len(R) + i] = CellOf(i, r) \/ (loose /\ f[4 * Len(R) + i] = Bad)

\* One more record, one more ref.
LEMMA RefsOfAppend ==
  ASSUME NEW R \in Seq(Recs), NEW r \in Recs
  PROVE  /\ Append(R, r) \in Seq(Recs) /\ Len(Append(R, r)) = Len(R) + 1
         /\ Append(R, r)[Len(R) + 1] = r /\ \A k \in 1 .. Len(R) : Append(R, r)[k] = R[k]
         /\ RefsOf(Append(R, r)) = RefsOf(R) \cup {r.ref}
<1>. DEFINE S == Append(R, r)
<1>1. S \in Seq(Recs) /\ Len(S) = Len(R) + 1
  OBVIOUS
<1>2. S[Len(R) + 1] = r
  OBVIOUS
<1>3. \A k \in 1 .. Len(R) : S[k] = R[k]
  OBVIOUS
<1>4. DOMAIN S = 1 .. (Len(R) + 1) /\ DOMAIN R = 1 .. Len(R) /\ Len(R) \in Nat
  OBVIOUS
<1>5. DOMAIN S = DOMAIN R \cup {Len(R) + 1}
  BY <1>4
<1>. HIDE DEF S
<1>6. RefsOf(S) = RefsOf(R) \cup {r.ref}
  BY <1>2, <1>3, <1>4, <1>5 DEF RefsOf
<1>. QED  BY <1>1, <1>2, <1>3, <1>6 DEF S

\* The ledger takes the next entry: no gap, no ref twice.
LEMMA HydratesAppend ==
  ASSUME NEW R \in Seq(Recs), NEW r \in Recs, Hydrates(R), Follows(R, r)
  PROVE  Hydrates(Append(R, r))
<1>. DEFINE S == Append(R, r)
<1>1. /\ Len(S) = Len(R) + 1 /\ S[Len(R) + 1] = r /\ \A k \in 1 .. Len(R) : S[k] = R[k]
      /\ DOMAIN S = 1 .. (Len(R) + 1) /\ DOMAIN R = 1 .. Len(R) /\ Len(R) \in Nat
  BY RefsOfAppend
<1>. HIDE DEF S
<1>2. \A k \in 1 .. Len(R) : S[k].ref # r.ref
  BY <1>1 DEF Follows, RefsOf
<1>3. \A k \in DOMAIN S : S[k].seq = k - 1
  BY <1>1 DEF Follows, Hydrates
<1>4. \A j, k \in DOMAIN S : S[j].ref = S[k].ref => j = k
  <2>. SUFFICES ASSUME NEW j \in DOMAIN S, NEW k \in DOMAIN S, S[j].ref = S[k].ref PROVE j = k
    OBVIOUS
  <2>1. CASE j \in 1 .. Len(R) /\ k \in 1 .. Len(R)
    BY <1>1, <2>1 DEF Hydrates
  <2>2. CASE ~(j \in 1 .. Len(R) /\ k \in 1 .. Len(R))
    BY <1>1, <1>2, <2>2
  <2>. QED  BY <2>1, <2>2
<1>. QED  BY <1>3, <1>4 DEF Hydrates, S

-----------------------------------------------------------------------------
(* What the reader makes of such a file.                                   *)

\* A frame whose four cells are there is read.
LEMMA GoodFrame ==
  ASSUME NEW f \in Seq(Cells), NEW r \in Recs, NEW c \in Nat, c + 3 <= Len(f),
         \A i \in 1 .. 4 : f[c + i - 1] = CellOf(i, r)
  PROVE  Readable(f, c)
<1>1. f[c] = CellOf(1, r) /\ f[c + 1] = CellOf(2, r) /\ f[c + 2] = CellOf(3, r) /\ f[c + 3] = CellOf(4, r)
  <2>1. c + 1 - 1 = c /\ c + 2 - 1 = c + 1 /\ c + 3 - 1 = c + 2 /\ c + 4 - 1 = c + 3
    OBVIOUS
  <2>2. f[c + 1 - 1] = CellOf(1, r) /\ f[c + 2 - 1] = CellOf(2, r) /\ f[c + 3 - 1] = CellOf(3, r)
        /\ f[c + 4 - 1] = CellOf(4, r)
    OBVIOUS
  <2>. QED  BY <2>1, <2>2
<1>2. Len(f) \in Nat
  OBVIOUS
<1>3. c + 1 <= Len(f)
  BY <1>2
<1>4. Header(f, c)
  BY <1>1, <1>3 DEF Header, CellOf
<1>. QED  BY <1>1, <1>4 DEF Readable, IsNewline, CellOf

\* The parts of a frame that can be read.
LEMMA ReadParts ==
  ASSUME NEW f \in Seq(Cells), NEW c \in Nat, c > 0, Readable(f, c)
  PROVE  /\ c + 3 <= Len(f)
         /\ \A i \in 1 .. 4 : f[c + i - 1].part = i
<1>1. f[c].part = 1 /\ f[c + 1].part = 2 /\ f[c + 2].part = 3 /\ f[c + 3].part = 4 /\ c + 3 <= Len(f)
  <2>1. c + 3 <= Len(f) /\ f[c].part = 1 /\ f[c + 3].part = 4
        /\ f[c + 1] = [f[c] EXCEPT !.part = 2] /\ f[c + 2] = [f[c] EXCEPT !.part = 3]
    BY DEF Readable, Header, IsNewline
  <2>2. f[c] \in Cells
    BY <2>1
  <2>3. [f[c] EXCEPT !.part = 2].part = 2 /\ [f[c] EXCEPT !.part = 3].part = 3
    BY <2>2 DEF Cells
  <2>. QED  BY <2>1, <2>3
<1>2. ASSUME NEW i \in 1 .. 4 PROVE f[c + i - 1].part = i
  <2>1. CASE i = 1
    BY <1>1, <2>1
  <2>2. CASE i = 2
    BY <1>1, <2>2
  <2>3. CASE i = 3
    BY <1>1, <2>3
  <2>4. CASE i = 4
    BY <1>1, <2>4
  <2>. QED  BY <2>1, <2>2, <2>3, <2>4
<1>. QED  BY <1>1, <1>2

\* The frames of R that hold no damaged cell are read.
LEMMA LaidReads ==
  ASSUME NEW f \in Seq(Cells), NEW R \in Seq(Recs), NEW r \in Recs, NEW d \in Nat, NEW loose,
         Laid(f, R, r, d, loose), NEW k \in 1 .. Len(R), d \notin (4 * k - 3) .. (4 * k)
  PROVE  Readable(f, 4 * k - 3)
<1>1. Len(f) \in Nat /\ Len(R) \in Nat /\ R[k] \in Recs /\ k \in Nat /\ k > 0 /\ 4 * k - 3 \in Nat
  OBVIOUS
<1>2. (4 * k - 3) + 3 <= Len(f)
  BY <1>1 DEF Laid
<1>3. ASSUME NEW i \in 1 .. 4 PROVE f[(4 * k - 3) + i - 1] = CellOf(i, R[k])
  <2>1. 4 * k - 4 + i # d /\ (4 * k - 3) + i - 1 = 4 * k - 4 + i
    BY <1>1
  <2>2. 4 * k - 4 + i = d \/ f[4 * k - 4 + i] = CellOf(i, R[k])
    BY DEF Laid
  <2>. QED  BY <2>1, <2>2
<1>. QED  BY <1>1, <1>2, <1>3, GoodFrame

\* A frame of R with a damaged cell is taken for corruption, not for a torn tail.
LEMMA ScarSeen ==
  ASSUME NEW f \in Seq(Cells), NEW R \in Seq(Recs), NEW r \in Recs, NEW d \in Nat, NEW loose,
         Laid(f, R, r, d, loose), NEW k \in 1 .. Len(R), BadStart(f) = 4 * k - 3
  PROVE  Corrupt(f)
<1>. DEFINE b == 4 * k - 3
<1>1. Len(f) \in Nat /\ Len(R) \in Nat /\ R[k] \in Recs /\ k \in Nat /\ k > 0 /\ b \in Nat
  OBVIOUS
<1>2. b + 3 <= Len(f) /\ b <= Len(f)
  BY <1>1 DEF Laid
<1>3. \A i \in 1 .. 4 : 4 * k - 4 + i = d \/ f[4 * k - 4 + i] = CellOf(i, R[k])
  BY DEF Laid
<1>4. CASE d = 4 * k
  <2>1. 4 * k - 4 + 1 # d /\ 4 * k - 4 + 2 # d /\ 4 * k - 4 + 1 = b /\ 4 * k - 4 + 2 = b + 1
    BY <1>1, <1>4
  <2>2. 4 * k - 4 + 1 = d \/ f[4 * k - 4 + 1] = CellOf(1, R[k])
    BY <1>3
  <2>3. 4 * k - 4 + 2 = d \/ f[4 * k - 4 + 2] = CellOf(2, R[k])
    BY <1>3
  <2>4. f[b] = CellOf(1, R[k]) /\ f[b + 1] = CellOf(2, R[k]) /\ b + 1 <= Len(f)
    BY <1>1, <1>2, <2>1, <2>2, <2>3
  <2>. HIDE DEF b
  <2>5. Header(f, b)
    BY <2>4 DEF Header, CellOf
  <2>. QED  BY <1>2, <2>5 DEF Corrupt, Torn, b
<1>5. CASE d # 4 * k
  <2>1. 4 * k - 4 + 4 = d \/ f[4 * k - 4 + 4] = CellOf(4, R[k])
    BY <1>3
  <2>2. 4 * k - 4 + 4 = 4 * k
    BY <1>1
  <2>3. f[4 * k] = CellOf(4, R[k]) /\ 4 * k \in b .. Len(f)
    BY <1>1, <1>2, <1>5, <2>1, <2>2
  <2>4. IsNewline(f[4 * k])
    BY <2>3 DEF IsNewline, CellOf
  <2>. QED  BY <1>2, <2>3, <2>4 DEF Corrupt, Torn
<1>. QED  BY <1>4, <1>5

\* A boot that goes on has found no damage in R; it reads R, or R and the frame after it when
\* all of that one is there.
LEMMA ReplayReads ==
  ASSUME NEW f \in Seq(Cells), NEW R \in Seq(Recs), NEW r \in Recs, NEW d \in Nat, NEW loose,
         Laid(f, R, r, d, loose), ~Corrupt(f)
  PROVE  /\ d = 0
         /\ \E S \in Seq(Recs) :
              /\ S = R \/ (S = Append(R, r) /\ Len(f) = 4 * Len(R) + 4)
              /\ Payloads(f) = S /\ Laid(Healed(f), S, r, 0, FALSE) /\ Len(Healed(f)) = 4 * Len(S)
<1>. DEFINE K == Len(R)
<1>1. Len(f) \in Nat /\ K \in Nat
  OBVIOUS
<1>2. PICK m \in Nat : /\ BadStart(f) = 4 * m + 1 /\ 4 * m <= Len(f)
                       /\ \A k \in 0 .. (m - 1) : Readable(f, 4 * k + 1)
                       /\ BadStart(f) <= Len(f) => ~Readable(f, BadStart(f))
  BY BadStartIs
<1>3. 4 * K <= Len(f) /\ Len(f) <= 4 * K + 4
  BY DEF Laid
<1>4. K <= m
  <2>. SUFFICES ASSUME m < K PROVE FALSE
    BY <1>1
  <2>1. m + 1 \in 1 .. K /\ BadStart(f) = 4 * (m + 1) - 3
    BY <1>1, <1>2
  <2>. QED  BY <2>1, ScarSeen
<1>5. m <= K + 1
  BY <1>1, <1>2, <1>3
<1>6. \A k \in 1 .. m : Readable(f, 4 * k - 3)
  <2>. SUFFICES ASSUME NEW k \in 1 .. m PROVE Readable(f, 4 * k - 3)
    OBVIOUS
  <2>1. k - 1 \in 0 .. (m - 1) /\ 4 * (k - 1) + 1 = 4 * k - 3
    BY <1>2
  <2>2. Readable(f, 4 * (k - 1) + 1)
    BY <1>2, <2>1
  <2>. QED  BY <2>1, <2>2
<1>7. \A k \in 1 .. m, i \in 1 .. 4 : f[4 * k - 4 + i].part = i
  <2>. SUFFICES ASSUME NEW k \in 1 .. m, NEW i \in 1 .. 4 PROVE f[4 * k - 4 + i].part = i
    OBVIOUS
  <2>1. 4 * k - 3 \in Nat /\ 4 * k - 3 > 0 /\ (4 * k - 3) + i - 1 = 4 * k - 4 + i
    OBVIOUS
  <2>2. f[(4 * k - 3) + i - 1].part = i
    BY <1>6, <2>1, ReadParts
  <2>. QED  BY <2>1, <2>2
<1>8. d = 0
  <2>. SUFFICES ASSUME d # 0 PROVE FALSE
    OBVIOUS
  <2>1. d \in 1 .. (4 * K) /\ f[d] = Bad
    BY DEF Laid
  <2>2. PICK q \in Nat, j \in 0 .. 3 : d - 1 = 4 * q + j
    <3>1. d - 1 \in Nat
      BY <1>1, <2>1
    <3>. QED  BY <3>1, ByFours
  <2>3. q + 1 \in 1 .. m /\ j + 1 \in 1 .. 4 /\ 4 * (q + 1) - 4 + (j + 1) = d
    BY <1>1, <1>4, <2>1, <2>2
  <2>4. f[4 * (q + 1) - 4 + (j + 1)].part = j + 1
    BY <1>7, <2>3
  <2>5. f[d].part = j + 1
    BY <2>3, <2>4
  <2>. QED  BY <2>1, <2>3, <2>5, BadTyped
<1>9. ASSUME NEW k \in 1 .. K, NEW i \in 1 .. 4 PROVE f[4 * k - 4 + i] = CellOf(i, R[k])
  <2>1. 4 * k - 4 + i = d \/ f[4 * k - 4 + i] = CellOf(i, R[k])
    BY DEF Laid
  <2>2. 4 * k - 4 + i # 0
    OBVIOUS
  <2>. QED  BY <1>8, <2>1, <2>2
<1>10. /\ Healed(f) \in Seq(Cells) /\ Len(Healed(f)) = 4 * m
       /\ \A i \in 1 .. (4 * m) : Healed(f)[i] = f[i]
  BY <1>2, HealedIs
<1>11. /\ Payloads(f) \in Seq(Recs) /\ Len(Payloads(f)) = m
       /\ \A k \in 1 .. m : Payloads(f)[k] = f[4 * k - 3].r
  BY <1>2, PayloadsAre
<1>12. ASSUME NEW S \in Seq(Recs), Len(S) = m,
              \A k \in 1 .. m, i \in 1 .. 4 : f[4 * k - 4 + i] = CellOf(i, S[k])
       PROVE  Payloads(f) = S /\ Laid(Healed(f), S, r, 0, FALSE) /\ Len(Healed(f)) = 4 * Len(S)
  <2>1. ASSUME NEW k \in 1 .. m PROVE Payloads(f)[k] = S[k]
    <3>1. f[4 * k - 4 + 1] = CellOf(1, S[k]) /\ 4 * k - 4 + 1 = 4 * k - 3
      BY <1>12
    <3>. QED  BY <1>11, <3>1 DEF CellOf
  <2>2. Payloads(f) = S
    <3>. DEFINE P == Payloads(f)
    <3>1. P \in Seq(Recs) /\ Len(P) = Len(S) /\ \A k \in 1 .. Len(S) : P[k] = S[k]
      BY <1>11, <1>12, <2>1
    <3>. HIDE DEF P
    <3>2. P = S
      BY <3>1
    <3>. QED  BY <3>2 DEF P
  <2>3. ASSUME NEW k \in 1 .. m, NEW i \in 1 .. 4 PROVE Healed(f)[4 * k - 4 + i] = CellOf(i, S[k])
    <3>1. 4 * k - 4 + i \in 1 .. (4 * m)
      OBVIOUS
    <3>. QED  BY <1>10, <1>12, <3>1
  <2>4. ~ \E i \in 1 .. 4 : 4 * Len(S) + i <= Len(Healed(f))
    BY <1>10, <1>12
  <2>5. Laid(Healed(f), S, r, 0, FALSE)
    <3>1. 4 * Len(S) <= Len(Healed(f)) /\ Len(Healed(f)) <= 4 * Len(S) + 4
      BY <1>10, <1>12
    <3>. QED  BY <1>12, <2>3, <2>4, <3>1 DEF Laid
  <2>. QED  BY <1>10, <1>12, <2>2, <2>5
<1>13. CASE m = K
  BY <1>8, <1>9, <1>12, <1>13
<1>14. CASE m = K + 1
  <2>1. Len(f) = 4 * K + 4
    BY <1>1, <1>2, <1>3, <1>14
  <2>. DEFINE S == Append(R, r)
  <2>2. S \in Seq(Recs) /\ Len(S) = m /\ S[K + 1] = r /\ \A k \in 1 .. K : S[k] = R[k]
    BY <1>14, RefsOfAppend
  <2>. HIDE DEF S
  <2>3. ASSUME NEW k \in 1 .. m, NEW i \in 1 .. 4 PROVE f[4 * k - 4 + i] = CellOf(i, S[k])
    <3>1. CASE k \in 1 .. K
      BY <1>9, <2>2, <3>1
    <3>2. CASE k = K + 1
      <4>1. 4 * k - 4 + i = 4 * K + i /\ 4 * K + i <= Len(f)
        BY <1>1, <2>1, <3>2
      <4>2. f[4 * K + i] = CellOf(i, r) \/ f[4 * K + i] = Bad
        BY <4>1 DEF Laid
      <4>3. f[4 * k - 4 + i].part = i
        BY <1>7, Zenon
      <4>4. f[4 * K + i] # Bad
        BY <4>1, <4>3, BadTyped
      <4>. QED  BY <2>2, <3>2, <4>1, <4>2, <4>4
    <3>. QED  BY <1>1, <1>14, <3>1, <3>2
  <2>4. Payloads(f) = S /\ Laid(Healed(f), S, r, 0, FALSE) /\ Len(Healed(f)) = 4 * Len(S)
    BY <1>12, <2>2, <2>3
  <2>. QED  BY <1>8, <2>1, <2>2, <2>4 DEF S
<1>15. m = K \/ m = K + 1
  BY <1>1, <1>4, <1>5
<1>. QED  BY <1>13, <1>14, <1>15

\* A file nobody damaged is never taken for corruption.
LEMMA PeacefulReads ==
  ASSUME NEW f \in Seq(Cells), NEW R \in Seq(Recs), NEW r \in Recs, Laid(f, R, r, 0, FALSE)
  PROVE  ~Corrupt(f)
<1>. DEFINE K == Len(R)
<1>1. Len(f) \in Nat /\ K \in Nat
  OBVIOUS
<1>2. PICK m \in Nat : /\ BadStart(f) = 4 * m + 1 /\ 4 * m <= Len(f)
                       /\ BadStart(f) <= Len(f) => ~Readable(f, BadStart(f))
  BY BadStartIs
<1>3. 4 * K <= Len(f) /\ Len(f) <= 4 * K + 4
  BY DEF Laid
<1>. SUFFICES ASSUME BadStart(f) <= Len(f) PROVE Torn(f)
  BY DEF Corrupt
<1>4. ~Readable(f, 4 * m + 1) /\ 4 * m + 1 <= Len(f)
  BY <1>2
<1>5. K <= m
  <2>. SUFFICES ASSUME m < K PROVE FALSE
    BY <1>1
  <2>1. m + 1 \in 1 .. K /\ 4 * (m + 1) - 3 = 4 * m + 1 /\ 0 \notin (4 * (m + 1) - 3) .. (4 * (m + 1))
    BY <1>1
  <2>2. Readable(f, 4 * (m + 1) - 3)
    BY <2>1, LaidReads
  <2>. QED  BY <1>4, <2>1, <2>2
<1>6. m = K
  BY <1>1, <1>3, <1>4, <1>5
<1>7. \A i \in 1 .. 4 : 4 * K + i <= Len(f) => f[4 * K + i] = CellOf(i, r)
  BY DEF Laid
<1>8. Len(f) < 4 * K + 4
  <2>. SUFFICES ASSUME Len(f) = 4 * K + 4 PROVE FALSE
    BY <1>1, <1>3
  <2>1. \A i \in 1 .. 4 : f[(4 * K + 1) + i - 1] = CellOf(i, r)
    <3>. SUFFICES ASSUME NEW i \in 1 .. 4 PROVE f[(4 * K + 1) + i - 1] = CellOf(i, r)
      OBVIOUS
    <3>1. (4 * K + 1) + i - 1 = 4 * K + i /\ 4 * K + i <= Len(f)
      BY <1>1
    <3>. QED  BY <1>7, <3>1
  <2>2. 4 * K + 1 \in Nat /\ (4 * K + 1) + 3 <= Len(f)
    BY <1>1
  <2>3. Readable(f, 4 * K + 1)
    BY <2>1, <2>2, GoodFrame
  <2>. QED  BY <1>4, <1>6, <2>3
<1>9. ASSUME NEW i \in BadStart(f) .. Len(f) PROVE ~IsNewline(f[i])
  <2>1. i - 4 * K \in 1 .. 4 /\ 4 * K + (i - 4 * K) = i /\ i - 4 * K # 4 /\ i <= Len(f)
    BY <1>1, <1>2, <1>6, <1>8
  <2>2. f[i] = CellOf(i - 4 * K, r)
    BY <1>7, <2>1
  <2>. QED  BY <2>1, <2>2 DEF IsNewline, CellOf
<1>10. ~(BadStart(f) + 3 <= Len(f))
  BY <1>1, <1>2, <1>6, <1>8
<1>. QED  BY <1>9, <1>10 DEF Torn

-----------------------------------------------------------------------------
(* The third layer: what is in the files, and who has it in memory.        *)

Holding(p, l, R) == IF l = "journal" THEN mem[p][l] = R ELSE RefsOf(mem[p][l]) = RefsOf(R)

\* A process whose log is open: the file ends where its append has come to, and its memory is
\* what the file held before.
Serves(p, l, R, r, loose) ==
  /\ Len(file[l]) = 4 * Len(R) + Out(p, l)
  /\ At(p, l) # 0 => r = proc[p].job.r /\ ~loose /\ (l = "journal" => Follows(R, r))
  /\ Holding(p, l, R)

Solid(l, R, r, d, loose) ==
  /\ Laid(file[l], R, r, d, loose)
  /\ d # 0 => spent.damage = 1
  /\ loose => spent.damage + spent.cuts > 0
  /\ acked[l] \subseteq RefsOf(R)
  /\ l = "journal" => Hydrates(R)
  /\ l = "journal" /\ Len(file[l]) > 4 * Len(R) => Follows(R, r)
  /\ \A p \in Procs : Open(p, l) => Serves(p, l, R, r, loose)

Sound(l) == \E R \in Seq(Recs), r \in Recs, d \in Nat, loose \in BOOLEAN : Solid(l, R, r, d, loose)

\* With at most one damaged cell every log holds all that was acknowledged, in frames, and so
\* does the memory of every process that has replayed it.
SolidInv == spent.damage <= 1 => \A l \in Logs : Sound(l)
HeldInv ==
  spent.damage <= 1 =>
    \A p \in Procs, l \in Logs : Booted(p, l) => acked[l] \subseteq RefsOf(mem[p][l])

Deep == BaseInv /\ SolidInv /\ HeldInv /\ OnlyDamageRefuses

Spends == [deaths : Nat, cuts : Nat, damage : Nat, errors : Nat]

LEMMA SpentTyped ==
  ASSUME BaseInv
  PROVE  spent \in Spends /\ spent.damage \in Nat /\ spent.cuts \in Nat
<1>1. spent \in Spends
  BY DEF BaseInv, Shape, Spends
<1>. QED  BY <1>1 DEF Spends

\* A step that leaves a log and those who have it open alone leaves it sound.
LEMMA SolidKept ==
  ASSUME BaseInv, BaseInv', NEW l \in Logs,
         NEW R \in Seq(Recs), NEW r \in Recs, NEW d \in Nat, NEW loose \in BOOLEAN,
         Solid(l, R, r, d, loose), file'[l] = file[l], acked'[l] = acked[l],
         spent'.damage = spent.damage, spent'.cuts >= spent.cuts,
         \A p \in Procs : Open(p, l)' =>
           /\ Open(p, l) /\ At(p, l)' = At(p, l) /\ mem'[p][l] = mem[p][l]
           /\ At(p, l) # 0 => proc'[p].job.r = proc[p].job.r
  PROVE  Solid(l, R, r, d, loose)'
<1>1. Laid(file'[l], R, r, d, loose) /\ (d # 0 => spent'.damage = 1)
  BY DEF Solid
<1>2. loose => spent'.damage + spent'.cuts > 0
  <2>. SUFFICES ASSUME loose PROVE spent'.damage + spent'.cuts > 0
    OBVIOUS
  <2>1. spent.damage + spent.cuts > 0
    BY DEF Solid
  <2>2. spent.damage \in Nat /\ spent.cuts \in Nat /\ spent'.cuts \in Nat
    <3>1. spent' \in Spends
      BY DEF BaseInv, Shape, Spends
    <3>. QED  BY <3>1, SpentTyped DEF Spends
  <2>. QED  BY <2>1, <2>2
<1>3. /\ acked'[l] \subseteq RefsOf(R) /\ (l = "journal" => Hydrates(R))
      /\ (l = "journal" /\ Len(file'[l]) > 4 * Len(R) => Follows(R, r))
  BY DEF Solid
<1>4. ASSUME NEW p \in Procs, Open(p, l)' PROVE Serves(p, l, R, r, loose)'
  <2>1. Serves(p, l, R, r, loose) /\ At(p, l)' = At(p, l) /\ mem'[p][l] = mem[p][l]
        /\ (At(p, l) # 0 => proc'[p].job.r = proc[p].job.r)
    BY <1>4 DEF Solid
  <2>2. Out(p, l)' = Out(p, l)
    BY <2>1 DEF Out
  <2>3. Holding(p, l, R)'
    BY <2>1 DEF Serves, Holding
  <2>. QED  BY <2>1, <2>2, <2>3 DEF Serves
<1>. QED  BY <1>1, <1>2, <1>3, <1>4 DEF Solid

LEMMA SoundKept ==
  ASSUME BaseInv, BaseInv', NEW l \in Logs, Sound(l), file'[l] = file[l], acked'[l] = acked[l],
         spent'.damage = spent.damage, spent'.cuts >= spent.cuts,
         \A p \in Procs : Open(p, l)' =>
           /\ Open(p, l) /\ At(p, l)' = At(p, l) /\ mem'[p][l] = mem[p][l]
           /\ At(p, l) # 0 => proc'[p].job.r = proc[p].job.r
  PROVE  Sound(l)'
<1>1. PICK R \in Seq(Recs), r \in Recs, d \in Nat, loose \in BOOLEAN : Solid(l, R, r, d, loose)
  BY DEF Sound
<1>2. Solid(l, R, r, d, loose)'
  BY <1>1, SolidKept
<1>. QED  BY <1>2 DEF Sound

\* A process takes the lock: nobody has a log open, before or after.
LEMMA AcquireLockDeep ==
  ASSUME Deep, NEW p \in Procs, AcquireLock(p)
  PROVE  Deep'
<1>. USE DEF Deep
<1>1. BaseInv'
  BY AcquireLockBase
<1>2. /\ proc' = [proc EXCEPT ![p].at = "journal"] /\ proc[p].at = "down" /\ lock = Free
      /\ UNCHANGED <<file, mem, poisoned, acked, refused, spent>>
  BY DEF AcquireLock, LockFree
<1>3. \A q \in Procs : proc[q].at = "down"
  BY <1>2, LogAssumption DEF BaseInv, ProcInv
<1>4. \A q \in Procs : proc'[q].at \in {"down", "journal"}
  BY <1>2, <1>3 DEF BaseInv, Shape
<1>5. \A q \in Procs, l \in Logs : ~Booted(q, l)' /\ ~Open(q, l)'
  BY <1>4 DEF Booted, Open
<1>6. spent'.cuts >= spent.cuts
  BY <1>2, SpentTyped
<1>7. SolidInv'
  BY <1>1, <1>2, <1>5, <1>6, SoundKept DEF SolidInv
<1>8. HeldInv'
  BY <1>5 DEF HeldInv
<1>9. OnlyDamageRefuses'
  BY <1>2 DEF OnlyDamageRefuses
<1>. QED  BY <1>1, <1>7, <1>8, <1>9

\* A process leaves.
LEMMA LeavesDeep ==
  ASSUME Deep, NEW p \in Procs, proc[p].at # "down", BaseInv', proc' = [proc EXCEPT ![p] = Down],
         UNCHANGED <<file, acked>>, spent'.damage = spent.damage, spent'.cuts = spent.cuts
  PROVE  SolidInv' /\ HeldInv'
<1>. USE DEF Deep
<1>1. \A q \in Procs : proc'[q].at = "down"
  <2>1. proc'[p] = Down /\ \A q \in Procs \ {p} : proc'[q] = proc[q] /\ proc[q].at = "down"
    BY OnlyOne DEF BaseInv, Shape
  <2>. QED  BY <2>1, Idles
<1>2. \A q \in Procs, l \in Logs : ~Booted(q, l)' /\ ~Open(q, l)'
  BY <1>1 DEF Booted, Open
<1>3. spent'.cuts >= spent.cuts
  BY SpentTyped
<1>4. \A l \in Logs : Sound(l) => Sound(l)'
  BY <1>2, <1>3, SoundKept
<1>. QED  BY <1>2, <1>4 DEF SolidInv, HeldInv

LEMMA ExitDeep ==
  ASSUME Deep, NEW p \in Procs, Exit(p) \/ Kill(p)
  PROVE  Deep'
<1>1. BaseInv'
  BY ExitBase DEF Deep
<1>2. /\ proc[p].at # "down" /\ proc' = [proc EXCEPT ![p] = Down] /\ UNCHANGED <<file, acked, refused>>
  BY DEF Exit, Exits, Kill
<1>3. spent'.damage = spent.damage /\ spent'.cuts = spent.cuts
  <2>1. spent \in Spends
    BY SpentTyped DEF Deep
  <2>2. spent' = spent \/ spent' = [spent EXCEPT !.deaths = @ + 1]
    BY DEF Exit, Kill
  <2>. QED  BY <2>1, <2>2 DEF Spends
<1>4. SolidInv' /\ HeldInv'
  BY <1>1, <1>2, <1>3, LeavesDeep
<1>5. OnlyDamageRefuses'
  BY <1>2, <1>3 DEF Deep, OnlyDamageRefuses
<1>. QED  BY <1>1, <1>4, <1>5 DEF Deep

LEMMA UnlocksDeep ==
  ASSUME Deep, OperatorUnlocks
  PROVE  Deep'
<1>. USE DEF Deep
<1>1. BaseInv'
  BY UnlocksBase
<1>2. UNCHANGED <<file, proc, mem, poisoned, acked, refused, spent>>
  BY DEF OperatorUnlocks
<1>3. \A q \in Procs, l \in Logs : /\ Booted(q, l)' <=> Booted(q, l)
                                   /\ Open(q, l)' <=> Open(q, l)
                                   /\ At(q, l)' = At(q, l)
  BY <1>2 DEF Booted, Open, At
<1>4. spent'.cuts >= spent.cuts
  BY <1>2, SpentTyped
<1>5. \A l \in Logs : Sound(l) => Sound(l)'
  BY <1>1, <1>2, <1>3, <1>4, SoundKept
<1>. QED  BY <1>1, <1>2, <1>3, <1>5 DEF SolidInv, HeldInv, OnlyDamageRefuses

\* An append fails: its log is not open any more, the other one is as it was.
LEMMA AppendFailsDeep ==
  ASSUME Deep, NEW p \in Procs, AppendFails(p)
  PROVE  Deep'
<1>. USE DEF Deep
<1>. DEFINE j == proc[p].job
<1>1. BaseInv'
  BY AppendEndsBase
<1>2. /\ proc' = [proc EXCEPT ![p].job = NoJob] /\ UNCHANGED <<file, lock, mem, acked, refused>>
      /\ poisoned' = [poisoned EXCEPT ![p] = @ \cup {j.log}]
      /\ spent' = [spent EXCEPT !.errors = @ + 1]
  BY DEF AppendFails, Poisoned
<1>3. spent'.damage = spent.damage /\ spent'.cuts = spent.cuts /\ spent'.cuts >= spent.cuts
  <2>1. spent \in Spends
    BY SpentTyped
  <2>. QED  BY <1>2, <2>1, SpentTyped DEF Spends
<1>4. /\ proc'[p].at = proc[p].at /\ proc'[p].job = NoJob /\ \A q \in Procs \ {p} : proc'[q] = proc[q]
  BY <1>2 DEF BaseInv, Shape
<1>5. \A q \in Procs, l \in Logs : Booted(q, l)' <=> Booted(q, l)
  BY <1>4 DEF Booted
<1>6. poisoned'[p] = poisoned[p] \cup {j.log} /\ \A q \in Procs \ {p} : poisoned'[q] = poisoned[q]
  BY <1>2 DEF BaseInv, Shape
<1>7. ASSUME NEW l \in Logs, NEW q \in Procs, Open(q, l)'
      PROVE  /\ Open(q, l) /\ At(q, l)' = At(q, l) /\ (At(q, l) # 0 => proc'[q].job.r = proc[q].job.r)
  <2>1. CASE q # p
    BY <1>4, <1>5, <1>6, <1>7, <2>1 DEF Open, At
  <2>2. CASE q = p
    <3>1. l # j.log /\ Open(p, l)
      BY <1>5, <1>6, <1>7, <2>2 DEF Open
    <3>2. At(p, l) = 0 /\ At(p, l)' = 0
      BY <1>4, <3>1, Idles DEF At
    <3>. QED  BY <2>2, <3>1, <3>2
  <2>. QED  BY <2>1, <2>2
<1>8. \A l \in Logs : Sound(l) => Sound(l)'
  BY <1>1, <1>2, <1>3, <1>7, SoundKept
<1>. QED  BY <1>1, <1>2, <1>3, <1>5, <1>8 DEF SolidInv, HeldInv, OnlyDamageRefuses

-----------------------------------------------------------------------------
(* An append.                                                              *)

\* An append begins: what it will write follows the frames that are there.
LEMMA AppendBeginDeep ==
  ASSUME Deep, NEW p \in Procs, NEW l \in Logs, NEW ref \in Refs, AppendBegin(p, l, ref)
  PROVE  Deep'
<1>. USE DEF Deep
<1>. DEFINE x == [ref |-> ref, seq |-> IF l = "journal" THEN Len(mem[p][l]) ELSE 0]
            j == [log |-> l, off |-> 1, r |-> x]
<1>1. BaseInv'
  BY AppendBeginBase
<1>2. /\ proc[p].at = "up" /\ Idle(p) /\ l \notin poisoned[p] /\ proc' = [proc EXCEPT ![p].job = j]
      /\ l = "journal" => ~Holds(p, l, ref)
      /\ UNCHANGED <<file, lock, mem, poisoned, acked, refused, spent>>
  BY DEF AppendBegin
<1>3. x \in Recs /\ x.ref = ref /\ (l = "journal" => x.seq = Len(mem[p][l]))
  BY ShapeOf DEF Recs, BaseInv
<1>4. j.off = 1 /\ j.log = l /\ j.r = x
  OBVIOUS
<1>. HIDE DEF x, j
<1>5. proc'[p].job = j /\ proc'[p].at = "up" /\ \A q \in Procs \ {p} : proc'[q] = proc[q]
  BY <1>2 DEF BaseInv, Shape
<1>6. \A q \in Procs \ {p} : proc[q].at = "down"
  BY <1>2, OnlyOne DEF BaseInv
<1>7. \A q \in Procs, k \in Logs : (Booted(q, k)' <=> Booted(q, k)) /\ (Open(q, k)' <=> Open(q, k))
  BY <1>2, <1>5 DEF Booted, Open
<1>8. \A q \in Procs, k \in Logs : Open(q, k) => q = p
  BY <1>6 DEF Booted, Open
<1>9. spent'.cuts >= spent.cuts
  BY <1>2, SpentTyped
<1>10. \A k \in Logs : At(p, k) = 0
  BY <1>2, Idles DEF At, Idle
<1>11. ASSUME NEW k \in Logs, k # l, Sound(k) PROVE Sound(k)'
  <2>1. At(p, k)' = 0
    BY <1>4, <1>5, <1>11 DEF At
  <2>. QED  BY <1>1, <1>2, <1>7, <1>8, <1>9, <1>10, <1>11, <2>1, SoundKept
<1>12. ASSUME Sound(l) PROVE Sound(l)'
  <2>0. PICK y \in Recs : y = x
    BY <1>3
  <2>1. PICK R \in Seq(Recs), r \in Recs, d \in Nat, loose \in BOOLEAN : Solid(l, R, r, d, loose)
    BY <1>12 DEF Sound
  <2>2. Serves(p, l, R, r, loose) /\ Out(p, l) = 0 /\ Len(R) \in Nat
    BY <1>2, <1>10, <2>1 DEF Solid, Open, Booted, Out
  <2>3. Len(file[l]) = 4 * Len(R)
    BY <2>2 DEF Serves
  <2>4. Laid(file[l], R, y, d, FALSE)
    <3>1. ~ \E i \in 1 .. 4 : 4 * Len(R) + i <= Len(file[l])
      BY <2>2, <2>3
    <3>2. Laid(file[l], R, r, d, loose)
      BY <2>1 DEF Solid
    <3>. QED  BY <3>1, <3>2 DEF Laid
  <2>5. l = "journal" => Follows(R, y)
    <3>. SUFFICES ASSUME l = "journal" PROVE Follows(R, y)
      OBVIOUS
    <3>1. mem[p][l] = R
      BY <2>2 DEF Serves, Holding
    <3>. QED  BY <1>2, <1>3, <2>0, <3>1 DEF Follows, Holds, RefsOf
  <2>6. At(p, l)' = 1 /\ Out(p, l)' = 0
    BY <1>4, <1>5 DEF At, Out
  <2>7. Holding(p, l, R)'
    BY <1>2, <2>2 DEF Holding, Serves
  <2>8. Serves(p, l, R, y, FALSE)'
    BY <1>2, <1>4, <1>5, <2>0, <2>2, <2>3, <2>5, <2>6, <2>7 DEF Serves
  <2>9. /\ d # 0 => spent.damage = 1
        /\ acked[l] \subseteq RefsOf(R)
        /\ l = "journal" => Hydrates(R)
    BY <2>1 DEF Solid
  <2>10. \A q \in Procs : Open(q, l)' => Serves(q, l, R, y, FALSE)'
    BY <1>7, <1>8, <2>8
  <2>11. Solid(l, R, y, d, FALSE)'
    BY <1>2, <2>4, <2>5, <2>9, <2>10 DEF Solid
  <2>. QED  BY <2>11 DEF Sound
<1>13. SolidInv'
  BY <1>2, <1>11, <1>12 DEF SolidInv
<1>. QED  BY <1>1, <1>2, <1>7, <1>13 DEF HeldInv, OnlyDamageRefuses

\* One write lays more of the frame.
LEMMA LaidMore ==
  ASSUME NEW f \in Seq(Cells), NEW g \in Seq(Cells), NEW R \in Seq(Recs), NEW r \in Recs, NEW d \in Nat,
         Laid(f, R, r, d, FALSE), NEW a \in 1 .. 4, NEW n \in 1 .. 4, a <= n,
         Len(f) = 4 * Len(R) + (a - 1), Len(g) = Len(f) + (n + 1 - a),
         \A i \in 1 .. Len(f) : g[i] = f[i],
         \A i \in a .. n : g[Len(f) + (i + 1 - a)] = CellOf(i, r)
  PROVE  Laid(g, R, r, d, FALSE)
<1>1. Len(f) \in Nat /\ Len(R) \in Nat /\ Len(g) = 4 * Len(R) + n
  OBVIOUS
<1>2. ASSUME NEW k \in 1 .. Len(R), NEW i \in 1 .. 4
      PROVE  4 * k - 4 + i = d \/ g[4 * k - 4 + i] = CellOf(i, R[k])
  <2>1. 4 * k - 4 + i \in 1 .. Len(f)
    BY <1>1
  <2>2. 4 * k - 4 + i = d \/ f[4 * k - 4 + i] = CellOf(i, R[k])
    BY DEF Laid
  <2>. QED  BY <2>1, <2>2
<1>3. d # 0 => d \in 1 .. (4 * Len(R)) /\ g[d] = Bad
  <2>. SUFFICES ASSUME d # 0 PROVE d \in 1 .. (4 * Len(R)) /\ g[d] = Bad
    OBVIOUS
  <2>1. d \in 1 .. (4 * Len(R)) /\ f[d] = Bad
    BY DEF Laid
  <2>2. d \in 1 .. Len(f)
    BY <1>1, <2>1
  <2>. QED  BY <2>1, <2>2
<1>4. ASSUME NEW i \in 1 .. 4, 4 * Len(R) + i <= Len(g) PROVE g[4 * Len(R) + i] = CellOf(i, r)
  <2>1. CASE i < a
    <3>1. 4 * Len(R) + i \in 1 .. Len(f) /\ 4 * Len(R) + i <= Len(f)
      BY <1>1, <2>1, SMTT(30)
    <3>2. f[4 * Len(R) + i] = CellOf(i, r)
      BY <3>1 DEF Laid
    <3>. QED  BY <3>1, <3>2
  <2>2. CASE i >= a
    <3>1. i \in a .. n /\ Len(f) + (i + 1 - a) = 4 * Len(R) + i
      BY <1>1, <1>4, <2>2
    <3>. QED  BY <3>1
  <2>. QED  BY <2>1, <2>2
<1>5. 4 * Len(R) <= Len(g) /\ Len(g) <= 4 * Len(R) + 4
  BY <1>1
<1>. QED  BY <1>2, <1>3, <1>4, <1>5 DEF Laid

\* A write lays more of that frame.
LEMMA WriteSomeDeep ==
  ASSUME Deep, NEW p \in Procs, WriteSome(p)
  PROVE  Deep'
<1>. USE DEF Deep
<1>. DEFINE j == proc[p].job
            l == j.log
            f == file[l]
            g == file'[l]
<1>1. BaseInv'
  BY WriteSomeBase
<1>2. /\ j.off \in 1 .. 4 /\ proc[p].at = "up" /\ l \in Logs /\ j.r \in Recs
      /\ UNCHANGED <<lock, mem, poisoned, acked, refused, spent>>
  BY WriteAdds
<1>3. PICK n \in j.off .. 4 :
        /\ proc' = [proc EXCEPT ![p].job.off = n + 1]
        /\ file' = [file EXCEPT ![l] = g] /\ g \in Seq(Cells)
        /\ Len(g) = Len(f) + (n + 1 - j.off)
        /\ \A i \in 1 .. Len(f) : g[i] = f[i]
        /\ \A i \in j.off .. n : g[Len(f) + (i + 1 - j.off)] = CellOf(i, j.r)
  BY WriteAdds
<1>4. n \in 1 .. 4 /\ j.off <= n
  BY <1>2, <1>3
<1>5. /\ proc'[p].at = "up" /\ proc'[p].job.off = n + 1 /\ proc'[p].job.log = l
      /\ proc'[p].job.r = j.r
      /\ \A q \in Procs \ {p} : proc'[q] = proc[q]
  BY <1>2, <1>3 DEF BaseInv, Shape, Jobs
<1>6. \A k \in Logs \ {l} : file'[k] = file[k]
  BY <1>2, <1>3 DEF BaseInv, Shape
<1>7. \A q \in Procs, k \in Logs : (Booted(q, k)' <=> Booted(q, k)) /\ (Open(q, k)' <=> Open(q, k))
  BY <1>2, <1>5 DEF Booted, Open
<1>8. \A q \in Procs, k \in Logs : Open(q, k) => q = p
  BY <1>2, OnlyOne DEF Booted, Open, BaseInv
<1>9. spent'.cuts >= spent.cuts
  BY <1>2, SpentTyped
<1>10. ASSUME NEW k \in Logs, k # l, Sound(k) PROVE Sound(k)'
  <2>1. At(p, k)' = 0 /\ At(p, k) = 0
    BY <1>5, <1>10 DEF At
  <2>2. file'[k] = file[k]
    BY <1>6, <1>10
  <2>. HIDE DEF l
  <2>. QED  BY <1>1, <1>2, <1>7, <1>8, <1>9, <1>10, <2>1, <2>2, SoundKept
<1>11. ASSUME NEW k \in Logs, k = l, Sound(k) PROVE Sound(k)'
  <2>1. PICK R \in Seq(Recs), r \in Recs, d \in Nat, loose \in BOOLEAN : Solid(k, R, r, d, loose)
    BY <1>11 DEF Sound
  <2>2. At(p, k) = j.off /\ At(p, k) # 0 /\ Out(p, k) = j.off - 1 /\ At(p, k)' = n + 1 /\ Open(p, k)
    BY <1>2, <1>5, <1>11 DEF At, Out, Open, Booted, BaseInv, ProcInv
  <2>3. Out(p, k)' = n
    BY <1>4, <2>2 DEF Out
  <2>4. Serves(p, k, R, r, loose)
    BY <2>1, <2>2 DEF Solid
  <2>5. r = j.r /\ ~loose /\ (k = "journal" => Follows(R, r)) /\ Len(f) = 4 * Len(R) + (j.off - 1)
        /\ Holding(p, k, R)
    BY <1>11, <2>2, <2>4 DEF Serves
  <2>6. Laid(f, R, r, d, FALSE)
    <3>1. Laid(f, R, r, d, loose) /\ loose = FALSE
      BY <1>11, <2>1, <2>5 DEF Solid
    <3>. QED  BY <3>1
  <2>7. f \in Seq(Cells) /\ Len(R) \in Nat
    BY <1>2 DEF BaseInv, Shape
  <2>8. Laid(g, R, r, d, FALSE)
    <3>. DEFINE a == j.off
    <3>1. a \in 1 .. 4 /\ a <= n /\ Len(f) = 4 * Len(R) + (a - 1) /\ Len(g) = Len(f) + (n + 1 - a)
          /\ \A i \in 1 .. Len(f) : g[i] = f[i]
      BY <1>2, <1>3, <1>4, <2>5
    <3>2. \A i \in a .. n : g[Len(f) + (i + 1 - a)] = CellOf(i, r)
      BY <1>3, <2>5
    <3>. HIDE DEF a, j, l, f, g
    <3>. QED  BY <1>3, <1>4, <2>6, <2>7, <3>1, <3>2, LaidMore
  <2>9. Len(g) = 4 * Len(R) + n
    <3>. DEFINE a == j.off
    <3>1. a \in 1 .. 4 /\ Len(f) = 4 * Len(R) + (a - 1) /\ Len(g) = Len(f) + (n + 1 - a)
      BY <1>2, <1>3, <2>5
    <3>. HIDE DEF a, j, l, f, g
    <3>. QED  BY <1>4, <2>7, <3>1
  <2>10. Holding(p, k, R)'
    BY <1>2, <2>5 DEF Holding
  <2>11. file'[k] = g
    BY <1>11
  <2>. HIDE DEF g
  <2>12. Serves(p, k, R, r, FALSE)'
    <3>1. Len(file'[k]) = 4 * Len(R) + Out(p, k)'
      BY <2>3, <2>9, <2>11
    <3>2. r = proc'[p].job.r /\ (k = "journal" => Follows(R, r))
      BY <1>5, <2>5
    <3>. QED  BY <2>10, <3>1, <3>2 DEF Serves
  <2>13. \A q \in Procs : Open(q, k)' => Serves(q, k, R, r, FALSE)'
    BY <1>7, <1>8, <2>12
  <2>14. /\ d # 0 => spent.damage = 1
         /\ acked[k] \subseteq RefsOf(R)
         /\ k = "journal" => Hydrates(R)
    BY <2>1 DEF Solid
  <2>15. Solid(k, R, r, d, FALSE)'
    BY <1>2, <2>5, <2>8, <2>11, <2>13, <2>14 DEF Solid
  <2>. QED  BY <2>15 DEF Sound
<1>12. SolidInv'
  BY <1>2, <1>10, <1>11 DEF SolidInv
<1>. QED  BY <1>1, <1>2, <1>7, <1>12 DEF HeldInv, OnlyDamageRefuses

\* The whole frame is out: it is one of the frames now.
LEMMA LaidDone ==
  ASSUME NEW f \in Seq(Cells), NEW R \in Seq(Recs), NEW r \in Recs, NEW d \in Nat,
         Laid(f, R, r, d, FALSE), Len(f) = 4 * Len(R) + 4
  PROVE  Laid(f, Append(R, r), r, d, FALSE)
<1>. DEFINE S == Append(R, r)
<1>1. Len(R) \in Nat /\ Len(S) = Len(R) + 1 /\ S[Len(R) + 1] = r /\ \A k \in 1 .. Len(R) : S[k] = R[k]
  BY RefsOfAppend
<1>. HIDE DEF S
<1>2. ASSUME NEW k \in 1 .. Len(S), NEW i \in 1 .. 4
      PROVE  4 * k - 4 + i = d \/ f[4 * k - 4 + i] = CellOf(i, S[k])
  <2>1. CASE k \in 1 .. Len(R)
    BY <1>1, <2>1 DEF Laid
  <2>2. CASE k = Len(R) + 1
    <3>1. 4 * k - 4 + i = 4 * Len(R) + i /\ 4 * Len(R) + i <= Len(f)
      BY <1>1, <2>2
    <3>2. f[4 * Len(R) + i] = CellOf(i, r)
      BY <3>1 DEF Laid
    <3>. QED  BY <1>1, <2>2, <3>1, <3>2
  <2>. QED  BY <1>1, <2>1, <2>2
<1>3. d # 0 => d \in 1 .. (4 * Len(S)) /\ f[d] = Bad
  <2>. SUFFICES ASSUME d # 0 PROVE d \in 1 .. (4 * Len(S)) /\ f[d] = Bad
    OBVIOUS
  <2>1. d \in 1 .. (4 * Len(R)) /\ f[d] = Bad
    BY DEF Laid
  <2>. QED  BY <1>1, <2>1
<1>4. Len(f) = 4 * Len(S) /\ ~ \E i \in 1 .. 4 : 4 * Len(S) + i <= Len(f)
  BY <1>1
<1>5. 4 * Len(S) <= Len(f) /\ Len(f) <= 4 * Len(S) + 4
  BY <1>1, <1>4
<1>6. Laid(f, S, r, d, FALSE)
  BY <1>2, <1>3, <1>4, <1>5 DEF Laid
<1>. QED  BY <1>6 DEF S

\* An append returns: its frame is one of the frames, its ref is acknowledged and in memory.
LEMMA AppendReturnsDeep ==
  ASSUME Deep, NEW p \in Procs, AppendReturns(p)
  PROVE  Deep'
<1>. USE DEF Deep
<1>0. PICK j \in Jobs : j = proc[p].job
  BY JobTyped DEF BaseInv
<1>. DEFINE l == j.log
<1>1. BaseInv'
  BY AppendEndsBase
<1>2. j.off = 5 /\ l \in Logs /\ j.r \in Recs /\ proc[p].at = "up" /\ l \notin poisoned[p]
  BY <1>0 DEF AppendReturns, MayReturn, BaseInv, ProcInv, Jobs
<1>3. /\ acked' = [acked EXCEPT ![l] = @ \cup {j.r.ref}] /\ mem' = [mem EXCEPT ![p][l] = Append(@, j.r)]
      /\ proc' = [proc EXCEPT ![p].job = NoJob] /\ UNCHANGED <<file, lock, poisoned, refused, spent>>
  BY <1>0 DEF AppendReturns
<1>4. /\ proc'[p].at = "up" /\ proc'[p].job = NoJob /\ \A q \in Procs \ {p} : proc'[q] = proc[q]
  BY <1>2, <1>3 DEF BaseInv, Shape
<1>5. /\ acked'[l] = acked[l] \cup {j.r.ref} /\ \A k \in Logs \ {l} : acked'[k] = acked[k]
  BY <1>2, <1>3 DEF BaseInv, Shape
<1>6. /\ mem'[p][l] = Append(mem[p][l], j.r) /\ \A k \in Logs \ {l} : mem'[p][k] = mem[p][k]
  BY <1>2, <1>3 DEF BaseInv, Shape
<1>7. \A q \in Procs, k \in Logs : (Booted(q, k)' <=> Booted(q, k)) /\ (Open(q, k)' <=> Open(q, k))
  BY <1>2, <1>3, <1>4 DEF Booted, Open
<1>8. \A q \in Procs, k \in Logs : Booted(q, k) \/ Open(q, k) => q = p
  BY <1>2, OnlyOne DEF Booted, Open, BaseInv
<1>9. spent'.cuts >= spent.cuts
  BY <1>3, SpentTyped
<1>10. \A k \in Logs : At(p, k)' = 0 /\ Out(p, k)' = 0
  BY <1>4, Idles DEF At, Out
<1>11. mem[p][l] \in Seq(Recs)
  BY <1>2, ShapeOf DEF BaseInv
<1>12. RefsOf(mem'[p][l]) = RefsOf(mem[p][l]) \cup {j.r.ref}
  BY <1>2, <1>6, <1>11, RefsOfAppend
<1>. HIDE DEF l
<1>13. ASSUME NEW k \in Logs, k # l, Sound(k) PROVE Sound(k)'
  <2>1. At(p, k) = 0
    BY <1>0, <1>13 DEF At, l
  <2>2. acked'[k] = acked[k] /\ mem'[p][k] = mem[p][k]
    BY <1>5, <1>6, <1>13
  <2>. QED  BY <1>1, <1>3, <1>7, <1>8, <1>9, <1>10, <1>13, <2>1, <2>2, SoundKept
<1>14. ASSUME Sound(l) PROVE Sound(l)'
  <2>1. PICK R \in Seq(Recs), r \in Recs, d \in Nat, loose \in BOOLEAN : Solid(l, R, r, d, loose)
    BY <1>14 DEF Sound
  <2>2. At(p, l) = 5 /\ Out(p, l) = 4 /\ Open(p, l)
    BY <1>0, <1>2 DEF At, Out, Open, Booted, l
  <2>3. Serves(p, l, R, r, loose)
    BY <2>1, <2>2 DEF Solid
  <2>4. r = j.r /\ ~loose /\ (l = "journal" => Follows(R, r)) /\ Len(file[l]) = 4 * Len(R) + 4
        /\ Holding(p, l, R)
    BY <1>0, <2>2, <2>3 DEF Serves
  <2>5. Laid(file[l], R, r, d, FALSE)
    <3>1. Laid(file[l], R, r, d, loose) /\ loose = FALSE
      BY <2>1, <2>4 DEF Solid
    <3>. QED  BY <3>1
  <2>. DEFINE S == Append(R, r)
  <2>6. S \in Seq(Recs) /\ Len(S) = Len(R) + 1 /\ RefsOf(S) = RefsOf(R) \cup {r.ref} /\ Len(R) \in Nat
    BY RefsOfAppend
  <2>7. file[l] \in Seq(Cells)
    BY <1>2 DEF BaseInv, Shape
  <2>8. Laid(file[l], S, r, d, FALSE) /\ Len(file[l]) = 4 * Len(S) /\ ~(Len(file[l]) > 4 * Len(S))
    <3>1. Laid(file[l], S, r, d, FALSE)
      BY <2>4, <2>5, <2>7, LaidDone
    <3>. HIDE DEF S
    <3>2. Len(file[l]) = 4 * Len(S)
      BY <2>4, <2>6
    <3>3. ~(Len(file[l]) > 4 * Len(S))
      <4>1. Len(S) \in Nat
        BY <2>6
      <4>. QED  BY <3>2, <4>1
    <3>. QED  BY <3>1, <3>2, <3>3
  <2>9. l = "journal" => Hydrates(S)
    BY <2>1, <2>4, HydratesAppend DEF Solid
  <2>10. Holding(p, l, S)'
    <3>1. CASE l = "journal"
      BY <1>6, <2>4, <3>1 DEF Holding
    <3>2. CASE l # "journal"
      BY <1>12, <2>4, <2>6, <3>2 DEF Holding
    <3>. QED  BY <3>1, <3>2
  <2>. HIDE DEF S
  <2>11. Serves(p, l, S, r, FALSE)'
    <3>1. Len(file'[l]) = 4 * Len(S) + Out(p, l)'
      BY <1>2, <1>3, <1>10, <2>6, <2>8
    <3>2. At(p, l)' = 0
      BY <1>2, <1>10
    <3>. QED  BY <2>10, <3>1, <3>2 DEF Serves
  <2>12. \A q \in Procs : Open(q, l)' => Serves(q, l, S, r, FALSE)'
    BY <1>2, <1>7, <1>8, <2>11
  <2>13. (d # 0 => spent.damage = 1) /\ acked'[l] \subseteq RefsOf(S)
    BY <1>5, <2>1, <2>4, <2>6 DEF Solid
  <2>14. Solid(l, S, r, d, FALSE)'
    BY <1>3, <2>8, <2>9, <2>12, <2>13 DEF Solid
  <2>. QED  BY <2>6, <2>14 DEF Sound
<1>15. SolidInv'
  BY <1>2, <1>3, <1>13, <1>14 DEF SolidInv, l
<1>16. HeldInv'
  <2>. SUFFICES ASSUME spent.damage <= 1, NEW k \in Logs, Booted(p, k)
                PROVE  acked'[k] \subseteq RefsOf(mem'[p][k])
    BY <1>3, <1>7, <1>8 DEF HeldInv
  <2>1. acked[k] \subseteq RefsOf(mem[p][k])
    BY DEF HeldInv
  <2>2. CASE k = l
    BY <1>5, <1>12, <2>1, <2>2
  <2>3. CASE k # l
    BY <1>5, <1>6, <2>1, <2>3
  <2>. QED  BY <2>2, <2>3
<1>17. OnlyDamageRefuses'
  BY <1>3 DEF OnlyDamageRefuses
<1>. QED  BY <1>1, <1>15, <1>16, <1>17

-----------------------------------------------------------------------------
(* A boot.                                                                 *)

\* A boot that refuses has met damage or a power cut.
LEMMA RefusesFor ==
  ASSUME Deep, NEW l \in Logs,
         Corrupt(file[l]) \/ (l = "journal" /\ ~Hydrates(Replayed(l, file[l])))
  PROVE  spent.damage + spent.cuts > 0
<1>. DEFINE f == file[l]
<1>1. spent.damage \in Nat /\ spent.cuts \in Nat /\ f \in Seq(Cells)
  BY SpentTyped DEF Deep, BaseInv, Shape
<1>. SUFFICES ASSUME spent.damage = 0, spent.cuts = 0 PROVE FALSE
  BY <1>1
<1>2. PICK R \in Seq(Recs), r \in Recs, d \in Nat, loose \in BOOLEAN : Solid(l, R, r, d, loose)
  BY DEF Deep, SolidInv, Sound
<1>3. d = 0 /\ ~loose /\ Laid(f, R, r, d, loose)
  BY <1>2 DEF Solid
<1>4. Laid(f, R, r, 0, FALSE)
  <2>1. loose = FALSE
    BY <1>3
  <2>. QED  BY <1>3, <2>1
<1>. HIDE DEF f
<1>5. ~Corrupt(f)
  BY <1>1, <1>4, PeacefulReads
<1>6. PICK S \in Seq(Recs) : /\ S = R \/ (S = Append(R, r) /\ Len(f) = 4 * Len(R) + 4)
                             /\ Payloads(f) = S
  BY <1>1, <1>4, <1>5, ReplayReads
<1>7. l = "journal"
  BY <1>5 DEF f
<1>8. Hydrates(S)
  <2>1. CASE S = R
    BY <1>2, <1>7, <2>1 DEF Solid
  <2>2. CASE S = Append(R, r) /\ Len(f) = 4 * Len(R) + 4
    <3>1. Len(f) > 4 * Len(R)
      BY <2>2
    <3>2. Follows(R, r) /\ Hydrates(R)
      BY <1>2, <1>7, <3>1 DEF Solid, f
    <3>. QED  BY <2>2, <3>2, HydratesAppend
  <2>. QED  BY <1>6, <2>1, <2>2
<1>9. Replayed(l, f) = S
  BY <1>6, <1>7 DEF Replayed
<1>. QED  BY <1>5, <1>8, <1>9 DEF f

\* What a boot that goes on makes of a log.
LEMMA ReplaySound ==
  ASSUME BaseInv, NEW l \in Logs, Sound(l), ~Corrupt(file[l])
  PROVE  \E S \in Seq(Recs), r \in Recs :
           /\ Laid(Healed(file[l]), S, r, 0, FALSE) /\ Len(Healed(file[l])) = 4 * Len(S)
           /\ acked[l] \subseteq RefsOf(S)
           /\ l = "journal" => Replayed(l, file[l]) = S
           /\ RefsOf(Replayed(l, file[l])) = RefsOf(S)
<1>. DEFINE f == file[l]
<1>1. f \in Seq(Cells)
  BY DEF BaseInv, Shape
<1>2. PICK R \in Seq(Recs), r \in Recs, d \in Nat, loose \in BOOLEAN : Solid(l, R, r, d, loose)
  BY DEF Sound
<1>3. Laid(f, R, r, d, loose) /\ acked[l] \subseteq RefsOf(R)
  BY <1>2 DEF Solid
<1>. HIDE DEF f
<1>4. PICK S \in Seq(Recs) : /\ S = R \/ (S = Append(R, r) /\ Len(f) = 4 * Len(R) + 4)
                             /\ Payloads(f) = S /\ Laid(Healed(f), S, r, 0, FALSE)
                             /\ Len(Healed(f)) = 4 * Len(S)
  BY <1>1, <1>3, ReplayReads DEF f
<1>5. acked[l] \subseteq RefsOf(S)
  <2>1. RefsOf(Append(R, r)) = RefsOf(R) \cup {r.ref}
    BY RefsOfAppend
  <2>. QED  BY <1>3, <1>4, <2>1
<1>6. CASE l = "journal"
  BY <1>4, <1>5, <1>6 DEF Replayed, f
<1>7. CASE l = "evidence"
  <2>1. RefsOf(DedupeEvidence(S)) = RefsOf(S)
    BY DedupeIs DEF RefsOf
  <2>. QED  BY <1>4, <1>5, <1>7, <2>1 DEF Replayed, f
<1>. QED  BY <1>6, <1>7 DEF Logs

\* A boot reads what it acknowledged before, or refuses and had a reason.
LEMMA ReplayDeep ==
  ASSUME Deep, NEW p \in Procs, Replay(p)
  PROVE  Deep'
<1>. USE DEF Deep
<1>0. PICK l \in Logs : l = proc[p].at
  BY DEF Replay
<1>. DEFINE f == file[l]
            entries == Replayed(l, f)
<1>1. BaseInv'
  BY ReplayBase
<1>2. l # "down" /\ l # "up" /\ f \in Seq(Cells) /\ UNCHANGED <<acked, spent>>
  BY <1>0 DEF Replay, Logs, BaseInv, Shape
<1>3. CASE Corrupt(f) \/ (l = "journal" /\ ~Hydrates(entries))
  <2>1. Exits(p) /\ UNCHANGED file
    BY <1>0, <1>3 DEF Replay
  <2>2. spent.damage + spent.cuts > 0
    BY <1>3, RefusesFor
  <2>3. SolidInv' /\ HeldInv'
    BY <1>0, <1>1, <1>2, <2>1, LeavesDeep DEF Exits
  <2>. QED  BY <1>1, <1>2, <2>2, <2>3 DEF OnlyDamageRefuses
<1>4. CASE ~(Corrupt(f) \/ (l = "journal" /\ ~Hydrates(entries)))
  <2>1. /\ file' = [file EXCEPT ![l] = Healed(f)] /\ mem' = [mem EXCEPT ![p][l] = entries]
        /\ proc' = [proc EXCEPT ![p].at = IF l = "journal" THEN "evidence" ELSE "up"]
        /\ UNCHANGED <<lock, poisoned, refused>>
    BY <1>0, <1>4 DEF Replay
  <2>. HIDE DEF f, entries
  <2>2. file'[l] = Healed(f) /\ \A k \in Logs \ {l} : file'[k] = file[k]
    BY <2>1 DEF BaseInv, Shape
  <2>3. mem'[p][l] = entries /\ \A k \in Logs \ {l} : mem'[p][k] = mem[p][k]
    BY <2>1 DEF BaseInv, Shape
  <2>4. /\ proc'[p].at = (IF l = "journal" THEN "evidence" ELSE "up") /\ proc'[p].job = NoJob
        /\ proc[p].job = NoJob
        /\ \A q \in Procs \ {p} : proc'[q] = proc[q] /\ proc[q].at = "down"
    <3>1. \A q \in Procs \ {p} : proc[q].at = "down"
      BY <1>0, <1>2, OnlyOne DEF BaseInv
    <3>2. proc[p].job = NoJob
      BY <1>0, <1>2, JobTyped DEF BaseInv, ProcInv
    <3>. QED  BY <2>1, <3>1, <3>2 DEF BaseInv, Shape
  <2>5. \A k \in Logs : At(p, k) = 0 /\ At(p, k)' = 0 /\ Out(p, k)' = 0
    BY <2>4, Idles DEF At, Out
  <2>6. \A q \in Procs, k \in Logs : Booted(q, k)' \/ Open(q, k)' => q = p
    BY <2>4 DEF Booted, Open
  <2>7. \A k \in Logs \ {l} : (Booted(p, k)' => Booted(p, k)) /\ (Open(p, k)' => Open(p, k))
    BY <1>0, <2>1, <2>4 DEF Booted, Open, Logs
  <2>8. spent'.cuts >= spent.cuts
    BY <1>2, SpentTyped
  <2>9. ASSUME NEW k \in Logs, k # l, Sound(k) PROVE Sound(k)'
    BY <1>1, <1>2, <2>2, <2>3, <2>5, <2>6, <2>7, <2>8, <2>9, SoundKept
  <2>10. ASSUME Sound(l) PROVE Sound(l)' /\ acked[l] \subseteq RefsOf(mem'[p][l])
    <3>1. PICK S \in Seq(Recs), r \in Recs :
           /\ Laid(Healed(f), S, r, 0, FALSE) /\ Len(Healed(f)) = 4 * Len(S)
           /\ acked[l] \subseteq RefsOf(S)
           /\ l = "journal" => entries = S
           /\ RefsOf(entries) = RefsOf(S)
      BY <1>4, <2>10, ReplaySound DEF f, entries
    <3>2. Len(S) \in Nat
      OBVIOUS
    <3>3. Holding(p, l, S)'
      BY <2>3, <3>1 DEF Holding
    <3>4. Serves(p, l, S, r, FALSE)'
      BY <2>2, <2>5, <3>1, <3>2, <3>3 DEF Serves
    <3>5. \A q \in Procs : Open(q, l)' => Serves(q, l, S, r, FALSE)'
      BY <2>6, <3>4
    <3>6. l = "journal" => Hydrates(S)
      BY <1>4, <3>1
    <3>7. ~(Len(file'[l]) > 4 * Len(S))
      BY <2>2, <3>1, <3>2
    <3>8. Solid(l, S, r, 0, FALSE)'
      BY <1>2, <2>2, <3>1, <3>5, <3>6, <3>7 DEF Solid
    <3>9. Sound(l)'
      BY <3>8 DEF Sound
    <3>. QED  BY <2>3, <3>1, <3>9
  <2>11. SolidInv'
    BY <1>2, <2>9, <2>10 DEF SolidInv
  <2>12. HeldInv'
    <3>. SUFFICES ASSUME spent.damage <= 1, NEW k \in Logs, Booted(p, k)'
                  PROVE  acked[k] \subseteq RefsOf(mem'[p][k])
      BY <1>2, <2>6 DEF HeldInv
    <3>1. CASE k = l
      BY <2>10, <3>1 DEF SolidInv
    <3>2. CASE k # l
      BY <2>3, <2>7, <3>2 DEF HeldInv
    <3>. QED  BY <3>1, <3>2
  <2>. QED  BY <1>1, <1>2, <2>1, <2>11, <2>12 DEF OnlyDamageRefuses
<1>. QED  BY <1>3, <1>4

-----------------------------------------------------------------------------
(* Damage and power cuts.                                                  *)

\* One cell goes bad: among the frames it is the scar, after them it is a hole.
LEMMA LaidScarred ==
  ASSUME NEW f \in Seq(Cells), NEW g \in Seq(Cells), NEW R \in Seq(Recs), NEW r \in Recs, NEW loose,
         Laid(f, R, r, 0, loose), NEW c \in 1 .. Len(f), Len(g) = Len(f), g[c] = Bad,
         \A i \in 1 .. Len(f) : i # c => g[i] = f[i]
  PROVE  IF c <= 4 * Len(R) THEN Laid(g, R, r, c, loose) ELSE Laid(g, R, r, 0, TRUE)
<1>1. Len(f) \in Nat /\ Len(R) \in Nat /\ 4 * Len(R) <= Len(f) /\ Len(f) <= 4 * Len(R) + 4
  BY DEF Laid
<1>2. ASSUME NEW k \in 1 .. Len(R), NEW i \in 1 .. 4
      PROVE  4 * k - 4 + i \in 1 .. Len(f) /\ f[4 * k - 4 + i] = CellOf(i, R[k]) /\ 4 * k - 4 + i <= 4 * Len(R)
  <2>1. 4 * k - 4 + i = 0 \/ f[4 * k - 4 + i] = CellOf(i, R[k])
    BY DEF Laid
  <2>2. 4 * k - 4 + i \in 1 .. Len(f) /\ 4 * k - 4 + i <= 4 * Len(R)
    BY <1>1
  <2>. QED  BY <2>1, <2>2
<1>3. \A i \in 1 .. 4 : 4 * Len(R) + i <= Len(f) =>
        f[4 * Len(R) + i] = CellOf(i, r) \/ (loose /\ f[4 * Len(R) + i] = Bad)
  BY DEF Laid
<1>4. CASE c <= 4 * Len(R)
  <2>1. \A k \in 1 .. Len(R), i \in 1 .. 4 : 4 * k - 4 + i = c \/ g[4 * k - 4 + i] = CellOf(i, R[k])
    BY <1>2
  <2>2. ASSUME NEW i \in 1 .. 4, 4 * Len(R) + i <= Len(g)
        PROVE  g[4 * Len(R) + i] = CellOf(i, r) \/ (loose /\ g[4 * Len(R) + i] = Bad)
    <3>1. 4 * Len(R) + i \in 1 .. Len(f) /\ 4 * Len(R) + i # c
      BY <1>1, <1>4, <2>2
    <3>2. g[4 * Len(R) + i] = f[4 * Len(R) + i]
      BY <3>1
    <3>. QED  BY <1>3, <2>2, <3>2
  <2>3. c \in 1 .. (4 * Len(R))
    BY <1>1, <1>4
  <2>4. Laid(g, R, r, c, loose)
    BY <1>1, <2>1, <2>2, <2>3 DEF Laid
  <2>. QED  BY <1>4, <2>4
<1>5. CASE ~(c <= 4 * Len(R))
  <2>1. ASSUME NEW k \in 1 .. Len(R), NEW i \in 1 .. 4 PROVE g[4 * k - 4 + i] = CellOf(i, R[k])
    <3>1. 4 * k - 4 + i \in 1 .. Len(f) /\ f[4 * k - 4 + i] = CellOf(i, R[k]) /\ 4 * k - 4 + i <= 4 * Len(R)
      BY <1>2
    <3>2. 4 * k - 4 + i # c
      BY <1>5, <3>1
    <3>. QED  BY <3>1, <3>2
  <2>2. ASSUME NEW i \in 1 .. 4, 4 * Len(R) + i <= Len(g)
        PROVE  g[4 * Len(R) + i] = CellOf(i, r) \/ g[4 * Len(R) + i] = Bad
    <3>1. 4 * Len(R) + i \in 1 .. Len(f)
      BY <1>1, <2>2
    <3>2. CASE 4 * Len(R) + i = c
      BY <3>2
    <3>3. CASE 4 * Len(R) + i # c
      <4>1. g[4 * Len(R) + i] = f[4 * Len(R) + i]
        BY <3>1, <3>3
      <4>. QED  BY <1>3, <2>2, <4>1
    <3>. QED  BY <3>2, <3>3
  <2>3. Laid(g, R, r, 0, TRUE)
    BY <1>1, <2>1, <2>2 DEF Laid
  <2>. QED  BY <1>5, <2>3
<1>. QED  BY <1>4, <1>5

\* The first damage leaves one scar; a second one leaves the scope of the invariant.
LEMMA DamageDeep ==
  ASSUME Deep, NEW l \in Logs, NEW i \in DOMAIN file[l], Damage(l, i)
  PROVE  Deep'
<1>. USE DEF Deep
<1>1. BaseInv'
  BY DamageBase
<1>2. /\ spent' = [spent EXCEPT !.damage = @ + 1] /\ \A p \in Procs : Idle(p)
      /\ UNCHANGED <<lock, proc, mem, poisoned, acked, refused>>
  BY DEF Damage
<1>3. /\ spent'.damage = spent.damage + 1 /\ spent'.cuts = spent.cuts
      /\ spent.damage \in Nat /\ spent.cuts \in Nat
  <2>1. spent \in Spends
    BY SpentTyped
  <2>. QED  BY <1>2, <2>1 DEF Spends
<1>4. /\ \A k \in Logs : file'[k] \in Seq(Cells) /\ file[k] \in Seq(Cells)
      /\ \A k \in Logs \ {l} : file'[k] = file[k]
      /\ Len(file'[l]) = Len(file[l]) /\ file'[l][i] = Bad /\ i \in 1 .. Len(file[l])
      /\ \A c \in 1 .. Len(file[l]) : c # i => file'[l][c] = file[l][c]
  <2>1. Shape
    BY DEF BaseInv
  <2>2. file' \in [Logs -> Seq(Cells)] /\ file \in [Logs -> Seq(Cells)]
    BY <2>1, DamageIs DEF Shape
  <2>. QED  BY <2>1, <2>2, DamageIs
<1>5. \A q \in Procs, k \in Logs :
        /\ Booted(q, k)' <=> Booted(q, k)
        /\ Open(q, k)' <=> Open(q, k)
        /\ At(q, k) = 0 /\ At(q, k)' = 0 /\ Out(q, k) = 0 /\ Out(q, k)' = 0
  BY <1>2, Idles DEF Booted, Open, At, Out, Idle
<1>6. ASSUME spent.damage = 0, NEW k \in Logs, Sound(k) PROVE Sound(k)'
  <2>1. PICK R \in Seq(Recs), r \in Recs, d \in Nat, loose \in BOOLEAN : Solid(k, R, r, d, loose)
    BY <1>6 DEF Sound
  <2>2. d = 0 /\ Laid(file[k], R, r, d, loose)
    BY <1>6, <2>1 DEF Solid
  <2>3. /\ acked'[k] \subseteq RefsOf(R)
        /\ k = "journal" => Hydrates(R)
        /\ k = "journal" /\ Len(file'[k]) > 4 * Len(R) => Follows(R, r)
    <3>1. Len(file'[k]) = Len(file[k])
      BY <1>4
    <3>. QED  BY <1>2, <2>1, <3>1 DEF Solid
  <2>4. ASSUME NEW q \in Procs, Open(q, k)', NEW s \in BOOLEAN PROVE Serves(q, k, R, r, s)' /\ Len(file[k]) = 4 * Len(R)
    <3>1. Serves(q, k, R, r, loose) /\ Len(R) \in Nat
      BY <1>5, <2>1, <2>4 DEF Solid
    <3>2. Len(file'[k]) = Len(file[k]) /\ Len(file[k]) = 4 * Len(R)
      BY <1>4, <1>5, <3>1 DEF Serves
    <3>3. Holding(q, k, R)'
      BY <1>2, <3>1 DEF Serves, Holding
    <3>. QED  BY <1>5, <3>1, <3>2, <3>3 DEF Serves
  <2>5. ASSUME NEW e \in Nat, NEW s \in BOOLEAN, Laid(file'[k], R, r, e, s)
        PROVE  Sound(k)'
    <3>1. spent'.damage = 1 /\ spent'.damage + spent'.cuts > 0
      BY <1>3, <1>6
    <3>2. \A q \in Procs : Open(q, k)' => Serves(q, k, R, r, s)'
      BY <2>4
    <3>3. Solid(k, R, r, e, s)'
      BY <2>3, <2>5, <3>1, <3>2 DEF Solid
    <3>. QED  BY <3>3 DEF Sound
  <2>6. CASE k # l
    <3>1. Laid(file'[k], R, r, 0, loose)
      BY <1>4, <2>2, <2>6
    <3>. QED  BY <2>5, <3>1
  <2>7. CASE k = l
    <3>1. IF i <= 4 * Len(R) THEN Laid(file'[k], R, r, i, loose) ELSE Laid(file'[k], R, r, 0, TRUE)
      BY <1>4, <2>2, <2>7, LaidScarred
    <3>2. i \in Nat
      BY <1>4
    <3>3. CASE i <= 4 * Len(R)
      BY <2>5, <3>1, <3>2, <3>3
    <3>4. CASE ~(i <= 4 * Len(R))
      BY <2>5, <3>1, <3>4
    <3>. QED  BY <3>3, <3>4
  <2>. QED  BY <2>6, <2>7
<1>7. SolidInv'
  <2>. SUFFICES ASSUME spent'.damage <= 1 PROVE \A k \in Logs : Sound(k)'
    BY DEF SolidInv
  <2>1. spent.damage = 0
    BY <1>3
  <2>. QED  BY <1>6, <2>1 DEF SolidInv
<1>8. HeldInv'
  <2>1. spent'.damage <= 1 => spent.damage <= 1
    BY <1>3
  <2>. QED  BY <1>2, <1>5, <2>1 DEF HeldInv
<1>9. OnlyDamageRefuses'
  <2>1. spent'.damage + spent'.cuts > 0
    BY <1>3
  <2>. QED  BY <2>1 DEF OnlyDamageRefuses
<1>. QED  BY <1>1, <1>7, <1>8, <1>9

\* A power cut takes nothing of the frames: only the append in progress is not synced.
LEMMA PowerCutDeep ==
  ASSUME Deep, PowerCut
  PROVE  Deep'
<1>. USE DEF Deep
<1>1. BaseInv'
  BY PowerCutBase
<1>2. PICK j \in AfterCut("journal"), e \in AfterCut("evidence") :
        file' = [journal |-> j, evidence |-> e]
  BY DEF PowerCut
<1>3. /\ spent' = [spent EXCEPT !.deaths = @ + 1, !.cuts = @ + 1]
      /\ proc' = [p \in Procs |-> Down] /\ UNCHANGED <<acked, refused>>
  BY DEF PowerCut
<1>4. \A l \in Logs : file'[l] \in AfterCut(l)
  <2>1. file'["journal"] = j /\ file'["evidence"] = e
    BY <1>2
  <2>. QED  BY <2>1 DEF Logs
<1>5. spent'.damage = spent.damage /\ spent'.cuts > 0 /\ spent'.damage + spent'.cuts > 0
  <2>1. spent \in Spends /\ spent.damage \in Nat /\ spent.cuts \in Nat
    BY SpentTyped
  <2>2. spent.deaths + 1 \in Nat /\ spent.cuts + 1 \in Nat
    BY <2>1 DEF Spends
  <2>3. spent'.damage = spent.damage /\ spent'.cuts = spent.cuts + 1
    BY <1>3, <2>1, <2>2, CutSpent DEF Spends
  <2>. QED  BY <2>1, <2>3
<1>6. \A q \in Procs, l \in Logs : ~Booted(q, l)' /\ ~Open(q, l)'
  BY <1>3, Idles DEF Booted, Open
<1>7. ASSUME NEW l \in Logs, Sound(l) PROVE Sound(l)'
  <2>. DEFINE f == file[l]
              g == file'[l]
  <2>1. PICK R \in Seq(Recs), r \in Recs, d \in Nat, loose \in BOOLEAN : Solid(l, R, r, d, loose)
    BY <1>7 DEF Sound
  <2>2. PICK u \in 0 .. 4 :
           /\ u = 0 \/ \E p \in Procs : At(p, l) # 0 /\ Open(p, l) /\ u = Out(p, l)
           /\ g \in Seq(Cells) /\ Len(f) - u <= Len(g) /\ Len(g) <= Len(f)
           /\ \A i \in 1 .. (Len(f) - u) : g[i] = f[i]
           /\ \A i \in 1 .. Len(g) : g[i] = Bad \/ g[i] = f[i]
    BY <1>4, AfterCutIs
  <2>3. Laid(f, R, r, d, loose) /\ Len(R) \in Nat /\ Len(f) \in Nat /\ Len(g) \in Nat
    BY <2>1, <2>2 DEF Solid, BaseInv, Shape
  <2>4. 4 * Len(R) <= Len(f) - u
    <3>1. CASE u = 0
      BY <2>3, <3>1 DEF Laid
    <3>2. CASE u # 0
      <4>1. PICK p \in Procs : Open(p, l) /\ u = Out(p, l)
        BY <2>2, <3>2
      <4>2. Len(f) = 4 * Len(R) + u
        BY <2>1, <4>1 DEF Solid, Serves
      <4>. QED  BY <2>3, <4>2
    <3>. QED  BY <3>1, <3>2
  <2>. HIDE DEF f, g
  <2>5. \A i \in 1 .. (4 * Len(R)) : g[i] = f[i]
    BY <2>2, <2>3, <2>4
  <2>6. Laid(g, R, r, d, TRUE)
    <3>1. ASSUME NEW k \in 1 .. Len(R), NEW i \in 1 .. 4
          PROVE  4 * k - 4 + i = d \/ g[4 * k - 4 + i] = CellOf(i, R[k])
      <4>1. 4 * k - 4 + i = d \/ f[4 * k - 4 + i] = CellOf(i, R[k])
        BY <2>3 DEF Laid
      <4>2. 4 * k - 4 + i \in 1 .. (4 * Len(R))
        BY <2>3
      <4>. QED  BY <2>5, <4>1, <4>2
    <3>2. ASSUME NEW i \in 1 .. 4, 4 * Len(R) + i <= Len(g)
          PROVE  g[4 * Len(R) + i] = CellOf(i, r) \/ g[4 * Len(R) + i] = Bad
      <4>1. 4 * Len(R) + i \in 1 .. Len(g) /\ 4 * Len(R) + i <= Len(f)
        BY <2>2, <2>3, <3>2
      <4>2. f[4 * Len(R) + i] = CellOf(i, r) \/ f[4 * Len(R) + i] = Bad
        BY <2>3, <4>1 DEF Laid
      <4>3. g[4 * Len(R) + i] = Bad \/ g[4 * Len(R) + i] = f[4 * Len(R) + i]
        BY <2>2, <4>1
      <4>. QED  BY <4>2, <4>3
    <3>3. d # 0 => d \in 1 .. (4 * Len(R)) /\ g[d] = Bad
      BY <2>3, <2>5 DEF Laid
    <3>4. 4 * Len(R) <= Len(g) /\ Len(g) <= 4 * Len(R) + 4
      <4>1. Len(f) <= 4 * Len(R) + 4
        BY <2>3 DEF Laid
      <4>. QED  BY <2>2, <2>3, <2>4, <4>1
    <3>. QED  BY <3>1, <3>2, <3>3, <3>4 DEF Laid
  <2>7. Len(g) > 4 * Len(R) => Len(f) > 4 * Len(R)
    BY <2>2, <2>3
  <2>8. /\ d # 0 => spent'.damage = 1
        /\ acked'[l] \subseteq RefsOf(R)
        /\ l = "journal" => Hydrates(R)
        /\ l = "journal" /\ Len(g) > 4 * Len(R) => Follows(R, r)
    BY <1>3, <1>5, <2>1, <2>7 DEF Solid, f
  <2>9. Solid(l, R, r, d, TRUE)'
    BY <1>5, <1>6, <2>6, <2>8 DEF Solid, g
  <2>. QED  BY <2>9 DEF Sound
<1>8. SolidInv'
  BY <1>5, <1>7 DEF SolidInv
<1>9. HeldInv'
  BY <1>6 DEF HeldInv
<1>10. OnlyDamageRefuses'
  BY <1>5 DEF OnlyDamageRefuses
<1>. QED  BY <1>1, <1>8, <1>9, <1>10

-----------------------------------------------------------------------------
(* The theorems.                                                           *)

LEMMA InitDeep == Init => Deep
<1>. SUFFICES ASSUME Init PROVE Deep
  OBVIOUS
<1>1. BaseInv
  BY InitBase
<1>2. \A q \in Procs, l \in Logs : ~Booted(q, l) /\ ~Open(q, l)
  BY Idles DEF Init, Booted, Open
<1>3. ASSUME NEW l \in Logs PROVE Sound(l)
  <2>1. file[l] = <<>> /\ acked[l] = {} /\ spent.damage = 0
    BY DEF Init, Nothing
  <2>2. PICK R \in Seq(Recs) : R = <<>> /\ Len(R) = 0 /\ DOMAIN R = {}
    <3>1. <<>> \in Seq(Recs) /\ Len(<<>>) = 0 /\ DOMAIN <<>> = {}
      OBVIOUS
    <3>. QED  BY <3>1, Zenon
  <2>. PICK r \in Recs : TRUE
    BY BadTyped
  <2>3. Laid(file[l], R, r, 0, FALSE)
    BY <2>1, <2>2 DEF Laid
  <2>4. Hydrates(R)
    BY <2>2 DEF Hydrates
  <2>5. ~(Len(file[l]) > 4 * Len(R))
    BY <2>1, <2>2
  <2>6. Solid(l, R, r, 0, FALSE)
    BY <1>2, <2>1, <2>3, <2>4, <2>5 DEF Solid
  <2>. QED  BY <2>6 DEF Sound
<1>4. OnlyDamageRefuses
  BY DEF Init, OnlyDamageRefuses
<1>. QED  BY <1>1, <1>2, <1>3, <1>4 DEF Deep, SolidInv, HeldInv

LEMMA NextDeep == Deep /\ [Next]_vars => Deep'
<1>. SUFFICES ASSUME Deep, [Next]_vars PROVE Deep'
  OBVIOUS
<1>1. CASE UNCHANGED vars
  <2>1. BaseInv'
    BY NextBase DEF Deep
  <2>2. \A q \in Procs, l \in Logs : /\ Booted(q, l)' <=> Booted(q, l)
                                     /\ Open(q, l)' <=> Open(q, l)
                                     /\ At(q, l)' = At(q, l)
    BY <1>1 DEF vars, Booted, Open, At
  <2>3. UNCHANGED <<file, proc, mem, acked, refused, spent>> /\ spent'.cuts >= spent.cuts
    BY <1>1, SpentTyped DEF vars, Deep
  <2>4. \A l \in Logs : Sound(l) => Sound(l)'
    BY <2>1, <2>2, <2>3, SoundKept DEF Deep
  <2>. QED  BY <2>1, <2>2, <2>3, <2>4 DEF Deep, SolidInv, HeldInv, OnlyDamageRefuses
<1>2. ASSUME NEW p \in Procs,
             \/ AcquireLock(p) \/ Replay(p) \/ WriteSome(p) \/ AppendReturns(p)
             \/ AppendFails(p) \/ Exit(p) \/ Kill(p)
             \/ \E l \in Logs, ref \in Refs : AppendBegin(p, l, ref)
      PROVE  Deep'
  BY <1>2, AcquireLockDeep, ReplayDeep, WriteSomeDeep, AppendReturnsDeep, AppendFailsDeep, ExitDeep,
     AppendBeginDeep
<1>3. CASE PowerCut
  BY <1>3, PowerCutDeep
<1>4. CASE OperatorUnlocks
  BY <1>4, UnlocksDeep
<1>5. CASE \E l \in Logs : \E i \in DOMAIN file[l] : Damage(l, i)
  BY <1>5, DamageDeep
<1>. QED  BY <1>1, <1>2, <1>3, <1>4, <1>5 DEF Next

\* The inductive invariant: with at most one damaged cell every log holds, in frames, all
\* that append acknowledged in any life, and so does the memory of whoever has replayed it.
THEOREM AlwaysDeep == Spec => []Deep
  BY InitDeep, NextDeep, PTL DEF Spec

LEMMA DeepType == Deep => TypeOK
<1>. SUFFICES ASSUME Deep PROVE TypeOK
  OBVIOUS
<1>1. Shape /\ ProcInv /\ AlignInv
  BY DEF Deep, BaseInv
<1>2. \A p \in Procs : /\ proc[p].at \in Logs \cup {"down", "up"} /\ proc[p].job.off \in 0 .. 5
                       /\ poisoned[p] \subseteq Logs
  BY <1>1, JobTyped DEF Shape
<1>3. \A l \in Logs : acked[l] \subseteq Refs
  BY <1>1 DEF Shape
<1>. QED  BY <1>1, <1>2, <1>3 DEF TypeOK, Shape, ProcInv, AlignInv

\* What is in memory between appends is what the reader finds.
LEMMA DeepMemory == Deep => MemoryIsDisk
<1>. SUFFICES ASSUME Deep PROVE MemoryIsDisk
  OBVIOUS
<1>1. ASSUME NEW p \in Procs, proc[p].at = "up", Idle(p), spent.damage = 0, NEW l \in Logs \ poisoned[p]
      PROVE  LET disk == Replayed(l, file[l]) IN
             IF l = "journal" THEN mem[p][l] = disk
             ELSE RefsOf(mem[p][l]) = RefsOf(disk)
  <2>. DEFINE f == file[l]
  <2>1. f \in Seq(Cells)
    BY DEF Deep, BaseInv, Shape
  <2>2. PICK R \in Seq(Recs), r \in Recs, d \in Nat, loose \in BOOLEAN : Solid(l, R, r, d, loose)
    BY <1>1 DEF Deep, SolidInv, Sound
  <2>3. At(p, l) = 0 /\ Out(p, l) = 0 /\ Open(p, l)
    BY <1>1, Idles DEF At, Out, Idle, Open, Booted
  <2>4. Serves(p, l, R, r, loose) /\ Len(R) \in Nat /\ d = 0 /\ Laid(f, R, r, d, loose)
    BY <1>1, <2>2, <2>3 DEF Solid
  <2>5. Len(f) = 4 * Len(R) /\ Holding(p, l, R)
    BY <2>3, <2>4 DEF Serves
  <2>. HIDE DEF f
  <2>6. Laid(f, R, r, 0, FALSE)
    <3>1. ~ \E i \in 1 .. 4 : 4 * Len(R) + i <= Len(f)
      BY <2>4, <2>5
    <3>. QED  BY <2>4, <3>1 DEF Laid
  <2>7. ~Corrupt(f)
    BY <2>1, <2>6, PeacefulReads
  <2>8. Payloads(f) = R
    <3>1. PICK S \in Seq(Recs) : /\ S = R \/ (S = Append(R, r) /\ Len(f) = 4 * Len(R) + 4)
                                 /\ Payloads(f) = S
      BY <2>1, <2>6, <2>7, ReplayReads
    <3>. QED  BY <2>4, <2>5, <3>1
  <2>9. CASE l = "journal"
    BY <2>5, <2>8, <2>9 DEF Replayed, Holding, f
  <2>10. CASE l = "evidence"
    <3>1. RefsOf(DedupeEvidence(R)) = RefsOf(R)
      BY DedupeIs DEF RefsOf
    <3>. QED  BY <2>5, <2>8, <2>10, <3>1 DEF Replayed, Holding, f
  <2>. QED  BY <2>9, <2>10 DEF Logs
<1>. QED  BY <1>1, DeepType DEF MemoryIsDisk, RefsOf

\* What is acknowledged is in memory.
LEMMA DeepAcked == Deep => AckedKept
<1>. SUFFICES ASSUME Deep, spent.damage <= 1, NEW p \in Procs, NEW l \in Logs, proc[p].at = "up",
                     NEW ref \in acked[l]
              PROVE  Holds(p, l, ref)
  BY DEF AckedKept
<1>1. acked[l] \subseteq RefsOf(mem[p][l])
  BY DEF Deep, HeldInv, Booted
<1>. QED  BY <1>1 DEF RefsOf, Holds

\* What append acknowledged is in the memory of every process that is up, through any number
\* of kills, power cuts and failing writes and one damaged cell: the boot replays it or
\* refuses (handleBadRecord never takes a whole frame with one bad cell for a torn tail).
THEOREM AckedKeptHolds == Spec => []AckedKept
  BY AlwaysDeep, DeepAcked, PTL

\* Without damage or a power cut no boot refuses, however many kills and failing writes there
\* were: every tail they leave is torn and is healed, and the ledger hydrates.
THEOREM OnlyDamageRefusesHolds == Spec => []OnlyDamageRefuses
<1>1. Deep => OnlyDamageRefuses
  BY DEF Deep
<1>. QED  BY <1>1, AlwaysDeep, PTL

\* Between appends the memory of a process is what a replay of its undamaged files would give:
\* the journal entry for entry, the evidence order for order; and TypeOK holds.
THEOREM MemoryIsDiskHolds == Spec => []MemoryIsDisk
  BY AlwaysDeep, DeepMemory, PTL
=============================================================================
