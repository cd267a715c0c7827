---------------------------- MODULE RefillProofs ----------------------------
(***************************************************************************)
(* Theorems about the treasury, for every finite set of orders, any facts  *)
(* and rates, any number of mints, crashes and late throws.                *)
(***************************************************************************)
EXTENDS Refill, SumsProofs

-----------------------------------------------------------------------------
(* The inductive invariant.                                                *)

MintTx == [o : Orders, amt : Nat \ {0}, seq : Nat, st : {"net", "landed", "failed", "expired"}]
ProcTyped == [at : {"down", "read", "opened", "up"}, life : Nat, manual : BOOLEAN, base : Int]
WorkTyped == [at : {"idle", "rate", "opened", "sent", "landed", "booked", "closed"},
              o : Orders \cup {"none"}, amt : Nat]
PendTyped == [Orders -> {"none", "pending", "settling", "settled"}]
ResvTyped == [Orders -> {"none", "held", "settled", "released"}]

\* Chain, disk and memory have their shape; evidence is of payments.
Shape ==
  /\ bal \in Nat /\ issSeq \in Nat /\ mints \in Seq(MintTx)
  /\ paid \subseteq Orders /\ evid \subseteq paid /\ marking \subseteq evid
  /\ moved \subseteq Transfers
  /\ resv \in ResvTyped /\ intents \in [Orders -> Nat]
  /\ proc \in ProcTyped /\ pend \in PendTyped /\ work \in WorkTyped
  /\ spent \in [crashes : Nat, throws : Nat]

\* What holds between the worker, the process and its intents.
Memory ==
  /\ proc.at # "down" => proc.life > 0
  /\ \A o \in Orders : intents[o] <= proc.life
  /\ work.at # "idle" => proc.at = "up" /\ work.o \in evid
  /\ work.at \notin {"idle", "rate"} => work.amt > 0
  /\ work.at \in {"sent", "landed", "booked", "closed"} =>
       mints # <<>> /\ Sent.o = work.o /\ Sent.amt = work.amt

Typed == Shape /\ Memory

\* What an entry adds to the pool's account.
PoolEffect(e) == NativeEffect(e, "USDC_POOL")

\* The journal replays, and records only what happened.
JournalOk ==
  /\ IsFiniteSet(journal) /\ Hydrates(journal)
  /\ \A e \in journal : PoolEffect(e) \in Int
  /\ \A o \in Orders : HasRef(journal, PayRef(o)) => o \in evid
  /\ \A t \in Transfers : HasRef(journal, ManualRef(t)) => t \in moved

\* Nothing moves before the opening balance is booked.
EmptyBooks ==
  journal = {} =>
    /\ paid = {} /\ moved = {} /\ mints = <<>>
    /\ \A o \in Orders : resv[o] = "none"
    /\ proc.at = "read" => proc.base = bal
    /\ proc.at \in {"opened", "up"} => proc.base = 0

\* A reservation is none before the payment and settled only with evidence.
ResvOk ==
  \A o \in Orders : /\ resv[o] = "none" => o \notin paid
                    /\ resv[o] = "settled" => o \in evid

\* Payments that the counted reservations cover.  Before the sweep the ones with evidence
\* are about to be dropped: they were paid before the chain was read.
PaidCounted ==
  {o \in Orders : o \in paid /\ resv[o] \in {"held", "settled"} /\ (Up \/ o \notin evid)}

\* A refill that is on chain and not in the base yet.
Uncredited ==
  IF work.at \in {"landed", "booked", "closed"} \/ (work.at = "sent" /\ Sent.st = "landed")
  THEN work.amt ELSE 0

\* The base the gate computes with is never more than the chain holds, but for payments
\* whose reservations still count against it.
BaseCovered ==
  proc.at # "down" => proc.base + Uncredited <= bal + SumOf(Stroops, PaidCounted)

\* The mints of an order that have reached the chain or still may.
LiveMints(o) == {n \in DOMAIN mints : mints[n].o = o /\ mints[n].st \in {"net", "landed"}}

Booked(o) == HasRef(journal, TopUpRef(o))

\* A mint that is or may get on chain is booked, or its intent is open: left by an earlier
\* life, or this life's worker is waiting for that very mint.
Accounted(o) ==
  \/ Booked(o)
  \/ /\ intents[o] # 0
     /\ \/ proc.at = "down" \/ intents[o] < proc.life
        \/ work.at \in {"sent", "landed"} /\ work.o = o

\* One mint per order at most, accounted for, and on chain once it is booked.
MintOk(o) ==
  /\ \A m, n \in LiveMints(o) : m = n
  /\ LiveMints(o) # {} => Accounted(o)
  /\ Booked(o) => \A n \in LiveMints(o) : mints[n].st = "landed"

\* What the worker knows at each of its awaits, about its order.
Knows(o) ==
  /\ work.at = "opened" => LiveMints(o) = {}
  /\ work.at \in {"opened", "sent", "landed"} => intents[o] = proc.life /\ ~Booked(o)
  /\ work.at \in {"sent", "landed"} => LiveMints(o) \subseteq {Len(mints)}
  /\ work.at = "landed" => Sent.st = "landed"
  /\ work.at \in {"booked", "closed"} => Booked(o)

MintsOk ==
  spent.throws = 0 => \A o \in Orders : MintOk(o) /\ (work.o = o => Knows(o))

-----------------------------------------------------------------------------
(* Shapes.                                                                 *)

LEMMA FactsTyped ==
  ASSUME NEW o \in Orders
  PROVE  /\ Facts[o].stroops \in Nat /\ Facts[o].stroops > 0
         /\ Facts[o].tryKurus \in Nat /\ Facts[o].tryKurus > 0
         /\ Facts[o].spread \in Nat /\ Facts[o].spread < Facts[o].tryKurus
         /\ Facts[o].fee \in Nat /\ Facts[o].fee <= Facts[o].tryKurus
  BY RefillAssumption DEF ValidSettlement

LEMMA InitTyped == Init => Typed
<1>. SUFFICES ASSUME Init PROVE Typed
  OBVIOUS
<1>1. mints \in Seq(MintTx)
  BY DEF Init
<1>2. work \in WorkTyped /\ proc \in ProcTyped /\ spent \in [crashes : Nat, throws : Nat]
  BY DEF Init, Idle, WorkTyped, ProcTyped
<1>3. pend \in PendTyped /\ resv \in ResvTyped /\ intents \in [Orders -> Nat]
  BY DEF Init, NoPending, PendTyped, ResvTyped
<1>4. Shape
  BY <1>1, <1>2, <1>3, RefillAssumption DEF Init, Shape
<1>5. Memory
  BY DEF Init, Memory, Idle
<1>. QED  BY <1>4, <1>5 DEF Typed

\* A step that leaves the worker and its mints alone.
LEMMA WorkerAside ==
  ASSUME Typed, UNCHANGED <<mints, issSeq, intents, proc, work, spent, pend>>,
         bal' \in Nat, paid' \subseteq Orders, evid \subseteq evid', evid' \subseteq paid', marking' \subseteq evid',
         moved' \subseteq Transfers, resv' \in ResvTyped
  PROVE  Typed'
<1>1. Shape'
  BY DEF Typed, Shape
<1>2. Memory'
  BY DEF Typed, Shape, Memory, Sent
<1>. QED  BY <1>1, <1>2 DEF Typed

LEMMA FailedTyped ==
  ASSUME Typed, NEW o \in Orders, Failed(o), spent' \in [crashes : Nat, throws : Nat],
         UNCHANGED <<chain, journal, evid, resv, proc, marking>>,
         intents' \in [Orders -> Nat], \A p \in Orders : intents'[p] <= proc.life
  PROVE  Typed'
<1>1. pend' \in PendTyped
  BY DEF Typed, Shape, Failed, PendTyped
<1>2. work' \in WorkTyped /\ work'.at = "idle"
  BY DEF Failed, Idle, WorkTyped
<1>3. Shape'
  BY <1>1, <1>2 DEF Typed, Shape, chain
<1>4. Memory'
  BY <1>2 DEF Typed, Shape, Memory, chain
<1>. QED  BY <1>3, <1>4 DEF Typed

LEMMA SettledTyped ==
  ASSUME Typed, NEW o \in Orders, Settled(o), UNCHANGED <<chain, journal, evid, resv, marking, spent>>,
         proc' \in ProcTyped, proc'.at = proc.at, proc'.life = proc.life,
         intents' \in [Orders -> Nat], \A p \in Orders : intents'[p] <= proc.life
  PROVE  Typed'
<1>1. pend' \in PendTyped
  BY DEF Typed, Shape, Settled, PendTyped
<1>2. work' \in WorkTyped /\ work'.at = "idle"
  BY DEF Settled, Idle, WorkTyped
<1>3. Shape'
  BY <1>1, <1>2 DEF Typed, Shape, chain
<1>4. Memory'
  BY <1>2 DEF Typed, Shape, Memory, chain
<1>. QED  BY <1>3, <1>4 DEF Typed

\* The worker's order is an order, its position and amount are what they are.
LEMMA WorkFields ==
  ASSUME Typed, work.at # "idle"
  PROVE  /\ work.o \in Orders /\ work.o \in evid /\ Up
         /\ \A p \in Orders : intents[p] \in Nat /\ intents[p] <= proc.life
         /\ proc.life \in Nat /\ proc.life > 0 /\ proc.base \in Int /\ work.amt \in Nat
  BY DEF Typed, Shape, Memory, ProcTyped, WorkTyped, Up

\* Moving on within one order.
LEMMA WorkMoves ==
  ASSUME Typed, work.at # "idle", NEW a \in {"opened", "sent", "landed", "booked", "closed"},
         NEW amt \in Nat, amt > 0, work' = [work EXCEPT !.at = a, !.amt = amt]
  PROVE  /\ work' \in WorkTyped /\ work'.at = a /\ work'.o = work.o /\ work'.amt = amt
  BY DEF Typed, Shape, WorkTyped

-----------------------------------------------------------------------------

LEMMA WorkerTyped == ASSUME Typed, Worker \/ LateThrow PROVE Typed'
<1>0. work.at # "idle"
  BY DEF Worker, LateThrow, RateFails, AlreadyBooked, MintBlocked, OpenIntent, SendMint, SendRefused,
         FinalitySuccess, FinalityFails, BookTopUp, CloseIntent, CreditPool
<1>. DEFINE o == work.o
<1>a. /\ o \in Orders /\ o \in evid /\ Up
      /\ intents \in [Orders -> Nat] /\ \A p \in Orders : intents[p] <= proc.life
      /\ proc.life \in Nat /\ proc \in ProcTyped /\ spent \in [crashes : Nat, throws : Nat]
  BY <1>0, WorkFields DEF Typed, Shape
<1>1. CASE RateFails
  BY <1>1, <1>a, FailedTyped DEF RateFails, disk
<1>2. CASE AlreadyBooked
  <2>1. intents' \in [Orders -> Nat] /\ \A p \in Orders : intents'[p] <= proc.life
    BY <1>2, <1>a DEF AlreadyBooked
  <2>. QED  BY <1>2, <1>a, <2>1, SettledTyped DEF AlreadyBooked
<1>3. CASE MintBlocked
  BY <1>3, <1>a, FailedTyped DEF MintBlocked, disk
<1>4. CASE OpenIntent
  <2>1. intents' \in [Orders -> Nat] /\ \A p \in Orders : intents'[p] <= proc.life
    BY <1>4, <1>a DEF OpenIntent
  <2>2. CASE Failed(o)
    BY <1>4, <1>a, <2>1, <2>2, FailedTyped DEF OpenIntent
  <2>3. ASSUME NEW amt \in Nat, amt > 0, work' = [work EXCEPT !.at = "opened", !.amt = amt],
               UNCHANGED pend
        PROVE  Typed'
    <3>1. /\ work' \in WorkTyped /\ work'.at = "opened" /\ work'.o = work.o /\ work'.amt = amt
      BY <1>0, <2>3, WorkMoves
    <3>2. Shape'
      BY <1>4, <2>1, <2>3, <3>1 DEF OpenIntent, chain, Typed, Shape
    <3>3. Memory'
      BY <1>4, <1>a, <2>1, <2>3, <3>1 DEF OpenIntent, chain, Typed, Shape, Memory, Up
    <3>. QED  BY <3>2, <3>3 DEF Typed
  <2>4. PICK rate \in Rates :
          LET amt == PlanStroops(o, rate) IN
          IF amt > 0 THEN work' = [work EXCEPT !.at = "opened", !.amt = amt] /\ UNCHANGED pend
                     ELSE Failed(o)
    BY <1>4 DEF OpenIntent
  <2>5. PlanStroops(o, rate) \in Int
    BY <1>a, FactsTyped, RefillAssumption DEF PlanStroops
  <2>6. CASE PlanStroops(o, rate) > 0
    <3>. DEFINE amt == PlanStroops(o, rate)
    <3>1. amt \in Nat /\ amt > 0 /\ work' = [work EXCEPT !.at = "opened", !.amt = amt] /\ UNCHANGED pend
      BY <2>4, <2>5, <2>6
    <3>. HIDE DEF amt
    <3>. QED  BY <2>3, <3>1
  <2>7. CASE ~(PlanStroops(o, rate) > 0)
    BY <2>2, <2>4, <2>7
  <2>. QED  BY <2>6, <2>7
<1>5. CASE SendMint
  <2>. DEFINE m == [o |-> work.o, amt |-> work.amt, seq |-> issSeq + 1, st |-> "net"]
  <2>1. m \in MintTx
    BY <1>5, <1>a DEF SendMint, Typed, Shape, Memory, MintTx, WorkTyped
  <2>2. mints \in Seq(MintTx) /\ mints' = Append(mints, m)
    BY <1>5 DEF SendMint, Typed, Shape
  <2>3. mints' \in Seq(MintTx) /\ mints' # <<>> /\ Sent' = m
    BY <2>1, <2>2 DEF Sent
  <2>4. work' \in WorkTyped /\ work'.at = "sent" /\ work'.o = work.o /\ work'.amt = work.amt
    BY <1>5 DEF SendMint, Typed, Shape, WorkTyped
  <2>5. Shape'
    BY <1>5, <2>3, <2>4 DEF SendMint, Typed, Shape, disk
  <2>6. Memory'
    BY <1>5, <2>3, <2>4 DEF SendMint, Typed, Memory, disk
  <2>. QED  BY <2>5, <2>6 DEF Typed
<1>6. CASE SendRefused
  BY <1>6, <1>a, FailedTyped DEF SendRefused, disk
<1>7. CASE FinalitySuccess
  <2>1. work' \in WorkTyped /\ work'.at = "landed" /\ work'.o = work.o /\ work'.amt = work.amt
    BY <1>7 DEF FinalitySuccess, Typed, Shape, WorkTyped
  <2>2. Shape'
    BY <1>7, <2>1 DEF FinalitySuccess, Typed, Shape, chain, disk
  <2>3. Memory'
    BY <1>7, <2>1 DEF FinalitySuccess, Typed, Memory, Sent, chain, disk
  <2>. QED  BY <2>2, <2>3 DEF Typed
<1>8. CASE FinalityFails
  BY <1>8, <1>a, FailedTyped DEF FinalityFails, disk
<1>9. CASE LateThrow
  <2>1. spent' \in [crashes : Nat, throws : Nat]
    BY <1>9, <1>a DEF LateThrow
  <2>. QED  BY <1>9, <1>a, <2>1, FailedTyped DEF LateThrow, disk
<1>10. CASE BookTopUp
  <2>1. work' \in WorkTyped /\ work'.at = "booked" /\ work'.o = work.o /\ work'.amt = work.amt
    BY <1>10 DEF BookTopUp, Typed, Shape, WorkTyped
  <2>2. Shape'
    BY <1>10, <2>1 DEF BookTopUp, Typed, Shape, chain
  <2>3. Memory'
    BY <1>10, <2>1 DEF BookTopUp, Typed, Memory, Sent, chain
  <2>. QED  BY <2>2, <2>3 DEF Typed
<1>11. CASE CloseIntent
  <2>0. intents' \in [Orders -> Nat] /\ \A p \in Orders : intents'[p] <= proc.life
    BY <1>11, <1>a DEF CloseIntent
  <2>1. work' \in WorkTyped /\ work'.at = "closed" /\ work'.o = work.o /\ work'.amt = work.amt
    BY <1>11 DEF CloseIntent, Typed, Shape, WorkTyped
  <2>2. Shape'
    BY <1>11, <2>0, <2>1 DEF CloseIntent, Typed, Shape, chain
  <2>3. Memory'
    BY <1>11, <2>0, <2>1 DEF CloseIntent, Typed, Memory, Sent, chain
  <2>. QED  BY <2>2, <2>3 DEF Typed
<1>12. CASE CreditPool
  <2>1. proc' \in ProcTyped /\ proc'.at = proc.at /\ proc'.life = proc.life
    BY <1>12, <1>a, <1>0, WorkFields DEF CreditPool, ProcTyped
  <2>. QED  BY <1>12, <1>a, <2>1, SettledTyped DEF CreditPool, disk
<1>. QED  BY <1>1, <1>2, <1>3, <1>4, <1>5, <1>6, <1>7, <1>8, <1>9, <1>10, <1>11, <1>12 DEF Worker

LEMMA GateTyped ==
  ASSUME Typed, NEW o \in Orders,
         \/ Reserve(o) \/ ReleaseReservation(o) \/ AppendEvidence(o)
         \/ MarkReservationSettled(o) \/ PayLands(o)
  PROVE  Typed'
<1>0. /\ bal \in Nat /\ paid \subseteq Orders /\ evid \subseteq paid /\ marking \subseteq evid
      /\ moved \subseteq Transfers /\ resv \in ResvTyped
  BY DEF Typed, Shape
<1>1. CASE Reserve(o)
  BY <1>0, <1>1, WorkerAside DEF Reserve, chain, memory, ResvTyped
<1>2. CASE ReleaseReservation(o)
  BY <1>0, <1>2, WorkerAside DEF ReleaseReservation, chain, memory, ResvTyped
<1>3. CASE AppendEvidence(o)
  BY <1>0, <1>3, WorkerAside DEF AppendEvidence, chain
<1>4. CASE MarkReservationSettled(o)
  <2>1. PICK v \in {resv[o], "settled"} : resv' = [resv EXCEPT ![o] = v]
    BY <1>4 DEF MarkReservationSettled
  <2>2. resv' \in ResvTyped
    BY <1>0, <2>1 DEF ResvTyped
  <2>. QED  BY <1>0, <1>4, <2>2, WorkerAside DEF MarkReservationSettled, chain
<1>5. CASE PayLands(o)
  BY <1>0, <1>5, FactsTyped, WorkerAside DEF PayLands, disk, memory
<1>. QED  BY <1>1, <1>2, <1>3, <1>4, <1>5

LEMMA LoopTyped ==
  ASSUME Typed, NEW o \in Orders, Arm(o) \/ Claim(o)
  PROVE  Typed'
<1>1. CASE Arm(o)
  <2>1. PICK v \in {pend[o], "pending"} : pend' = [pend EXCEPT ![o] = v]
    BY <1>1 DEF Arm
  <2>2. pend' \in PendTyped
    BY <2>1 DEF Typed, Shape, PendTyped
  <2>3. Shape'
    BY <1>1, <2>2 DEF Arm, Typed, Shape, chain
  <2>4. Memory'
    BY <1>1 DEF Arm, Typed, Memory, Sent, chain
  <2>. QED  BY <2>3, <2>4 DEF Typed
<1>2. CASE Claim(o)
  <2>1. work' = [at |-> "rate", o |-> o, amt |-> 0]
    BY <1>2 DEF Claim
  <2>2. work' \in WorkTyped
    BY <2>1 DEF WorkTyped
  <2>3. pend' \in PendTyped
    BY <1>2 DEF Claim, Typed, Shape, PendTyped
  <2>4. Shape'
    BY <1>2, <2>2, <2>3 DEF Claim, Typed, Shape, chain, disk
  <2>5. Memory'
    BY <1>2, <2>1 DEF Claim, Typed, Memory, chain, disk, Up
  <2>. QED  BY <2>4, <2>5 DEF Typed
<1>. QED  BY <1>1, <1>2

LEMMA LifeTyped == ASSUME Typed, Boot \/ Crash PROVE Typed'
<1>0. /\ proc \in ProcTyped /\ bal \in Nat /\ intents \in [Orders -> Nat]
      /\ \A o \in Orders : intents[o] <= proc.life
      /\ (proc.at # "up" => work.at = "idle") /\ (proc.at # "down" => proc.life > 0)
  BY DEF Typed, Shape, Memory
<1>1. CASE BootRead
  <2>1. PICK m \in BOOLEAN : proc' = [at |-> "read", life |-> proc.life + 1, manual |-> m, base |-> bal]
    BY <1>1 DEF BootRead
  <2>2. proc' \in ProcTyped /\ proc'.at = "read" /\ proc'.life = proc.life + 1 /\ proc.life \in Nat
    BY <1>0, <2>1 DEF ProcTyped
  <2>3. Shape'
    BY <1>1, <2>2 DEF BootRead, Typed, Shape, chain, disk
  <2>4. Memory'
    <3>1. work.at = "idle" /\ work' = work /\ intents' = intents
      BY <1>0, <1>1 DEF BootRead, disk
    <3>. QED  BY <1>0, <2>2, <3>1 DEF Memory
  <2>. QED  BY <2>3, <2>4 DEF Typed
<1>2. CASE BootGenesis
  <2>1. proc' \in ProcTyped /\ proc'.at = "opened" /\ proc'.life = proc.life
    BY <1>0, <1>2 DEF BootGenesis, ProcTyped
  <2>2. Shape'
    BY <1>2, <2>1 DEF BootGenesis, Typed, Shape, chain
  <2>3. Memory'
    <3>1. work.at = "idle" /\ work' = work /\ intents' = intents /\ proc.at # "down"
      BY <1>0, <1>2 DEF BootGenesis
    <3>. QED  BY <1>0, <2>1, <3>1 DEF Memory
  <2>. QED  BY <2>2, <2>3 DEF Typed
<1>3. CASE BootSweep
  <2>1. proc' \in ProcTyped /\ proc'.at = "up" /\ proc'.life = proc.life
    BY <1>0, <1>3 DEF BootSweep, ProcTyped
  <2>2. resv' \in ResvTyped
    BY <1>3 DEF BootSweep, Swept, Typed, Shape, ResvTyped
  <2>3. Shape'
    BY <1>3, <2>1, <2>2 DEF BootSweep, Typed, Shape, chain
  <2>4. Memory'
    <3>1. work.at = "idle" /\ work' = work /\ intents' = intents /\ proc.at # "down"
      BY <1>0, <1>3 DEF BootSweep
    <3>. QED  BY <1>0, <2>1, <3>1 DEF Memory
  <2>. QED  BY <2>3, <2>4 DEF Typed
<1>4. CASE Crash
  <2>1. proc' \in ProcTyped /\ proc'.at = "down" /\ proc'.life = proc.life
    BY <1>0, <1>4 DEF Crash, ProcTyped
  <2>2. work' \in WorkTyped /\ work'.at = "idle"
    BY <1>4 DEF Crash, Idle, WorkTyped
  <2>3. pend' \in PendTyped /\ spent' \in [crashes : Nat, throws : Nat] /\ marking' = {}
    <3>1. pend' \in PendTyped /\ marking' = {}
      BY <1>4 DEF Crash, NoPending, PendTyped
    <3>2. spent \in [crashes : Nat, throws : Nat]
      BY DEF Typed, Shape
    <3>3. spent' = [spent EXCEPT !.crashes = @ + 1]
      BY <1>4 DEF Crash
    <3>4. spent' \in [crashes : Nat, throws : Nat]
      BY <3>2, <3>3
    <3>. QED  BY <3>1, <3>4
  <2>4. Shape'
    BY <1>4, <2>1, <2>2, <2>3 DEF Crash, Typed, Shape, chain, disk
  <2>5. Memory'
    <3>1. intents' = intents
      BY <1>4 DEF Crash, disk
    <3>. QED  BY <1>0, <2>1, <2>2, <3>1 DEF Memory
  <2>. QED  BY <2>4, <2>5 DEF Typed
<1>. QED  BY <1>1, <1>2, <1>3, <1>4 DEF Boot

LEMMA HandTyped ==
  ASSUME Typed,
         \/ \E o \in Orders : OperatorResolves(o)
         \/ \E t \in Transfers : ManualTopUp(t) \/ AdminTransfers(t)
  PROVE  Typed'
<1>0. /\ bal \in Nat /\ paid \subseteq Orders /\ evid \subseteq paid /\ marking \subseteq evid
      /\ moved \subseteq Transfers /\ resv \in ResvTyped
  BY DEF Typed, Shape
<1>1. ASSUME NEW o \in Orders, OperatorResolves(o) PROVE Typed'
  <2>1. /\ intents' \in [Orders -> Nat] /\ \A p \in Orders : intents'[p] <= intents[p]
    BY <1>1 DEF OperatorResolves, Typed, Shape
  <2>2. Shape'
    BY <1>1, <2>1 DEF OperatorResolves, Typed, Shape, chain, memory
  <2>3. Memory'
    <3>1. \A p \in Orders : intents'[p] <= proc.life
      BY <2>1 DEF Typed, Shape, Memory, ProcTyped
    <3>. QED  BY <1>1, <3>1 DEF OperatorResolves, Typed, Memory, Sent, chain, memory
  <2>. QED  BY <2>2, <2>3 DEF Typed
<1>2. ASSUME NEW t \in Transfers, ManualTopUp(t) PROVE Typed'
  BY <1>0, <1>2, WorkerAside DEF ManualTopUp, chain, memory
<1>3. ASSUME NEW t \in Transfers, AdminTransfers(t) PROVE Typed'
  BY <1>0, <1>3, WorkerAside DEF AdminTransfers, disk, memory
<1>. QED  BY <1>1, <1>2, <1>3

\* A mint's status changes; who it is for and how much it is stay.
LEMMA MintChanges ==
  ASSUME Typed, NEW n \in DOMAIN mints, NEW st \in {"landed", "failed", "expired"},
         mints' = [mints EXCEPT ![n].st = st]
  PROVE  /\ mints' \in Seq(MintTx) /\ Len(mints') = Len(mints)
         /\ DOMAIN mints' = DOMAIN mints /\ DOMAIN mints = 1 .. Len(mints)
         /\ \A k \in DOMAIN mints : mints'[k] = IF k = n THEN [mints[n] EXCEPT !.st = st] ELSE mints[k]
         /\ \A k \in DOMAIN mints : mints[k] \in MintTx /\ mints'[k] \in MintTx
         /\ \A k \in DOMAIN mints : mints'[k].o = mints[k].o /\ mints'[k].amt = mints[k].amt
         /\ mints'[n].st = st /\ \A k \in DOMAIN mints : k # n => mints'[k].st = mints[k].st
<1>1. mints \in Seq(MintTx) /\ mints[n] \in MintTx
  BY DEF Typed, Shape
<1>2. [mints[n] EXCEPT !.st = st] \in MintTx
  BY <1>1 DEF MintTx
<1>. DEFINE m == [mints[n] EXCEPT !.st = st]
<1>3. mints' = [mints EXCEPT ![n] = m]
  OBVIOUS
<1>4. m.o = mints[n].o /\ m.amt = mints[n].amt /\ m.st = st
  BY <1>1 DEF MintTx
<1>. HIDE DEF m
<1>5. /\ mints' \in Seq(MintTx) /\ Len(mints') = Len(mints)
      /\ DOMAIN mints' = DOMAIN mints /\ DOMAIN mints = 1 .. Len(mints)
      /\ \A k \in DOMAIN mints : mints'[k] = IF k = n THEN m ELSE mints[k]
      /\ \A k \in DOMAIN mints : mints[k] \in MintTx
  BY <1>1, <1>2, <1>3 DEF m
<1>. QED  BY <1>2, <1>4, <1>5 DEF m

LEMMA MintTyped ==
  ASSUME Typed, NEW n \in DOMAIN mints, MintLands(n) \/ MintExpires(n)
  PROVE  Typed'
<1>1. PICK st \in {"landed", "failed", "expired"} : mints' = [mints EXCEPT ![n].st = st]
  BY DEF MintLands, MintExpires
<1>2. /\ mints' \in Seq(MintTx) /\ Len(mints') = Len(mints)
      /\ DOMAIN mints = 1 .. Len(mints) /\ DOMAIN mints' = DOMAIN mints
      /\ \A k \in DOMAIN mints : mints'[k].o = mints[k].o /\ mints'[k].amt = mints[k].amt
  BY <1>1, MintChanges
<1>3. mints[n].amt \in Nat /\ issSeq \in Nat /\ bal \in Nat
  <2>1. mints[n] \in MintTx
    BY DEF Typed, Shape
  <2>. QED  BY <2>1 DEF Typed, Shape, MintTx
<1>4. bal' \in Nat /\ issSeq' \in Nat
  BY <1>3 DEF MintLands, MintExpires
<1>5. UNCHANGED <<paid, moved, disk, memory, spent>>
  BY DEF MintLands, MintExpires
<1>6. Shape'
  BY <1>2, <1>4, <1>5 DEF Typed, Shape, disk, memory
<1>7. mints # <<>> => mints' # <<>> /\ Sent'.o = Sent.o /\ Sent'.amt = Sent.amt
  BY <1>2 DEF Sent, Typed, Shape
<1>8. Memory'
  BY <1>5, <1>7 DEF Typed, Memory, disk, memory
<1>. QED  BY <1>6, <1>8 DEF Typed

LEMMA NextTyped == ASSUME Typed, [Next]_vars PROVE Typed'
<1>1. CASE UNCHANGED vars
  BY <1>1 DEF vars, Typed, Shape, Memory, Sent
<1>2. CASE Next
  BY <1>2, WorkerTyped, GateTyped, LoopTyped, LifeTyped, HandTyped, MintTyped DEF Next
<1>. QED  BY <1>1, <1>2

-----------------------------------------------------------------------------
(* The ledger's entries.                                                   *)

LEMMA SumSingle ==
  ASSUME NEW w, NEW x, w[x] \in Int
  PROVE  SumOf(w, {x}) = w[x]
<1>1. IsFiniteSet({}) /\ {} \cup {x} = {x} /\ x \notin {}
  BY FS_EmptySet
<1>2. SumOf(w, {} \cup {x}) = SumOf(w, {}) + w[x]
  BY <1>1, SumAdd
<1>3. SumOf(w, {}) = 0
  BY SumEmpty
<1>. QED  BY <1>1, <1>2, <1>3

LEMMA OneLeg ==
  ASSUME NEW l, l.native \in Int, l.kurus \in Int
  PROVE  SumNative({l}) = l.native /\ SumKurus({l}) = l.kurus
<1>1. SumOf([x \in {l} |-> x.native], {l}) = l.native
  <2>. DEFINE w == [x \in {l} |-> x.native]
  <2>1. w[l] = l.native
    OBVIOUS
  <2>. HIDE DEF w
  <2>2. SumOf(w, {l}) = w[l]
    BY <2>1, SumSingle
  <2>. QED  BY <2>1, <2>2 DEF w
<1>2. SumOf([x \in {l} |-> x.kurus], {l}) = l.kurus
  <2>. DEFINE w == [x \in {l} |-> x.kurus]
  <2>1. w[l] = l.kurus
    OBVIOUS
  <2>. HIDE DEF w
  <2>2. SumOf(w, {l}) = w[l]
    BY <2>1, SumSingle
  <2>. QED  BY <2>1, <2>2 DEF w
<1>. QED  BY <1>1, <1>2 DEF SumNative, SumKurus

LEMMA NoLeg == SumNative({}) = 0
  BY SumEmpty DEF SumNative

\* A top-up of a positive amount at a positive value balances and raises the pool by it.
LEMMA TopUpFacts ==
  ASSUME NEW ref, NEW stroops \in Nat, stroops > 0, NEW value \in Nat, value > 0
  PROVE  LET e == TopUpEntry(ref, stroops, value) IN
         e.ref = ref /\ Balanced(e.debits, e.credits) /\ PoolEffect(e) = stroops
<1>. DEFINE d == Leg("USDC_POOL", stroops, value)
            c == TryLeg("EXTERNAL_FUNDING", value)
            e == TopUpEntry(ref, stroops, value)
<1>1. /\ d.native = stroops /\ d.kurus = value /\ d.account = "USDC_POOL"
      /\ c.native = value /\ c.kurus = value /\ c.account = "EXTERNAL_FUNDING"
  BY DEF Leg, TryLeg
<1>2. e.ref = ref /\ e.debits = {d} /\ e.credits = {c}
  BY DEF TopUpEntry
<1>. HIDE DEF d, c, e
<1>3. OfAccount({d}, "USDC_POOL") = {d} /\ OfAccount({c}, "USDC_POOL") = {}
  BY <1>1 DEF OfAccount
<1>4. SumNative({d}) = stroops /\ SumKurus({d}) = value /\ SumKurus({c}) = value
  BY <1>1, OneLeg
<1>5. PoolEffect(e) = stroops
  <2>1. PoolEffect(e) = SumNative({d}) - SumNative({})
    BY <1>2, <1>3 DEF PoolEffect, NativeEffect
  <2>. QED  BY <2>1, <1>4, NoLeg
<1>6. Balanced({d}, {c})
  BY <1>1, <1>4 DEF Balanced, TryAccounts
<1>. QED  BY <1>2, <1>5, <1>6 DEF e

\* The entry of a settled order lowers the pool by what was paid out.
LEMMA PayFacts ==
  ASSUME NEW o \in Orders
  PROVE  PayEntry(o).ref = PayRef(o) /\ PoolEffect(PayEntry(o)) = -Facts[o].stroops
<1>. DEFINE f == Facts[o]
            d == PayEntry(o).debits
            c == PayEntry(o).credits
            l == Leg("USDC_POOL", f.stroops, f.tryKurus - f.spread)
<1>0. f.stroops \in Nat /\ f.tryKurus \in Nat /\ f.spread \in Nat
  BY FactsTyped
<1>1. /\ PayEntry(o).ref = PayRef(o)
      /\ d = {TryLeg("FIAT_CASH", f.tryKurus - f.fee)}
              \cup (IF f.fee > 0 THEN {TryLeg("PSP_FEE", f.fee)} ELSE {})
      /\ c = {l} \cup (IF f.spread > 0 THEN {TryLeg("SPREAD_REVENUE", f.spread)} ELSE {})
  BY DEF PayEntry, SettlementEntry
<1>2. OfAccount(d, "USDC_POOL") = {}
  <2>1. \A x \in d : x.account # "USDC_POOL"
    BY <1>1 DEF TryLeg, Leg
  <2>. QED  BY <2>1 DEF OfAccount
<1>3. OfAccount(c, "USDC_POOL") = {l}
  <2>1. l \in c /\ l.account = "USDC_POOL" /\ \A x \in c : x = l \/ x.account # "USDC_POOL"
    BY <1>1 DEF TryLeg, Leg
  <2>. HIDE DEF l, c
  <2>. QED  BY <2>1 DEF OfAccount
<1>4. l.native = f.stroops /\ l.kurus = f.tryKurus - f.spread /\ l.kurus \in Int
  BY <1>0 DEF Leg
<1>. HIDE DEF l, d, c
<1>5. SumNative({l}) = f.stroops
  BY <1>0, <1>4, OneLeg
<1>6. PoolEffect(PayEntry(o)) = 0 - f.stroops
  BY <1>2, <1>3, <1>5, NoLeg DEF PoolEffect, NativeEffect, c, d
<1>. QED  BY <1>0, <1>1, <1>6

\* Posting an entry adds its effect to the balance.
LEMMA BalanceAdd ==
  ASSUME NEW J, IsFiniteSet(J), NEW e, e \notin J, \A x \in J \cup {e} : PoolEffect(x) \in Int
  PROVE  /\ NativeBalance(J \cup {e}, "USDC_POOL") = NativeBalance(J, "USDC_POOL") + PoolEffect(e)
         /\ NativeBalance(J, "USDC_POOL") \in Int
<1>. DEFINE v == [x \in J |-> PoolEffect(x)]
            w == [x \in J \cup {e} |-> PoolEffect(x)]
<1>1. /\ NativeBalance(J, "USDC_POOL") = SumOf(v, J)
      /\ NativeBalance(J \cup {e}, "USDC_POOL") = SumOf(w, J \cup {e})
  BY DEF NativeBalance, PoolEffect
<1>2. /\ \A x \in J \cup {e} : w[x] \in Int
      /\ \A x \in J : w[x] = v[x] /\ v[x] \in Int
      /\ w[e] = PoolEffect(e)
  OBVIOUS
<1>. HIDE DEF v, w
<1>3. SumOf(w, J \cup {e}) = SumOf(w, J) + w[e]
  BY <1>2, SumAdd
<1>4. SumOf(w, J) = SumOf(v, J)
  BY <1>2, SumSame
<1>5. SumOf(v, J) \in Int
  BY <1>2, SumType
<1>. QED  BY <1>1, <1>2, <1>3, <1>4, <1>5

LEMMA RefsDiffer ==
  /\ \A o, p : PayRef(o) = PayRef(p) => o = p
  /\ \A o, p : TopUpRef(o) = TopUpRef(p) => o = p
  /\ \A t, u : ManualRef(t) = ManualRef(u) => t = u
  /\ \A o, p : PayRef(o) # TopUpRef(p) /\ PayRef(o) # ManualRef(p) /\ TopUpRef(o) # ManualRef(p)
  /\ \A o : PayRef(o) # <<"genesis">> /\ TopUpRef(o) # <<"genesis">> /\ ManualRef(o) # <<"genesis">>
  BY DEF PayRef, TopUpRef, ManualRef

-----------------------------------------------------------------------------
(* Every step posts one entry with a new ref, or none.                     *)

Posts(e) ==
  /\ journal' = journal \cup {e} /\ ~HasRef(journal, e.ref)
  /\ Balanced(e.debits, e.credits) /\ PoolEffect(e) \in Int

RefillEntry(o, amt) == TopUpEntry(TopUpRef(o), amt, Facts[o].tryKurus)

LEMMA RefillFacts ==
  ASSUME NEW o \in Orders, NEW amt \in Nat, amt > 0
  PROVE  /\ RefillEntry(o, amt).ref = TopUpRef(o)
         /\ Balanced(RefillEntry(o, amt).debits, RefillEntry(o, amt).credits)
         /\ PoolEffect(RefillEntry(o, amt)) = amt
  BY FactsTyped, TopUpFacts DEF RefillEntry

LEMMA ArmPosts ==
  ASSUME NEW o \in Orders, Arm(o)
  PROVE  journal' = journal \/ Posts(PayEntry(o))
<1>1. CASE MayPost(journal, PayEntry(o))
  <2>1. PoolEffect(PayEntry(o)) \in Int
    BY PayFacts, FactsTyped
  <2>. QED  BY <1>1, <2>1 DEF Arm, MayPost, Posts
<1>2. CASE ~MayPost(journal, PayEntry(o))
  BY <1>2 DEF Arm
<1>. QED  BY <1>1, <1>2

LEMMA BookPosts ==
  ASSUME Typed, BookTopUp
  PROVE  \/ journal' = journal /\ HasRef(journal, TopUpRef(work.o))
         \/ Posts(RefillEntry(work.o, work.amt))
<1>. DEFINE e == RefillEntry(work.o, work.amt)
<1>0. work.at # "idle"
  BY DEF BookTopUp
<1>1. work.o \in Orders /\ work.amt \in Nat /\ work.amt > 0
  BY <1>0, WorkFields DEF BookTopUp, Typed, Memory
<1>2. e.ref = TopUpRef(work.o) /\ Balanced(e.debits, e.credits) /\ PoolEffect(e) \in Int
  BY <1>1, RefillFacts
<1>3. journal' = IF MayPost(journal, e) THEN journal \cup {e} ELSE journal
  BY DEF BookTopUp, RefillEntry
<1>. HIDE DEF e
<1>4. MayPost(journal, e) <=> ~HasRef(journal, TopUpRef(work.o))
  BY <1>2 DEF MayPost
<1>5. CASE HasRef(journal, TopUpRef(work.o))
  BY <1>3, <1>4, <1>5
<1>6. CASE ~HasRef(journal, TopUpRef(work.o))
  <2>1. Posts(e)
    BY <1>2, <1>3, <1>4, <1>6 DEF Posts
  <2>. QED  BY <2>1 DEF e
<1>. QED  BY <1>5, <1>6

LEMMA ResolvePosts ==
  ASSUME Typed, NEW o \in Orders, OperatorResolves(o)
  PROVE  \/ journal' = journal
         \/ \E n \in Landed(o) : Posts(RefillEntry(o, mints[n].amt))
<1>1. ASSUME NEW n \in Landed(o),
             journal' = journal \cup {RefillEntry(o, mints[n].amt)}
      PROVE  Posts(RefillEntry(o, mints[n].amt))
  <2>1. mints[n] \in MintTx
    BY DEF Landed, Typed, Shape
  <2>2. mints[n].amt \in Nat /\ mints[n].amt > 0
    BY <2>1 DEF MintTx
  <2>3. ~HasRef(journal, TopUpRef(o))
    BY DEF OperatorResolves
  <2>4. LET e == RefillEntry(o, mints[n].amt) IN
        e.ref = TopUpRef(o) /\ Balanced(e.debits, e.credits) /\ PoolEffect(e) \in Int
    BY <2>2, RefillFacts
  <2>. QED  BY <1>1, <2>3, <2>4 DEF Posts
<1>. QED  BY <1>1 DEF OperatorResolves, RefillEntry

LEMMA ManualPosts ==
  ASSUME NEW t \in Transfers, ManualTopUp(t)
  PROVE  LET e == TopUpEntry(ManualRef(t), 1, 1) IN
         Posts(e) /\ e.ref = ManualRef(t) /\ PoolEffect(e) = 1
<1>. DEFINE e == TopUpEntry(ManualRef(t), 1, 1)
<1>1. e.ref = ManualRef(t) /\ Balanced(e.debits, e.credits) /\ PoolEffect(e) = 1
  BY TopUpFacts
<1>2. journal' = journal \cup {e} /\ ~HasRef(journal, ManualRef(t))
  BY DEF ManualTopUp
<1>. HIDE DEF e
<1>3. Posts(e)
  BY <1>1, <1>2 DEF Posts
<1>. QED  BY <1>1, <1>3 DEF e

LEMMA GenesisPosts ==
  ASSUME Typed, BootGenesis
  PROVE  \/ journal' = journal /\ (journal # {} \/ proc.base <= 0)
         \/ /\ journal = {}
            /\ \E e : Posts(e) /\ e.ref = <<"genesis">> /\ PoolEffect(e) = proc.base
<1>0. proc.base \in Int
  BY DEF Typed, Shape, ProcTyped
<1>1. PICK rate \in Rates :
        journal' = IF journal = {} /\ proc.base > 0
                   THEN {TopUpEntry(<<"genesis">>, proc.base, proc.base * rate)} ELSE journal
  BY DEF BootGenesis
<1>2. CASE journal = {} /\ proc.base > 0
  <2>. DEFINE e == TopUpEntry(<<"genesis">>, proc.base, proc.base * rate)
  <2>1. rate \in Nat /\ rate > 0 /\ proc.base \in Nat /\ proc.base > 0
    BY <1>0, <1>2, RefillAssumption
  <2>2. proc.base * rate \in Nat /\ proc.base * rate > 0
    BY <2>1
  <2>3. e.ref = <<"genesis">> /\ Balanced(e.debits, e.credits) /\ PoolEffect(e) = proc.base
    BY <2>1, <2>2, TopUpFacts
  <2>4. journal' = journal \cup {e} /\ ~HasRef(journal, e.ref)
    BY <1>1, <1>2 DEF HasRef
  <2>. HIDE DEF e
  <2>5. Posts(e)
    BY <1>0, <2>3, <2>4 DEF Posts
  <2>. QED  BY <1>2, <2>3, <2>5
<1>3. CASE ~(journal = {} /\ proc.base > 0)
  BY <1>0, <1>1, <1>3
<1>. QED  BY <1>2, <1>3

LEMMA PostKeeps ==
  ASSUME JournalOk, NEW e, Posts(e), evid \subseteq evid', moved \subseteq moved',
         \A o \in Orders : e.ref = PayRef(o) => o \in evid',
         \A t \in Transfers : e.ref = ManualRef(t) => t \in moved'
  PROVE  JournalOk'
<1>1. IsFiniteSet(journal')
  BY FS_AddElement DEF JournalOk, Posts
<1>2. Hydrates(journal')
  <2>1. \A x \in journal' : Balanced(x.debits, x.credits)
    BY DEF JournalOk, Hydrates, Posts
  <2>2. \A x, y \in journal' : x.ref = y.ref => x = y
    BY DEF JournalOk, Hydrates, Posts, HasRef
  <2>. QED  BY <2>1, <2>2 DEF Hydrates
<1>3. \A x \in journal' : PoolEffect(x) \in Int
  BY DEF JournalOk, Posts
<1>4. \A o \in Orders : HasRef(journal', PayRef(o)) => o \in evid'
  BY DEF JournalOk, Posts, HasRef
<1>5. \A t \in Transfers : HasRef(journal', ManualRef(t)) => t \in moved'
  BY DEF JournalOk, Posts, HasRef
<1>. QED  BY <1>1, <1>2, <1>3, <1>4, <1>5 DEF JournalOk, PoolEffect

LEMMA LogsGrow ==
  ASSUME [Next]_vars
  PROVE  evid \subseteq evid' /\ moved \subseteq moved' /\ paid \subseteq paid'
  BY DEF Next, vars, Reserve, ReleaseReservation, AppendEvidence, MarkReservationSettled, Arm, Claim,
         OperatorResolves, PayLands, Worker, RateFails, AlreadyBooked, MintBlocked, OpenIntent,
         SendMint, SendRefused, FinalitySuccess, FinalityFails, BookTopUp, CloseIntent, CreditPool,
         LateThrow, Boot, BootRead, BootGenesis, BootSweep, Crash, ManualTopUp, AdminTransfers,
         MintLands, MintExpires, chain, disk, memory

LEMMA WhoPosts ==
  ASSUME [Next]_vars
  PROVE  \/ UNCHANGED journal \/ BookTopUp \/ BootGenesis
         \/ \E o \in Orders : Arm(o) \/ OperatorResolves(o)
         \/ \E t \in Transfers : ManualTopUp(t)
  BY DEF Next, vars, Reserve, ReleaseReservation, AppendEvidence, MarkReservationSettled, Claim,
         PayLands, Worker, RateFails, AlreadyBooked, MintBlocked, OpenIntent,
         SendMint, SendRefused, FinalitySuccess, FinalityFails, CloseIntent, CreditPool,
         LateThrow, Boot, BootRead, BootSweep, Crash, AdminTransfers,
         MintLands, MintExpires, chain, disk, memory

LEMMA NextJournalOk == ASSUME Typed, JournalOk, [Next]_vars PROVE JournalOk'
<1>0. evid \subseteq evid' /\ moved \subseteq moved'
  BY LogsGrow
<1>1. CASE UNCHANGED journal
  BY <1>0, <1>1 DEF JournalOk, PoolEffect
<1>2. ASSUME NEW o \in Orders, Arm(o) PROVE JournalOk'
  <2>1. PayEntry(o).ref = PayRef(o) /\ o \in evid
    BY <1>2, PayFacts DEF Arm
  <2>2. CASE Posts(PayEntry(o))
    <3>. DEFINE e == PayEntry(o)
    <3>1. /\ \A p \in Orders : e.ref = PayRef(p) => p \in evid'
          /\ \A t \in Transfers : e.ref = ManualRef(t) => t \in moved'
      BY <1>0, <2>1, RefsDiffer
    <3>. HIDE DEF e
    <3>. QED  BY <1>0, <2>2, <3>1, PostKeeps DEF e
  <2>. QED  BY <1>1, <1>2, <2>2, ArmPosts
<1>3. ASSUME NEW o \in Orders, NEW amt \in Nat, amt > 0, Posts(RefillEntry(o, amt)) PROVE JournalOk'
  <2>. DEFINE e == RefillEntry(o, amt)
  <2>1. e.ref = TopUpRef(o)
    BY <1>3, RefillFacts
  <2>2. /\ \A p \in Orders : e.ref = PayRef(p) => p \in evid'
        /\ \A t \in Transfers : e.ref = ManualRef(t) => t \in moved'
    BY <2>1, RefsDiffer
  <2>. HIDE DEF e
  <2>. QED  BY <1>0, <1>3, <2>2, PostKeeps DEF e
<1>4. CASE BookTopUp
  <2>1. work.o \in Orders /\ work.amt \in Nat /\ work.amt > 0
    BY <1>4, WorkFields DEF BookTopUp, Typed, Memory
  <2>. QED  BY <1>1, <1>3, <1>4, <2>1, BookPosts
<1>5. ASSUME NEW o \in Orders, OperatorResolves(o) PROVE JournalOk'
  <2>1. \A n \in Landed(o) : mints[n].amt \in Nat /\ mints[n].amt > 0
    <3>1. \A n \in Landed(o) : mints[n] \in MintTx
      BY DEF Landed, Typed, Shape
    <3>. QED  BY <3>1 DEF MintTx
  <2>. QED  BY <1>1, <1>3, <1>5, <2>1, ResolvePosts
<1>6. ASSUME NEW t \in Transfers, ManualTopUp(t) PROVE JournalOk'
  <2>. DEFINE e == TopUpEntry(ManualRef(t), 1, 1)
  <2>1. Posts(e) /\ e.ref = ManualRef(t) /\ t \in moved
    BY <1>6, ManualPosts DEF ManualTopUp
  <2>2. /\ \A p \in Orders : e.ref = PayRef(p) => p \in evid'
        /\ \A u \in Transfers : e.ref = ManualRef(u) => u \in moved'
    BY <1>0, <2>1, RefsDiffer
  <2>. HIDE DEF e
  <2>. QED  BY <1>0, <2>1, <2>2, PostKeeps
<1>7. CASE BootGenesis
  <2>1. ASSUME NEW e, Posts(e), e.ref = <<"genesis">> PROVE JournalOk'
    <3>1. /\ \A p \in Orders : e.ref = PayRef(p) => p \in evid'
          /\ \A u \in Transfers : e.ref = ManualRef(u) => u \in moved'
      BY <2>1, RefsDiffer
    <3>. QED  BY <1>0, <2>1, <3>1, PostKeeps
  <2>. QED  BY <1>1, <1>7, <2>1, GenesisPosts
<1>. QED  BY <1>1, <1>2, <1>4, <1>5, <1>6, <1>7, WhoPosts

LEMMA JournalGrows == ASSUME Typed, [Next]_vars PROVE journal \subseteq journal'
<1>1. ASSUME NEW e, Posts(e) PROVE journal \subseteq journal'
  BY <1>1 DEF Posts
<1>2. CASE BootGenesis
  BY <1>1, <1>2, GenesisPosts
<1>. QED  BY <1>1, <1>2, WhoPosts, ArmPosts, BookPosts, ResolvePosts, ManualPosts

\* Sums of what orders pay out.
LEMMA StroopsSum ==
  /\ \A S \in SUBSET Orders : IsFiniteSet(S) /\ SumOf(Stroops, S) \in Nat
  /\ \A S \in SUBSET Orders, o \in Orders :
       o \notin S => SumOf(Stroops, S \cup {o}) = SumOf(Stroops, S) + Facts[o].stroops
  /\ \A S, R \in SUBSET Orders : S \subseteq R => SumOf(Stroops, S) <= SumOf(Stroops, R)
  /\ \A S, R \in SUBSET Orders :
       S \cap R = {} => SumOf(Stroops, S \cup R) = SumOf(Stroops, S) + SumOf(Stroops, R)
<1>0. \A o \in Orders : Stroops[o] = Facts[o].stroops /\ Stroops[o] \in Nat
  BY FactsTyped DEF Stroops
<1>1. ASSUME NEW S \in SUBSET Orders PROVE IsFiniteSet(S) /\ SumOf(Stroops, S) \in Nat
  <2>1. IsFiniteSet(S)
    BY RefillAssumption, FS_Subset
  <2>2. SumOf(Stroops, S) \in Int /\ SumOf(Stroops, S) >= 0
    BY <1>0, <2>1, SumType
  <2>. QED  BY <2>1, <2>2
<1>2. ASSUME NEW S \in SUBSET Orders, NEW o \in Orders, o \notin S
      PROVE  SumOf(Stroops, S \cup {o}) = SumOf(Stroops, S) + Facts[o].stroops
  <2>1. \A x \in S \cup {o} : Stroops[x] \in Int
    BY <1>0
  <2>2. SumOf(Stroops, S \cup {o}) = SumOf(Stroops, S) + Stroops[o]
    BY <1>1, <1>2, <2>1, SumAdd
  <2>. QED  BY <1>0, <2>2
<1>3. ASSUME NEW S \in SUBSET Orders, NEW R \in SUBSET Orders, S \subseteq R
      PROVE  SumOf(Stroops, S) <= SumOf(Stroops, R)
  <2>1. \A x \in R : Stroops[x] \in Nat
    BY <1>0
  <2>. QED  BY <1>1, <1>3, <2>1, SumSubset
<1>4. ASSUME NEW S \in SUBSET Orders, NEW R \in SUBSET Orders, S \cap R = {}
      PROVE  SumOf(Stroops, S \cup R) = SumOf(Stroops, S) + SumOf(Stroops, R)
  <2>1. \A x \in S \cup R : Stroops[x] \in Int
    BY <1>0
  <2>. QED  BY <1>1, <1>4, <2>1, SumUnion
<1>. QED  BY <1>1, <1>2, <1>3, <1>4

-----------------------------------------------------------------------------
(* The gate: what is promised is covered.                                  *)

Owed == {o \in Orders : resv[o] = "held" /\ o \notin paid}
GateInv == Typed /\ JournalOk /\ EmptyBooks /\ ResvOk /\ BaseCovered /\ PromisesCovered

LEMMA OwedSum == PromisesCovered <=> SumOf(Stroops, Owed) <= bal
  BY DEF PromisesCovered, Owed

LEMMA InitGate == Init => GateInv
<1>. SUFFICES ASSUME Init PROVE GateInv
  OBVIOUS
<1>1. Typed
  BY InitTyped
<1>2. JournalOk
  BY FS_EmptySet DEF Init, JournalOk, Hydrates, HasRef
<1>3. EmptyBooks /\ ResvOk /\ BaseCovered
  BY DEF Init, EmptyBooks, ResvOk, BaseCovered
<1>4. Owed = {} /\ bal \in Nat
  BY RefillAssumption DEF Init, Owed
<1>5. PromisesCovered
  BY <1>4, SumEmpty, OwedSum
<1>. QED  BY <1>1, <1>2, <1>3, <1>5 DEF GateInv

\* The steps that move money, reservations or the base.
LEMMA WhoMoves ==
  ASSUME [Next]_vars
  PROVE  \/ UNCHANGED <<bal, paid, evid, resv, proc>>
         \/ \E o \in Orders : \/ Reserve(o) \/ ReleaseReservation(o) \/ AppendEvidence(o)
                              \/ MarkReservationSettled(o) \/ PayLands(o)
         \/ CreditPool \/ Boot \/ Crash
         \/ \E t \in Transfers : AdminTransfers(t)
         \/ \E n \in DOMAIN mints : MintLands(n)
<1>1. ASSUME NEW o \in Orders, Arm(o) \/ Claim(o) \/ OperatorResolves(o)
      PROVE UNCHANGED <<bal, paid, evid, resv, proc>>
  BY <1>1 DEF Arm, Claim, OperatorResolves, chain, disk, memory
<1>2. ASSUME RateFails \/ AlreadyBooked \/ MintBlocked \/ SendRefused
      PROVE UNCHANGED <<bal, paid, evid, resv, proc>>
  BY <1>2 DEF RateFails, AlreadyBooked, MintBlocked, SendRefused, chain, disk
<1>a. ASSUME OpenIntent PROVE UNCHANGED <<bal, paid, evid, resv, proc>>
  BY <1>a DEF OpenIntent, chain
<1>3. ASSUME FinalitySuccess \/ FinalityFails \/ LateThrow \/ BookTopUp \/ CloseIntent
      PROVE UNCHANGED <<bal, paid, evid, resv, proc>>
  BY <1>3 DEF FinalitySuccess, FinalityFails, LateThrow, BookTopUp, CloseIntent, chain, disk
<1>4. ASSUME SendMint \/ (\E t \in Transfers : ManualTopUp(t)) \/ \E n \in DOMAIN mints : MintExpires(n)
      PROVE UNCHANGED <<bal, paid, evid, resv, proc>>
  BY <1>4 DEF SendMint, ManualTopUp, MintExpires, chain, disk, memory
<1>5. ASSUME UNCHANGED vars PROVE UNCHANGED <<bal, paid, evid, resv, proc>>
  BY <1>5 DEF vars
<1>. QED  BY <1>1, <1>2, <1>a, <1>3, <1>4, <1>5 DEF Next, Worker

\* A reservation is marked settled, or was not held any more.
LEMMA Marks ==
  ASSUME Typed, NEW o \in Orders, MarkReservationSettled(o)
  PROVE  /\ \A p \in Orders : p # o => resv'[p] = resv[p]
         /\ resv'[o] = IF resv[o] = "held" THEN "settled" ELSE resv[o]
         /\ o \in evid /\ o \in paid /\ Up /\ UNCHANGED <<chain, journal, evid, proc, work>>
<1>1. resv \in ResvTyped
  BY DEF Typed, Shape
<1>2. CASE resv[o] = "held"
  <2>1. resv' = [resv EXCEPT ![o] = "settled"]
    BY <1>2 DEF MarkReservationSettled
  <2>. QED  BY <1>1, <1>2, <2>1 DEF MarkReservationSettled, Typed, Shape, ResvTyped
<1>3. CASE resv[o] # "held"
  <2>1. resv' = [resv EXCEPT ![o] = resv[o]]
    BY <1>3 DEF MarkReservationSettled
  <2>. QED  BY <1>1, <1>3, <2>1 DEF MarkReservationSettled, Typed, Shape, ResvTyped
<1>. QED  BY <1>2, <1>3

LEMMA NextResvOk == ASSUME Typed, ResvOk, [Next]_vars PROVE ResvOk'
<1>0. resv \in ResvTyped /\ evid \subseteq evid'
  BY LogsGrow DEF Typed, Shape
<1>1. CASE UNCHANGED <<paid, resv>>
  BY <1>0, <1>1 DEF ResvOk
<1>2. ASSUME NEW o \in Orders, Reserve(o) \/ ReleaseReservation(o) \/ PayLands(o)
      PROVE  ResvOk'
  BY <1>0, <1>2 DEF ResvOk, Reserve, ReleaseReservation, PayLands, ResvTyped, chain, disk
<1>3. ASSUME NEW o \in Orders, MarkReservationSettled(o) PROVE ResvOk'
  BY <1>0, <1>3, Marks DEF ResvOk, chain
<1>4. CASE BootSweep
  <2>1. \A o \in Orders : resv'[o] = IF resv[o] = "settled" \/ o \in evid THEN "released" ELSE resv[o]
    BY <1>4 DEF BootSweep, Swept
  <2>2. UNCHANGED <<paid, evid>>
    BY <1>4 DEF BootSweep, chain
  <2>. QED  BY <2>1, <2>2 DEF ResvOk
<1>5. CASE \/ \E o \in Orders : AppendEvidence(o)
           \/ CreditPool \/ BootRead \/ BootGenesis \/ Crash
           \/ \E t \in Transfers : AdminTransfers(t)
           \/ \E n \in DOMAIN mints : MintLands(n)
  BY <1>1, <1>5 DEF AppendEvidence, CreditPool, BootRead, BootGenesis, Crash, AdminTransfers,
                    MintLands, chain, disk
<1>. QED  BY <1>1, <1>2, <1>3, <1>4, <1>5, WhoMoves DEF Boot

\* With nothing booked nothing is promised, and the gate lets nothing in.
LEMMA NothingToReserve ==
  ASSUME Typed, EmptyBooks, journal = {}, NEW o \in Orders
  PROVE  ~Reserve(o)
<1>. SUFFICES ASSUME Reserve(o) PROVE FALSE
  OBVIOUS
<1>1. proc.base = 0 /\ \A p \in Orders : resv[p] = "none"
  BY DEF EmptyBooks, Reserve, Up
<1>2. {p \in Orders : resv[p] \in {"held", "settled"}} = {}
  BY <1>1
<1>3. SumReserved = 0
  BY <1>2, SumEmpty DEF SumReserved
<1>. QED  BY <1>1, <1>3, FactsTyped DEF Reserve, Available

\* Who signs a mint.
LEMMA WhoMints ==
  ASSUME [Next]_vars
  PROVE  \/ UNCHANGED mints \/ SendMint
         \/ \E n \in DOMAIN mints : MintLands(n) \/ MintExpires(n)
<1>1. ASSUME NEW o \in Orders, Reserve(o) \/ ReleaseReservation(o) \/ AppendEvidence(o) \/ MarkReservationSettled(o)
      PROVE UNCHANGED mints
  BY <1>1 DEF Reserve, ReleaseReservation, AppendEvidence, MarkReservationSettled, chain
<1>2. ASSUME NEW o \in Orders, Arm(o) \/ Claim(o) \/ OperatorResolves(o) PROVE UNCHANGED mints
  BY <1>2 DEF Arm, Claim, OperatorResolves, chain, disk, memory
<1>3. ASSUME RateFails \/ AlreadyBooked \/ MintBlocked \/ SendRefused PROVE UNCHANGED mints
  BY <1>3 DEF RateFails, AlreadyBooked, MintBlocked, SendRefused, chain, disk
<1>a. ASSUME OpenIntent PROVE UNCHANGED mints
  BY <1>a DEF OpenIntent, chain
<1>4. ASSUME FinalitySuccess \/ FinalityFails \/ LateThrow \/ BookTopUp \/ CloseIntent
      PROVE UNCHANGED mints
  BY <1>4 DEF FinalitySuccess, FinalityFails, LateThrow, BookTopUp, CloseIntent, chain, disk
<1>5. ASSUME Boot \/ Crash PROVE UNCHANGED mints
  BY <1>5 DEF Boot, BootRead, BootGenesis, BootSweep, Crash, chain, disk
<1>6. ASSUME NEW o \in Orders, PayLands(o) PROVE UNCHANGED mints
  BY <1>6 DEF PayLands
<1>7. ASSUME CreditPool PROVE UNCHANGED mints
  BY <1>7 DEF CreditPool, chain
<1>8. ASSUME NEW t \in Transfers, ManualTopUp(t) \/ AdminTransfers(t) PROVE UNCHANGED mints
  BY <1>8 DEF ManualTopUp, AdminTransfers, chain
<1>9. ASSUME UNCHANGED vars PROVE UNCHANGED mints
  BY <1>9 DEF vars
<1>. QED  BY <1>1, <1>2, <1>a, <1>3, <1>4, <1>5, <1>6, <1>7, <1>8, <1>9 DEF Next, Worker

LEMMA WhoTransfers ==
  ASSUME [Next]_vars
  PROVE  UNCHANGED moved \/ \E t \in Transfers : AdminTransfers(t)
<1>1. ASSUME NEW o \in Orders, Reserve(o) \/ ReleaseReservation(o) \/ AppendEvidence(o) \/ MarkReservationSettled(o)
      PROVE UNCHANGED moved
  BY <1>1 DEF Reserve, ReleaseReservation, AppendEvidence, MarkReservationSettled, chain
<1>2. ASSUME NEW o \in Orders, Arm(o) \/ Claim(o) \/ OperatorResolves(o) PROVE UNCHANGED moved
  BY <1>2 DEF Arm, Claim, OperatorResolves, chain, disk, memory
<1>3. ASSUME RateFails \/ AlreadyBooked \/ MintBlocked \/ SendRefused PROVE UNCHANGED moved
  BY <1>3 DEF RateFails, AlreadyBooked, MintBlocked, SendRefused, chain, disk
<1>a. ASSUME OpenIntent PROVE UNCHANGED moved
  BY <1>a DEF OpenIntent, chain
<1>4. ASSUME FinalitySuccess \/ FinalityFails \/ LateThrow \/ BookTopUp \/ CloseIntent
      PROVE UNCHANGED moved
  BY <1>4 DEF FinalitySuccess, FinalityFails, LateThrow, BookTopUp, CloseIntent, chain, disk
<1>5. ASSUME Boot \/ Crash PROVE UNCHANGED moved
  BY <1>5 DEF Boot, BootRead, BootGenesis, BootSweep, Crash, chain, disk
<1>6. ASSUME NEW o \in Orders, PayLands(o) PROVE UNCHANGED moved
  BY <1>6 DEF PayLands
<1>7. ASSUME CreditPool \/ SendMint PROVE UNCHANGED moved
  BY <1>7 DEF CreditPool, SendMint, chain
<1>8. ASSUME NEW t \in Transfers, ManualTopUp(t) PROVE UNCHANGED moved
  BY <1>8 DEF ManualTopUp, chain
<1>9. ASSUME NEW n \in DOMAIN mints, MintLands(n) \/ MintExpires(n) PROVE UNCHANGED moved
  BY <1>9 DEF MintLands, MintExpires
<1>10. ASSUME UNCHANGED vars PROVE UNCHANGED moved
  BY <1>10 DEF vars
<1>. QED  BY <1>1, <1>2, <1>a, <1>3, <1>4, <1>5, <1>6, <1>7, <1>8, <1>9, <1>10 DEF Next, Worker

LEMMA NextEmptyBooks == ASSUME Typed, EmptyBooks, [Next]_vars PROVE EmptyBooks'
<1>. SUFFICES ASSUME journal' = {} PROVE EmptyBooks'
  BY DEF EmptyBooks
<1>0. journal = {}
  BY JournalGrows
<1>1. /\ paid = {} /\ moved = {} /\ mints = <<>> /\ evid = {} /\ bal \in Nat
      /\ \A o \in Orders : resv[o] = "none"
      /\ proc.at = "read" => proc.base = bal
      /\ proc.at \in {"opened", "up"} => proc.base = 0
      /\ work.at = "idle" /\ proc \in ProcTyped
  BY <1>0 DEF EmptyBooks, Typed, Shape, Memory
<1>2. mints' = <<>> /\ moved' = {}
  BY <1>0, <1>1, WhoMints, WhoTransfers DEF SendMint, AdminTransfers
<1>3. CASE UNCHANGED <<bal, paid, resv, proc>>
  BY <1>1, <1>2, <1>3 DEF EmptyBooks
<1>4. ASSUME NEW o \in Orders,
             \/ Reserve(o) \/ ReleaseReservation(o) \/ AppendEvidence(o)
             \/ MarkReservationSettled(o) \/ PayLands(o)
      PROVE  FALSE
  <2>1. ~Reserve(o)
    BY <1>0, NothingToReserve
  <2>. QED  BY <1>1, <1>4, <2>1 DEF ReleaseReservation, AppendEvidence, MarkReservationSettled, PayLands,
                                    Typed, Shape
<1>5. CASE CreditPool
  BY <1>1, <1>5 DEF CreditPool
<1>6. CASE BootRead
  <2>1. proc'.at = "read" /\ proc'.base = bal
    BY <1>6 DEF BootRead
  <2>. QED  BY <1>1, <1>2, <1>6, <2>1 DEF EmptyBooks, BootRead, chain, disk
<1>7. CASE BootGenesis
  <2>1. proc'.at = "opened" /\ proc'.base = proc.base /\ proc.at = "read"
    BY <1>1, <1>7 DEF BootGenesis, ProcTyped
  <2>2. proc.base <= 0
    <3>1. ASSUME NEW e, Posts(e) PROVE FALSE
      BY <3>1 DEF Posts
    <3>. QED  BY <1>0, <1>7, <3>1, GenesisPosts
  <2>. QED  BY <1>1, <1>2, <1>7, <2>1, <2>2 DEF EmptyBooks, BootGenesis, chain
<1>8. CASE BootSweep
  <2>1. proc'.at = "up" /\ proc'.base = proc.base /\ proc.at = "opened"
    BY <1>1, <1>8 DEF BootSweep, ProcTyped
  <2>2. \A o \in Orders : resv'[o] = "none"
    BY <1>1, <1>8 DEF BootSweep, Swept
  <2>. QED  BY <1>1, <1>2, <1>8, <2>1, <2>2 DEF EmptyBooks, BootSweep, chain
<1>9. CASE Crash
  <2>1. proc'.at = "down"
    BY <1>1, <1>9 DEF Crash, ProcTyped
  <2>. QED  BY <1>1, <1>2, <1>9, <2>1 DEF EmptyBooks, Crash, chain, disk
<1>10. (~\E t \in Transfers : AdminTransfers(t)) /\ ~\E n \in DOMAIN mints : MintLands(n)
  BY <1>0, <1>1 DEF AdminTransfers
<1>. QED  BY <1>3, <1>4, <1>5, <1>6, <1>7, <1>8, <1>9, <1>10, WhoMoves DEF Boot

\* Only a mint that lands can leave more uncredited than before.
LEMMA UncreditedFalls ==
  ASSUME Typed, [Next]_vars
  PROVE  /\ Uncredited \in Nat /\ Uncredited' \in Nat
         /\ Uncredited' <= Uncredited \/ \E n \in DOMAIN mints : MintLands(n)
<1>0. work.amt \in Nat /\ work'.amt \in Nat /\ work \in WorkTyped
  BY NextTyped DEF Typed, Shape, WorkTyped
<1>1. Uncredited \in Nat /\ Uncredited' \in Nat
  BY <1>0 DEF Uncredited
<1>2. CASE UNCHANGED <<work, mints>>
  BY <1>1, <1>2 DEF Uncredited, Sent
<1>3. CASE work'.at \in {"idle", "rate", "opened"}
  BY <1>1, <1>3 DEF Uncredited
<1>4. CASE SendMint
  <2>1. work'.at = "sent" /\ mints \in Seq(MintTx)
    BY <1>0, <1>4 DEF SendMint, WorkTyped, Typed, Shape
  <2>2. Sent'.st = "net"
    <3>. DEFINE m == [o |-> work.o, amt |-> work.amt, seq |-> issSeq + 1, st |-> "net"]
    <3>1. mints' = Append(mints, m) /\ m.st = "net"
      BY <1>4 DEF SendMint
    <3>. HIDE DEF m
    <3>. QED  BY <2>1, <3>1 DEF Sent
  <2>. QED  BY <1>1, <2>1, <2>2 DEF Uncredited
<1>5. CASE FinalitySuccess \/ BookTopUp \/ CloseIntent
  <2>1. /\ work.at \in {"landed", "booked"} \/ (work.at = "sent" /\ Sent.st = "landed")
        /\ work'.amt = work.amt
    BY <1>0, <1>5 DEF FinalitySuccess, BookTopUp, CloseIntent, WorkTyped
  <2>. QED  BY <1>0, <1>1, <2>1 DEF Uncredited
<1>6. ASSUME NEW n \in DOMAIN mints, MintExpires(n) PROVE Uncredited' <= Uncredited
  <2>1. mints' = [mints EXCEPT ![n].st = "expired"] /\ work' = work
    BY <1>6 DEF MintExpires, memory
  <2>2. Len(mints') = Len(mints) /\ DOMAIN mints = 1 .. Len(mints)
    BY <2>1, MintChanges
  <2>3. \A k \in DOMAIN mints : mints'[k].st = "landed" => mints[k].st = "landed"
    <3>1. \A k \in DOMAIN mints : k # n => mints'[k].st = mints[k].st
      BY <2>1, MintChanges
    <3>2. mints'[n].st = "expired"
      BY <2>1, MintChanges
    <3>. QED  BY <3>1, <3>2
  <2>4. work.at = "sent" => Len(mints) \in DOMAIN mints
    BY <2>2 DEF Typed, Shape, Memory
  <2>5. work.at = "sent" /\ Sent'.st = "landed" => Sent.st = "landed"
    BY <2>2, <2>3, <2>4 DEF Sent
  <2>. QED  BY <1>0, <1>1, <2>1, <2>5 DEF Uncredited
<1>7. \/ UNCHANGED <<work, mints>> \/ work'.at \in {"idle", "rate", "opened"} \/ SendMint
      \/ FinalitySuccess \/ BookTopUp \/ CloseIntent
      \/ \E n \in DOMAIN mints : MintLands(n) \/ MintExpires(n)
  <2>1. ASSUME NEW o \in Orders,
               \/ Reserve(o) \/ ReleaseReservation(o) \/ AppendEvidence(o) \/ MarkReservationSettled(o)
               \/ Arm(o) \/ OperatorResolves(o) \/ PayLands(o)
        PROVE  UNCHANGED <<work, mints>>
    BY <2>1 DEF Reserve, ReleaseReservation, AppendEvidence, MarkReservationSettled, Arm,
                OperatorResolves, PayLands, chain, memory
  <2>2. ASSUME NEW o \in Orders, Claim(o) PROVE work'.at = "rate"
    BY <2>2 DEF Claim
  <2>3. ASSUME NEW o, Failed(o) \/ Settled(o) PROVE work'.at = "idle"
    BY <2>3 DEF Failed, Settled, Idle
  <2>4. ASSUME OpenIntent PROVE work'.at \in {"idle", "opened"}
    <3>1. PICK rate \in Rates :
            LET amt == PlanStroops(work.o, rate) IN
            IF amt > 0 THEN work' = [work EXCEPT !.at = "opened", !.amt = amt] /\ UNCHANGED pend
                       ELSE Failed(work.o)
      BY <2>4 DEF OpenIntent
    <3>2. CASE PlanStroops(work.o, rate) > 0
      BY <1>0, <3>1, <3>2 DEF WorkTyped
    <3>3. CASE ~(PlanStroops(work.o, rate) > 0)
      BY <2>3, <3>1, <3>3
    <3>. QED  BY <3>2, <3>3
  <2>5. ASSUME \/ RateFails \/ AlreadyBooked \/ MintBlocked \/ SendRefused
               \/ FinalityFails \/ LateThrow \/ CreditPool
        PROVE  work'.at = "idle"
    BY <2>3, <2>5 DEF RateFails, AlreadyBooked, MintBlocked, SendRefused, FinalityFails, LateThrow,
                      CreditPool
  <2>6. ASSUME Boot \/ Crash PROVE UNCHANGED <<work, mints>> \/ work'.at = "idle"
    BY <2>6 DEF Boot, BootRead, BootGenesis, BootSweep, Crash, chain, Idle
  <2>7. ASSUME NEW t \in Transfers, ManualTopUp(t) \/ AdminTransfers(t) PROVE UNCHANGED <<work, mints>>
    BY <2>7 DEF ManualTopUp, AdminTransfers, chain, memory
  <2>8. ASSUME UNCHANGED vars PROVE UNCHANGED <<work, mints>>
    BY <2>8 DEF vars
  <2>. QED  BY <2>1, <2>2, <2>4, <2>5, <2>6, <2>7, <2>8 DEF Next, Worker
<1>. QED  BY <1>1, <1>2, <1>3, <1>4, <1>5, <1>6, <1>7

\* What a landing mint adds to the pool is at least what it adds to the uncredited.
LEMMA LandingUncredited ==
  ASSUME Typed, NEW n \in DOMAIN mints, MintLands(n)
  PROVE  Uncredited' - Uncredited <= bal' - bal /\ bal' >= bal
<1>1. /\ mints[n].amt \in Nat /\ work.amt \in Nat /\ bal \in Nat /\ mints \in Seq(MintTx)
      /\ UNCHANGED work
  <2>1. mints[n] \in MintTx
    BY DEF Typed, Shape
  <2>. QED  BY <2>1 DEF Typed, Shape, WorkTyped, MintTx, MintLands, memory
<1>2. PICK st \in {"landed", "failed"} :
        mints' = [mints EXCEPT ![n].st = st] /\ bal' = bal + (IF st = "landed" THEN mints[n].amt ELSE 0)
  <2>1. bal + 0 = bal
    BY <1>1
  <2>. QED  BY <2>1 DEF MintLands
<1>3. /\ Len(mints') = Len(mints) /\ DOMAIN mints = 1 .. Len(mints)
      /\ mints'[n].st = st /\ \A k \in DOMAIN mints : k # n => mints'[k].st = mints[k].st
  BY <1>2, MintChanges
<1>4. work.at = "sent" => Len(mints) \in DOMAIN mints /\ mints[Len(mints)].amt = work.amt
  BY <1>3 DEF Typed, Shape, Memory, Sent
<1>5. Uncredited' = Uncredited \/ Uncredited' = 0 \/ (work.at = "sent" /\ n = Len(mints) /\ st = "landed")
  BY <1>1, <1>3, <1>4 DEF Uncredited, Sent
<1>6. Uncredited \in Nat /\ Uncredited' \in Nat /\ Uncredited' <= work.amt
  BY <1>1 DEF Uncredited
<1>7. bal' >= bal /\ bal' \in Nat
  BY <1>1, <1>2
<1>8. CASE work.at = "sent" /\ n = Len(mints) /\ st = "landed"
  <2>1. bal' = bal + work.amt
    BY <1>2, <1>4, <1>8
  <2>. QED  BY <1>1, <1>6, <1>7, <2>1
<1>9. CASE Uncredited' = Uncredited \/ Uncredited' = 0
  <2>1. \A u, v, a, b \in Nat : a >= b /\ (u = v \/ u = 0) => u - v <= a - b
    OBVIOUS
  <2>. QED  BY <1>1, <1>6, <1>7, <1>9, <2>1
<1>. QED  BY <1>5, <1>8, <1>9

\* What a step does to the two sets of orders the gate's sums run over.
LEMMA SetsKept ==
  ASSUME UNCHANGED <<paid, resv, evid>>, Up' <=> Up
  PROVE  PaidCounted' = PaidCounted /\ Owed' = Owed
  BY DEF PaidCounted, Owed

LEMMA GateSets ==
  ASSUME Typed, ResvOk, NEW o \in Orders,
         ReleaseReservation(o) \/ AppendEvidence(o) \/ MarkReservationSettled(o)
  PROVE  PaidCounted' = PaidCounted /\ Owed' \subseteq Owed
<1>0. resv \in ResvTyped /\ evid \subseteq paid
  BY DEF Typed, Shape
<1>1. CASE ReleaseReservation(o)
  BY <1>0, <1>1 DEF ReleaseReservation, PaidCounted, Owed, ResvTyped, chain, memory, Up
<1>2. CASE AppendEvidence(o)
  BY <1>0, <1>2 DEF AppendEvidence, PaidCounted, Owed, chain, Up
<1>3. CASE MarkReservationSettled(o)
  <2>1. /\ \A p \in Orders : p # o => resv'[p] = resv[p]
        /\ resv'[o] = IF resv[o] = "held" THEN "settled" ELSE resv[o]
        /\ o \in paid /\ Up /\ UNCHANGED <<paid, evid, proc>>
    BY <1>3, Marks DEF chain
  <2>2. PaidCounted' = PaidCounted
    BY <2>1 DEF PaidCounted, Up
  <2>3. Owed' \subseteq Owed
    BY <2>1 DEF Owed
  <2>. QED  BY <2>2, <2>3
<1>. QED  BY <1>1, <1>2, <1>3

LEMMA PaySets ==
  ASSUME Typed, NEW o \in Orders, PayLands(o)
  PROVE  /\ PaidCounted' = PaidCounted \cup {o} /\ o \notin PaidCounted
         /\ Owed = Owed' \cup {o} /\ o \notin Owed'
  BY DEF Typed, Shape, PayLands, PaidCounted, Owed, disk, memory, Up

LEMMA ReserveSets ==
  ASSUME Typed, ResvOk, NEW o \in Orders, Reserve(o)
  PROVE  /\ PaidCounted' = PaidCounted /\ Owed' = Owed \cup {o} /\ o \notin Owed
         /\ {p \in Orders : resv[p] \in {"held", "settled"}} = PaidCounted \cup Owed
         /\ PaidCounted \cap Owed = {}
<1>0. resv \in ResvTyped /\ evid \subseteq paid
  BY DEF Typed, Shape
<1>1. /\ Up /\ resv[o] = "none" /\ UNCHANGED <<paid, evid, proc>>
      /\ \A p \in Orders : resv'[p] = IF p = o THEN "held" ELSE resv[p]
  BY <1>0 DEF Reserve, chain, memory, ResvTyped
<1>2. o \notin paid /\ \A p \in Orders : resv[p] = "settled" => p \in paid
  BY <1>0, <1>1 DEF ResvOk
<1>3. PaidCounted' = PaidCounted
  BY <1>1, <1>2 DEF PaidCounted, Up
<1>4. Owed' = Owed \cup {o} /\ o \notin Owed
  BY <1>1, <1>2 DEF Owed
<1>5. {p \in Orders : resv[p] \in {"held", "settled"}} = PaidCounted \cup Owed
  BY <1>1, <1>2 DEF PaidCounted, Owed
<1>. QED  BY <1>3, <1>4, <1>5 DEF PaidCounted, Owed

LEMMA SweepSets ==
  ASSUME Typed, ResvOk, BootSweep
  PROVE  PaidCounted' = PaidCounted /\ Owed' = Owed
<1>1. \A o \in Orders : resv'[o] = IF resv[o] = "settled" \/ o \in evid THEN "released" ELSE resv[o]
  BY DEF BootSweep, Swept
<1>2. UNCHANGED <<paid, evid>> /\ ~Up /\ evid \subseteq paid
  BY DEF BootSweep, chain, Up, Typed, Shape
<1>3. \A o \in Orders : resv[o] = "settled" => o \in evid
  BY DEF ResvOk
<1>4. PaidCounted' = PaidCounted
  <2>1. Up'
    BY DEF BootSweep, Up, Typed, Shape, ProcTyped
  <2>. QED  BY <1>1, <1>2, <1>3, <2>1 DEF PaidCounted
<1>5. Owed' = Owed
  BY <1>1, <1>2, <1>3 DEF Owed
<1>. QED  BY <1>4, <1>5

LEMMA SumsTyped ==
  /\ PaidCounted \in SUBSET Orders /\ Owed \in SUBSET Orders
  /\ SumOf(Stroops, PaidCounted) \in Nat /\ SumOf(Stroops, Owed) \in Nat
<1>1. PaidCounted \in SUBSET Orders /\ Owed \in SUBSET Orders
  BY DEF PaidCounted, Owed
<1>. QED  BY <1>1, StroopsSum

LEMMA BaseKept ==
  ASSUME Typed, Typed', BaseCovered, Uncredited \in Nat, Uncredited' \in Nat, PaidCounted' = PaidCounted,
         proc'.at # "down" =>
           proc.at # "down" /\ proc'.base + Uncredited' - bal' <= proc.base + Uncredited - bal
  PROVE  BaseCovered'
<1>. DEFINE s == SumOf(Stroops, PaidCounted)
<1>0. bal \in Nat /\ bal' \in Nat /\ proc.base \in Int /\ proc'.base \in Int
  BY DEF Typed, Shape, ProcTyped
<1>1. s \in Nat /\ s' = s
  <2>1. s \in Nat
    BY SumsTyped
  <2>2. Stroops' = Stroops
    BY DEF Stroops
  <2>. QED  BY <2>1, <2>2
<1>2. proc.at # "down" => proc.base + Uncredited <= bal + s
  BY DEF BaseCovered
<1>. HIDE DEF s
<1>3. proc'.at # "down" => proc'.base + Uncredited' <= bal' + s
  BY <1>0, <1>1, <1>2
<1>4. proc'.at # "down" => proc'.base + Uncredited' <= bal' + s'
  BY <1>1, <1>3
<1>. QED  BY <1>4 DEF BaseCovered, s

\* Two facts about numbers.
LEMMA RoomStays == \A a, b \in Nat : a + 0 <= a + b
  OBVIOUS

LEMMA GapStays ==
  \A x \in Int, u, v, a, b \in Nat : u - v <= a - b => x + u - a <= x + v - b
  OBVIOUS

LEMMA NextBaseCovered == ASSUME Typed, ResvOk, BaseCovered, [Next]_vars PROVE BaseCovered'
<1>0. Typed' /\ proc \in ProcTyped /\ bal \in Nat /\ proc.base \in Int
  BY NextTyped DEF Typed, Shape, ProcTyped
<1>a. Uncredited \in Nat /\ Uncredited' \in Nat
  BY UncreditedFalls
<1>b. (~\E n \in DOMAIN mints : MintLands(n)) => Uncredited' <= Uncredited
  BY UncreditedFalls
<1>1. CASE UNCHANGED <<bal, paid, evid, resv, proc>> /\ ~\E n \in DOMAIN mints : MintLands(n)
  <2>1. PaidCounted' = PaidCounted
    BY <1>1, SetsKept DEF Up
  <2>2. proc'.base + Uncredited' - bal' <= proc.base + Uncredited - bal
    BY <1>0, <1>1, <1>a, <1>b
  <2>. QED  BY <1>0, <1>1, <1>a, <2>1, <2>2, BaseKept
<1>2. ASSUME NEW o \in Orders, \/ Reserve(o) \/ ReleaseReservation(o) \/ AppendEvidence(o)
                               \/ MarkReservationSettled(o)
      PROVE  BaseCovered'
  <2>1. PaidCounted' = PaidCounted
    BY <1>2, GateSets, ReserveSets
  <2>2. UNCHANGED <<bal, proc, work, mints>>
    BY <1>2 DEF Reserve, ReleaseReservation, AppendEvidence, MarkReservationSettled, chain, memory
  <2>3. Uncredited' = Uncredited
    BY <2>2 DEF Uncredited, Sent
  <2>4. proc'.base + Uncredited' - bal' <= proc.base + Uncredited - bal
    BY <1>0, <1>a, <2>2, <2>3
  <2>. QED  BY <1>0, <1>a, <2>1, <2>2, <2>4, BaseKept
<1>3. ASSUME NEW o \in Orders, PayLands(o) PROVE BaseCovered'
  <2>. DEFINE s == SumOf(Stroops, PaidCounted)
  <2>1. PaidCounted' = PaidCounted \cup {o} /\ o \notin PaidCounted
    BY <1>3, PaySets
  <2>2. SumOf(Stroops, PaidCounted \cup {o}) = s + Facts[o].stroops /\ s \in Nat
    BY <2>1, SumsTyped, StroopsSum
  <2>3. s' = SumOf(Stroops, PaidCounted \cup {o})
    <3>1. Stroops' = Stroops
      BY DEF Stroops
    <3>. QED  BY <2>1, <3>1
  <2>4. Uncredited' = Uncredited /\ UNCHANGED proc /\ bal' = bal - Facts[o].stroops
    BY <1>3 DEF PayLands, Uncredited, Sent, memory
  <2>5. proc.at # "down" => proc.base + Uncredited <= bal + s
    BY DEF BaseCovered
  <2>. HIDE DEF s
  <2>6. Facts[o].stroops \in Nat
    BY FactsTyped
  <2>7. proc'.at # "down" => proc'.base + Uncredited' <= bal' + s'
    BY <1>0, <1>a, <2>2, <2>3, <2>4, <2>5, <2>6
  <2>. QED  BY <2>7 DEF BaseCovered, s
<1>4. CASE CreditPool
  <2>1. /\ work.at = "closed" /\ work'.at = "idle" /\ proc' = [proc EXCEPT !.base = @ + work.amt]
        /\ UNCHANGED <<bal, paid, evid, resv>> /\ work.amt \in Nat
    BY <1>4 DEF CreditPool, Settled, Idle, chain, disk, Typed, Shape, WorkTyped
  <2>2. proc'.base = proc.base + work.amt /\ proc'.at = proc.at
    BY <1>0, <2>1 DEF ProcTyped
  <2>3. Uncredited = work.amt /\ Uncredited' = 0
    BY <2>1 DEF Uncredited
  <2>4. PaidCounted' = PaidCounted
    BY <2>1, <2>2, SetsKept DEF Up
  <2>5. proc'.base + Uncredited' - bal' <= proc.base + Uncredited - bal
    BY <1>0, <2>1, <2>2, <2>3
  <2>. QED  BY <1>0, <1>a, <2>2, <2>4, <2>5, BaseKept
<1>5. CASE BootRead
  <2>1. proc'.at = "read" /\ proc'.base = bal /\ bal' = bal
    BY <1>5 DEF BootRead, chain
  <2>2. Uncredited' = 0
    <3>1. work'.at = "idle"
      BY <1>5 DEF BootRead, Typed, Memory
    <3>. QED  BY <3>1 DEF Uncredited
  <2>3. SumOf(Stroops, PaidCounted)' \in Nat
    <3>1. PaidCounted' \in SUBSET Orders
      BY DEF PaidCounted
    <3>2. Stroops' = Stroops
      BY DEF Stroops
    <3>. QED  BY <3>1, <3>2, StroopsSum
  <2>. DEFINE s == SumOf(Stroops, PaidCounted)
  <2>4. s' \in Nat
    BY <2>3
  <2>. HIDE DEF s
  <2>5. bal + 0 <= bal + s'
    BY <1>0, <2>4, RoomStays
  <2>6. proc'.base + Uncredited' <= bal' + s'
    BY <2>1, <2>2, <2>5
  <2>. QED  BY <2>6 DEF BaseCovered, s
<1>6. CASE BootGenesis
  <2>1. proc'.at = "opened" /\ proc'.base = proc.base /\ proc.at = "read"
    BY <1>0, <1>6 DEF BootGenesis, ProcTyped
  <2>2. UNCHANGED <<bal, paid, evid, resv, work, mints>>
    BY <1>6 DEF BootGenesis, chain
  <2>3. PaidCounted' = PaidCounted /\ Uncredited' = Uncredited
    BY <2>1, <2>2, SetsKept DEF Up, Uncredited, Sent
  <2>4. proc'.base + Uncredited' - bal' <= proc.base + Uncredited - bal
    BY <1>0, <1>a, <2>1, <2>2, <2>3
  <2>. QED  BY <1>0, <1>a, <2>1, <2>3, <2>4, BaseKept
<1>7. CASE BootSweep
  <2>1. proc'.at = "up" /\ proc'.base = proc.base /\ proc.at = "opened"
    BY <1>0, <1>7 DEF BootSweep, ProcTyped
  <2>2. UNCHANGED <<bal, work, mints>>
    BY <1>7 DEF BootSweep, chain
  <2>3. PaidCounted' = PaidCounted /\ Uncredited' = Uncredited
    BY <1>7, <2>2, SweepSets DEF Uncredited, Sent
  <2>4. proc'.base + Uncredited' - bal' <= proc.base + Uncredited - bal
    BY <1>0, <1>a, <2>1, <2>2, <2>3
  <2>. QED  BY <1>0, <1>a, <2>1, <2>3, <2>4, BaseKept
<1>8. CASE Crash
  <2>1. proc'.at = "down"
    BY <1>0, <1>8 DEF Crash, ProcTyped
  <2>. QED  BY <2>1 DEF BaseCovered
<1>9. ASSUME NEW t \in Transfers, AdminTransfers(t) PROVE BaseCovered'
  <2>1. bal' = bal + 1 /\ UNCHANGED <<paid, mints, evid, resv, proc, work>>
    BY <1>9 DEF AdminTransfers, disk, memory
  <2>2. PaidCounted' = PaidCounted /\ Uncredited' = Uncredited
    BY <2>1, SetsKept DEF Up, Uncredited, Sent
  <2>3. proc'.base + Uncredited' - bal' <= proc.base + Uncredited - bal
    BY <1>0, <1>a, <2>1, <2>2
  <2>. QED  BY <1>0, <1>a, <2>1, <2>2, <2>3, BaseKept
<1>10. ASSUME NEW n \in DOMAIN mints, MintLands(n) PROVE BaseCovered'
  <2>1. UNCHANGED <<paid, evid, resv, proc>>
    BY <1>10 DEF MintLands, disk, memory
  <2>2. Uncredited' - Uncredited <= bal' - bal
    BY <1>10, LandingUncredited
  <2>3. PaidCounted' = PaidCounted
    BY <2>1, SetsKept DEF Up
  <2>4. bal' \in Nat
    BY <1>0 DEF Typed, Shape
  <2>5. proc.base + Uncredited' - bal' <= proc.base + Uncredited - bal
    BY <1>0, <1>a, <2>2, <2>4, GapStays
  <2>6. proc'.base = proc.base /\ proc'.at = proc.at
    BY <2>1
  <2>. QED  BY <1>0, <1>a, <2>3, <2>5, <2>6, BaseKept
<1>. QED  BY <1>1, <1>2, <1>3, <1>4, <1>5, <1>6, <1>7, <1>8, <1>9, <1>10, WhoMoves DEF Boot

LEMMA NextPromises ==
  ASSUME Typed, ResvOk, BaseCovered, PromisesCovered, [Next]_vars
  PROVE  PromisesCovered'
<1>. DEFINE s == SumOf(Stroops, Owed)
<1>0. s \in Nat /\ s <= bal /\ bal \in Nat /\ bal' \in Nat /\ Stroops' = Stroops
  BY SumsTyped, OwedSum, NextTyped DEF Typed, Shape, Stroops
<1>a. Owed' \in SUBSET Orders
  BY DEF Owed
<1>b. (s <= bal)' => PromisesCovered'
  BY DEF PromisesCovered, Owed
<1>1. ASSUME Owed' \subseteq Owed, bal' >= bal PROVE PromisesCovered'
  <2>1. SumOf(Stroops, Owed') <= SumOf(Stroops, Owed) /\ SumOf(Stroops, Owed') \in Nat
    BY <1>a, <1>1, SumsTyped, StroopsSum
  <2>2. s' = SumOf(Stroops, Owed')
    BY <1>0
  <2>3. s' <= bal'
    BY <1>0, <1>1, <2>1, <2>2
  <2>. QED  BY <1>b, <2>3
<1>2. CASE UNCHANGED <<bal, paid, resv>>
  BY <1>0, <1>1, <1>2 DEF Owed
<1>3. ASSUME NEW o \in Orders, Reserve(o) PROVE PromisesCovered'
  <2>. DEFINE p == SumOf(Stroops, PaidCounted)
  <2>1. /\ Owed' = Owed \cup {o} /\ o \notin Owed /\ PaidCounted \cap Owed = {}
        /\ {q \in Orders : resv[q] \in {"held", "settled"}} = PaidCounted \cup Owed
    BY <1>3, ReserveSets
  <2>2. SumReserved = p + s /\ p \in Nat
    BY <2>1, SumsTyped, StroopsSum DEF SumReserved
  <2>3. SumOf(Stroops, Owed \cup {o}) = s + Facts[o].stroops
    BY <2>1, SumsTyped, StroopsSum
  <2>4. s' = SumOf(Stroops, Owed \cup {o})
    BY <1>0, <2>1
  <2>5. proc.base + Uncredited <= bal + p /\ Uncredited \in Nat /\ proc.base \in Int
    <3>1. proc.at # "down" /\ proc.base \in Int
      BY <1>3 DEF Reserve, Up, Typed, Shape, ProcTyped
    <3>2. Uncredited \in Nat
      BY UncreditedFalls
    <3>. QED  BY <3>1, <3>2 DEF BaseCovered
  <2>6. proc.base - SumReserved >= Facts[o].stroops /\ bal' = bal /\ Facts[o].stroops \in Nat
    BY <1>3, FactsTyped DEF Reserve, Available, chain
  <2>. HIDE DEF s, p
  <2>7. s + Facts[o].stroops <= bal
    BY <1>0, <2>2, <2>5, <2>6
  <2>8. s' <= bal'
    BY <2>3, <2>4, <2>6, <2>7
  <2>. QED  BY <1>b, <2>8
<1>4. ASSUME NEW o \in Orders, PayLands(o) PROVE PromisesCovered'
  <2>1. Owed = Owed' \cup {o} /\ o \notin Owed'
    BY <1>4, PaySets
  <2>2. SumOf(Stroops, Owed' \cup {o}) = SumOf(Stroops, Owed') + Facts[o].stroops
        /\ SumOf(Stroops, Owed') \in Nat
    BY <1>a, <2>1, StroopsSum
  <2>3. s = SumOf(Stroops, Owed' \cup {o}) /\ s' = SumOf(Stroops, Owed')
    BY <1>0, <2>1
  <2>4. bal' = bal - Facts[o].stroops /\ Facts[o].stroops \in Nat
    BY <1>4, FactsTyped DEF PayLands
  <2>. HIDE DEF s
  <2>5. s' <= bal'
    BY <1>0, <2>2, <2>3, <2>4
  <2>. QED  BY <1>b, <2>5
<1>5. ASSUME NEW o \in Orders, ReleaseReservation(o) \/ AppendEvidence(o) \/ MarkReservationSettled(o)
      PROVE  PromisesCovered'
  <2>1. bal' = bal
    BY <1>5 DEF ReleaseReservation, AppendEvidence, MarkReservationSettled, chain
  <2>. QED  BY <1>0, <1>1, <1>5, <2>1, GateSets
<1>6. CASE BootSweep
  <2>1. bal' = bal
    BY <1>6 DEF BootSweep, chain
  <2>. QED  BY <1>0, <1>1, <1>6, <2>1, SweepSets
<1>7. CASE CreditPool \/ BootRead \/ BootGenesis \/ Crash
  BY <1>2, <1>7 DEF CreditPool, BootRead, BootGenesis, Crash, chain, disk
<1>8. ASSUME NEW t \in Transfers, AdminTransfers(t) PROVE PromisesCovered'
  <2>1. bal' >= bal /\ Owed' = Owed
    BY <1>0, <1>8 DEF AdminTransfers, disk, Owed
  <2>. QED  BY <1>1, <2>1
<1>9. ASSUME NEW n \in DOMAIN mints, MintLands(n) PROVE PromisesCovered'
  <2>1. bal' >= bal
    BY <1>9, LandingUncredited
  <2>2. Owed' = Owed
    BY <1>9 DEF MintLands, disk, Owed
  <2>. QED  BY <1>1, <2>1, <2>2
<1>. QED  BY <1>2, <1>3, <1>4, <1>5, <1>6, <1>7, <1>8, <1>9, WhoMoves DEF Boot

LEMMA NextGate == GateInv /\ [Next]_vars => GateInv'
  BY NextTyped, NextJournalOk, NextEmptyBooks, NextResvOk, NextBaseCovered, NextPromises DEF GateInv

LEMMA GateHolds == Spec => []GateInv
  BY InitGate, NextGate, PTL DEF Spec

\* The gate never promises the same coin twice, for any orders, rates, crashes and throws:
\* what is reserved and not yet paid is in the pool (PoolReservation, the boot's sweep).
THEOREM PromisesCoveredHolds == Spec => []PromisesCovered
<1>1. GateInv => PromisesCovered
  BY DEF GateInv
<1>. QED  BY GateHolds, <1>1, PTL

-----------------------------------------------------------------------------
(* The mint journal: one mint per order, and never an invisible one.       *)

\* While no call threw late; a late throw ends the promise for good.
LEMMA ThrowsStay ==
  ASSUME Typed, [Next]_vars, spent'.throws = 0
  PROVE  spent.throws = 0 /\ ~LateThrow
<1>0. spent \in [crashes : Nat, throws : Nat]
  BY DEF Typed, Shape
<1>1. ~LateThrow
  BY <1>0 DEF LateThrow
<1>2. CASE Crash
  <2>1. spent' = [spent EXCEPT !.crashes = @ + 1]
    BY <1>2 DEF Crash
  <2>. QED  BY <1>0, <1>1, <2>1
<1>3. CASE ~LateThrow /\ ~Crash
  <2>1. spent' = spent
    BY <1>3 DEF Next, vars, Reserve, ReleaseReservation, AppendEvidence, MarkReservationSettled, Arm,
         Claim, OperatorResolves, PayLands, Worker, RateFails, AlreadyBooked, MintBlocked, OpenIntent,
         SendMint, SendRefused, FinalitySuccess, FinalityFails, BookTopUp, CloseIntent, CreditPool,
         Boot, BootRead, BootGenesis, BootSweep, ManualTopUp, AdminTransfers, MintLands, MintExpires
  <2>. QED  BY <1>3, <2>1
<1>. QED  BY <1>1, <1>2, <1>3

LEMMA LiveKept ==
  ASSUME mints' = mints, NEW o
  PROVE  LiveMints(o)' = LiveMints(o)
  BY DEF LiveMints

\* A booking stays, and only a refill of the order books it.
LEMMA BookedStays == ASSUME Typed, [Next]_vars, NEW o, Booked(o) PROVE Booked(o)'
  BY JournalGrows DEF Booked, HasRef

LEMMA PostsBooked ==
  ASSUME NEW e, Posts(e), NEW o, Booked(o)' PROVE Booked(o) \/ e.ref = TopUpRef(o)
  BY DEF Posts, Booked, HasRef

LEMMA WhoBooks ==
  ASSUME Typed, [Next]_vars, NEW o \in Orders, Booked(o)'
  PROVE  Booked(o) \/ (BookTopUp /\ work.o = o) \/ (OperatorResolves(o) /\ Landed(o) # {})
<1>1. UNCHANGED journal => Booked(o)
  BY DEF Booked
<1>2. ASSUME NEW p \in Orders, Arm(p) PROVE Booked(o)
  <2>1. PayEntry(p).ref # TopUpRef(o)
    BY PayFacts, RefsDiffer
  <2>. QED  BY <1>1, <1>2, <2>1, ArmPosts, PostsBooked
<1>3. ASSUME BookTopUp PROVE Booked(o) \/ work.o = o
  <2>1. work.o \in Orders /\ work.amt \in Nat /\ work.amt > 0
    BY <1>3, WorkFields DEF BookTopUp, Typed, Memory
  <2>2. RefillEntry(work.o, work.amt).ref = TopUpRef(work.o)
    BY <2>1, RefillFacts
  <2>3. CASE Posts(RefillEntry(work.o, work.amt))
    BY <2>2, <2>3, PostsBooked, RefsDiffer
  <2>. QED  BY <1>1, <1>3, <2>3, BookPosts
<1>4. ASSUME NEW p \in Orders, OperatorResolves(p)
      PROVE  Booked(o) \/ (p = o /\ Landed(o) # {})
  <2>1. ASSUME NEW n \in Landed(p), Posts(RefillEntry(p, mints[n].amt))
        PROVE  Booked(o) \/ (p = o /\ Landed(o) # {})
    <3>1. mints[n] \in MintTx
      BY DEF Landed, Typed, Shape
    <3>2. mints[n].amt \in Nat /\ mints[n].amt > 0
      BY <3>1 DEF MintTx
    <3>3. RefillEntry(p, mints[n].amt).ref = TopUpRef(p)
      BY <3>2, RefillFacts
    <3>4. Booked(o) \/ TopUpRef(p) = TopUpRef(o)
      BY <2>1, <3>3, PostsBooked
    <3>. QED  BY <2>1, <3>4, RefsDiffer
  <2>. QED  BY <1>1, <1>4, <2>1, ResolvePosts
<1>5. ASSUME NEW t \in Transfers, ManualTopUp(t) PROVE Booked(o)
  <2>. DEFINE e == TopUpEntry(ManualRef(t), 1, 1)
  <2>1. Posts(e) /\ e.ref = ManualRef(t)
    BY <1>5, ManualPosts
  <2>2. e.ref # TopUpRef(o)
    BY <2>1, RefsDiffer
  <2>. HIDE DEF e
  <2>. QED  BY <2>1, <2>2, PostsBooked
<1>6. ASSUME BootGenesis PROVE Booked(o)
  <2>1. ASSUME NEW e, Posts(e), e.ref = <<"genesis">> PROVE Booked(o)
    BY <2>1, PostsBooked, RefsDiffer
  <2>. QED  BY <1>1, <1>6, <2>1, GenesisPosts
<1>. QED  BY <1>1, <1>2, <1>3, <1>4, <1>5, <1>6, WhoPosts

\* What keeps an order's mints in order.
LEMMA MintFrame ==
  ASSUME NEW o, MintOk(o), LiveMints(o)' \subseteq LiveMints(o),
         LiveMints(o)' # {} /\ Accounted(o) => Accounted(o)',
         Booked(o)' => Booked(o) \/ \A n \in LiveMints(o) : mints[n].st = "landed",
         \A n \in LiveMints(o)' : mints'[n].st = mints[n].st \/ mints'[n].st = "landed"
  PROVE  MintOk(o)'
<1>1. \A m, n \in LiveMints(o)' : m = n
  BY DEF MintOk
<1>2. LiveMints(o)' # {} => Accounted(o)'
  BY DEF MintOk
<1>3. Booked(o)' => \A n \in LiveMints(o)' : mints'[n].st = "landed"
  BY DEF MintOk
<1>. QED  BY <1>1, <1>2, <1>3 DEF MintOk

\* A step that leaves the mints alone.
LEMMA MintsAside ==
  ASSUME NEW o, MintOk(o), mints' = mints, LiveMints(o) # {} /\ Accounted(o) => Accounted(o)',
         Booked(o)' => Booked(o) \/ \A n \in LiveMints(o) : mints[n].st = "landed"
  PROVE  MintOk(o)'
  BY LiveKept, MintFrame

\* What the proof of a step starts from, and what it ends in, for one order.
MintsHold == Typed /\ spent.throws = 0 /\ MintsOk
MintHolds(o) == MintOk(o) /\ (work.o = o => Knows(o))

LEMMA MintsAll ==
  /\ MintsHold => \A o \in Orders : MintHolds(o)
  /\ (\A o \in Orders : MintHolds(o)) => MintsOk
  BY DEF MintsHold, MintHolds, MintsOk

\* A step of somebody else.
LEMMA QuietMints ==
  ASSUME MintsHold, NEW o \in Orders, UNCHANGED <<mints, intents, work>>, proc'.life = proc.life,
         proc'.at = "down" <=> proc.at = "down", Booked(o)' <=> Booked(o)
  PROVE  MintHolds(o)'
<1>0. MintOk(o) /\ (work.o = o => Knows(o))
  BY MintsAll DEF MintHolds
<1>1. LiveMints(o)' = LiveMints(o)
  BY LiveKept
<1>2. Accounted(o) => Accounted(o)'
  BY DEF Accounted
<1>3. MintOk(o)'
  BY <1>0, <1>2, MintsAside
<1>4. Knows(o) => Knows(o)'
  BY <1>1 DEF Knows, Sent
<1>. QED  BY <1>0, <1>3, <1>4 DEF MintHolds

\* The worker lets go of its order, or takes one: the mints, the books and the intents stay.
LEMMA IdleMints ==
  ASSUME MintsHold, NEW o \in Orders, UNCHANGED <<mints, journal, intents>>,
         proc'.life = proc.life, proc'.at = proc.at, work'.at \in {"idle", "rate"},
         work.at \in {"sent", "landed"} => Sent.st \in {"failed", "expired"}
  PROVE  MintHolds(o)'
<1>0. MintOk(o) /\ (work.o = o => Knows(o))
  BY MintsAll DEF MintHolds
<1>1. Booked(o)' <=> Booked(o)
  BY DEF Booked
<1>2. LiveMints(o) # {} /\ Accounted(o) => Accounted(o)'
  <2>1. CASE work.at \in {"sent", "landed"} /\ work.o = o
    <3>1. LiveMints(o) \subseteq {Len(mints)} /\ Sent.st \notin {"net", "landed"}
      BY <1>0, <2>1 DEF Knows
    <3>2. LiveMints(o) = {}
      BY <3>1 DEF LiveMints, Sent
    <3>. QED  BY <3>2
  <2>2. CASE ~(work.at \in {"sent", "landed"} /\ work.o = o)
    BY <1>1, <2>2 DEF Accounted
  <2>. QED  BY <2>1, <2>2
<1>3. MintOk(o)'
  BY <1>0, <1>1, <1>2, MintsAside
<1>4. Knows(o)'
  BY DEF Knows
<1>. QED  BY <1>3, <1>4 DEF MintHolds

\* A mint's fate on chain.
LEMMA ChainMints ==
  ASSUME MintsHold, NEW o \in Orders, NEW n \in DOMAIN mints, MintLands(n) \/ MintExpires(n)
  PROVE  MintHolds(o)'
<1>0. MintOk(o) /\ (work.o = o => Knows(o))
  BY MintsAll DEF MintHolds
<1>1. PICK st \in {"landed", "failed", "expired"} : mints' = [mints EXCEPT ![n].st = st]
  BY DEF MintLands, MintExpires
<1>2. UNCHANGED <<journal, intents, proc, work>> /\ mints[n].st = "net"
  BY DEF MintLands, MintExpires, disk, memory
<1>3. /\ Len(mints') = Len(mints) /\ DOMAIN mints' = DOMAIN mints /\ DOMAIN mints = 1 .. Len(mints)
      /\ \A k \in DOMAIN mints : mints'[k].o = mints[k].o
      /\ mints'[n].st = st /\ \A k \in DOMAIN mints : k # n => mints'[k].st = mints[k].st
  BY <1>1, MintChanges DEF MintsHold
<1>4. LiveMints(o)' \subseteq LiveMints(o)
  BY <1>2, <1>3 DEF LiveMints
<1>5. \A k \in LiveMints(o)' : mints'[k].st = mints[k].st \/ mints'[k].st = "landed"
  BY <1>3 DEF LiveMints
<1>6. (Booked(o)' <=> Booked(o)) /\ (Accounted(o) => Accounted(o)')
  BY <1>2 DEF Booked, Accounted
<1>7. MintOk(o)'
  BY <1>0, <1>4, <1>5, <1>6, MintFrame
<1>8. ASSUME Knows(o), work.o = o PROVE Knows(o)'
  <2>1. work.at = "landed" => Sent'.st = "landed"
    <3>. SUFFICES ASSUME work.at = "landed" PROVE Sent'.st = "landed"
      OBVIOUS
    <3>1. Sent.st = "landed" /\ Len(mints) \in DOMAIN mints
      BY <1>3, <1>8 DEF Knows, MintsHold, Typed, Shape, Memory
    <3>. QED  BY <1>2, <1>3, <3>1 DEF Sent
  <2>. QED  BY <1>2, <1>3, <1>4, <1>6, <1>8, <2>1 DEF Knows
<1>. QED  BY <1>0, <1>2, <1>7, <1>8 DEF MintHolds

\* The write-ahead: an intent of this life is opened only when no mint of the order is live.
LEMMA OpenMints ==
  ASSUME MintsHold, NEW o \in Orders, OpenIntent
  PROVE  MintHolds(o)'
<1>0. /\ MintOk(o) /\ (work.o = o => Knows(o)) /\ intents \in [Orders -> Nat]
      /\ work.at = "rate" /\ proc.at = "up" /\ proc.life \in Nat /\ proc.life > 0
  BY MintsAll DEF MintHolds, OpenIntent, MintsHold, Typed, Shape, Memory, ProcTyped
<1>1. /\ UNCHANGED <<mints, journal, proc>> /\ intents' = [intents EXCEPT ![work.o] = proc.life]
      /\ ~HasRef(journal, TopUpRef(work.o)) /\ ~IsBlocked(work.o)
  BY DEF OpenIntent, chain
<1>2. /\ work'.at = "idle" \/ (work'.at = "opened" /\ work'.o = work.o)
  <2>1. PICK rate \in Rates :
          LET amt == PlanStroops(work.o, rate) IN
          IF amt > 0 THEN work' = [work EXCEPT !.at = "opened", !.amt = amt] /\ UNCHANGED pend
                     ELSE Failed(work.o)
    BY DEF OpenIntent
  <2>2. CASE PlanStroops(work.o, rate) > 0
    BY <2>1, <2>2 DEF MintsHold, Typed, Shape, WorkTyped
  <2>3. CASE ~(PlanStroops(work.o, rate) > 0)
    BY <2>1, <2>3 DEF Failed, Idle
  <2>. QED  BY <2>2, <2>3
<1>3. (Booked(o)' <=> Booked(o)) /\ LiveMints(o)' = LiveMints(o)
  BY <1>1, LiveKept DEF Booked
<1>4. CASE work.o # o
  <2>1. intents'[o] = intents[o]
    BY <1>0, <1>1, <1>4
  <2>2. Accounted(o) => Accounted(o)'
    BY <1>0, <1>1, <1>3, <2>1 DEF Accounted
  <2>3. MintOk(o)'
    BY <1>0, <1>1, <1>3, <2>2, MintsAside
  <2>4. work'.o = o => Knows(o)'
    BY <1>2, <1>4 DEF Knows
  <2>. QED  BY <2>3, <2>4 DEF MintHolds
<1>5. CASE work.o = o
  <2>1. ~Booked(o) /\ intents[o] \in {0, proc.life}
    BY <1>1, <1>5 DEF Booked, IsBlocked
  <2>2. ~Accounted(o)
    BY <1>0, <2>1 DEF Accounted
  <2>3. LiveMints(o) = {}
    BY <1>0, <2>2 DEF MintOk
  <2>4. intents'[o] = proc'.life
    BY <1>0, <1>1, <1>5
  <2>5. MintOk(o)'
    BY <1>3, <2>3 DEF MintOk
  <2>6. Knows(o)'
    BY <1>2, <1>3, <2>1, <2>3, <2>4 DEF Knows
  <2>. QED  BY <2>5, <2>6 DEF MintHolds
<1>. QED  BY <1>4, <1>5

\* The mint that is sent is the only live one of its order.
LEMMA SendMints ==
  ASSUME MintsHold, NEW o \in Orders, SendMint
  PROVE  MintHolds(o)'
<1>. DEFINE m == [o |-> work.o, amt |-> work.amt, seq |-> issSeq + 1, st |-> "net"]
<1>0. /\ MintOk(o) /\ (work.o = o => Knows(o)) /\ mints \in Seq(MintTx)
      /\ work.at = "opened" /\ proc.at = "up" /\ proc.life \in Nat /\ proc.life > 0
  BY MintsAll DEF MintHolds, SendMint, MintsHold, Typed, Shape, Memory, ProcTyped
<1>1. /\ mints' = Append(mints, m) /\ m.o = work.o /\ m.st = "net"
      /\ work'.at = "sent" /\ work'.o = work.o /\ UNCHANGED <<journal, intents, proc>>
  BY DEF SendMint, disk, MintsHold, Typed, Shape, WorkTyped
<1>. HIDE DEF m
<1>2. /\ Len(mints') = Len(mints) + 1 /\ Len(mints) \in Nat
      /\ DOMAIN mints = 1 .. Len(mints) /\ DOMAIN mints' = 1 .. Len(mints) + 1
      /\ mints'[Len(mints) + 1] = m /\ \A k \in DOMAIN mints : mints'[k] = mints[k]
  BY <1>0, <1>1
<1>3. Booked(o)' <=> Booked(o)
  BY <1>1 DEF Booked
<1>4. CASE work.o # o
  <2>1. LiveMints(o)' = LiveMints(o)
    BY <1>1, <1>2, <1>4 DEF LiveMints
  <2>2. \A n \in LiveMints(o)' : mints'[n].st = mints[n].st
    BY <1>2, <2>1 DEF LiveMints
  <2>3. Accounted(o) => Accounted(o)'
    BY <1>0, <1>1, <1>3 DEF Accounted
  <2>4. MintOk(o)'
    BY <1>0, <1>3, <2>1, <2>2, <2>3, MintFrame
  <2>. QED  BY <1>1, <1>4, <2>4 DEF MintHolds
<1>5. CASE work.o = o
  <2>1. LiveMints(o) = {} /\ intents[o] = proc.life /\ ~Booked(o)
    BY <1>0, <1>5 DEF Knows
  <2>2. LiveMints(o)' \subseteq {Len(mints')}
    <3>1. \A k \in DOMAIN mints : k \notin LiveMints(o)'
      BY <1>2, <2>1 DEF LiveMints
    <3>. QED  BY <1>2, <3>1 DEF LiveMints
  <2>3. Accounted(o)'
    BY <1>0, <1>1, <1>5, <2>1 DEF Accounted
  <2>4. MintOk(o)'
    BY <1>3, <2>1, <2>2, <2>3 DEF MintOk
  <2>5. Knows(o)'
    BY <1>1, <1>3, <2>1, <2>2 DEF Knows
  <2>. QED  BY <2>4, <2>5 DEF MintHolds
<1>. QED  BY <1>4, <1>5

\* Finality, the booking, and the closing of the intent.
LEMMA LandMints ==
  ASSUME MintsHold, NEW o \in Orders, FinalitySuccess
  PROVE  MintHolds(o)'
<1>0. MintOk(o) /\ (work.o = o => Knows(o))
  BY MintsAll DEF MintHolds
<1>1. /\ work.at = "sent" /\ work'.at = "landed" /\ work'.o = work.o /\ Sent.st = "landed"
      /\ UNCHANGED <<mints, journal, intents, proc>>
  BY DEF FinalitySuccess, chain, disk, MintsHold, Typed, Shape, WorkTyped
<1>2. (Booked(o)' <=> Booked(o)) /\ LiveMints(o)' = LiveMints(o) /\ (Accounted(o) => Accounted(o)')
  BY <1>1, LiveKept DEF Booked, Accounted
<1>3. MintOk(o)'
  BY <1>0, <1>1, <1>2, MintsAside
<1>4. Knows(o) => Knows(o)'
  BY <1>1, <1>2 DEF Knows, Sent
<1>. QED  BY <1>0, <1>1, <1>3, <1>4 DEF MintHolds

LEMMA BookMints ==
  ASSUME MintsHold, [Next]_vars, NEW o \in Orders, BookTopUp
  PROVE  MintHolds(o)'
<1>0. MintOk(o) /\ (work.o = o => Knows(o)) /\ Typed
  BY MintsAll DEF MintHolds, MintsHold
<1>1. /\ work.at = "landed" /\ work'.at = "booked" /\ work'.o = work.o
      /\ UNCHANGED <<mints, intents, proc>>
  BY <1>0 DEF BookTopUp, chain, Typed, Shape, WorkTyped
<1>2. LiveMints(o)' = LiveMints(o)
  BY <1>1, LiveKept
<1>3. CASE work.o # o
  <2>0. ~OperatorResolves(o)
    BY <1>0, <1>1 DEF OperatorResolves, Typed, Memory
  <2>1. Booked(o)' <=> Booked(o)
    BY <1>0, <1>3, <2>0, WhoBooks, BookedStays
  <2>2. Accounted(o) => Accounted(o)'
    BY <1>1, <1>3, <2>1 DEF Accounted
  <2>3. MintOk(o)'
    BY <1>0, <1>1, <2>1, <2>2, MintsAside
  <2>. QED  BY <1>1, <1>3, <2>3 DEF MintHolds
<1>4. CASE work.o = o
  <2>1. Booked(o)'
    <3>1. RefillEntry(work.o, work.amt).ref = TopUpRef(o)
      BY <1>0, <1>1, <1>4, WorkFields, RefillFacts DEF Typed, Memory
    <3>2. CASE Posts(RefillEntry(work.o, work.amt))
      BY <3>1, <3>2 DEF Posts, Booked, HasRef
    <3>3. CASE journal' = journal /\ HasRef(journal, TopUpRef(work.o))
      BY <1>4, <3>3 DEF Booked
    <3>. QED  BY <1>0, <3>2, <3>3, BookPosts
  <2>2. \A n \in LiveMints(o) : mints[n].st = "landed"
    BY <1>0, <1>1, <1>4 DEF Knows, Sent
  <2>3. Accounted(o)'
    BY <2>1 DEF Accounted
  <2>4. MintOk(o)'
    BY <1>0, <1>1, <2>2, <2>3, MintsAside
  <2>5. Knows(o)'
    BY <1>1, <2>1 DEF Knows
  <2>. QED  BY <2>4, <2>5 DEF MintHolds
<1>. QED  BY <1>3, <1>4

LEMMA CloseMints ==
  ASSUME MintsHold, NEW o \in Orders, AlreadyBooked \/ CloseIntent
  PROVE  MintHolds(o)'
<1>0. MintOk(o) /\ (work.o = o => Knows(o)) /\ intents \in [Orders -> Nat]
  BY MintsAll DEF MintHolds, MintsHold, Typed, Shape
<1>1. /\ work.at \in {"rate", "booked"} /\ intents' = [intents EXCEPT ![work.o] = 0]
      /\ UNCHANGED <<mints, journal, proc>>
      /\ work'.at = "idle" \/ (work'.at = "closed" /\ work'.o = work.o)
  BY DEF AlreadyBooked, CloseIntent, Settled, Idle, chain, MintsHold, Typed, Shape, WorkTyped
<1>2. (Booked(o)' <=> Booked(o)) /\ LiveMints(o)' = LiveMints(o)
  BY <1>1, LiveKept DEF Booked
<1>3. work.o = o => Booked(o)
  BY <1>0 DEF AlreadyBooked, CloseIntent, Knows, Booked
<1>4. Accounted(o) => Accounted(o)'
  BY <1>0, <1>1, <1>2, <1>3 DEF Accounted
<1>5. MintOk(o)'
  BY <1>0, <1>1, <1>2, <1>4, MintsAside
<1>6. work'.o = o => Knows(o)'
  BY <1>1, <1>2, <1>3 DEF Knows
<1>. QED  BY <1>5, <1>6 DEF MintHolds

\* Death and birth: an intent that was open is now an earlier life's.
LEMMA LifeMints ==
  ASSUME MintsHold, NEW o \in Orders, BootRead \/ Crash
  PROVE  MintHolds(o)'
<1>0. MintOk(o) /\ proc \in ProcTyped /\ intents[o] \in Nat /\ intents[o] <= proc.life /\ proc.life \in Nat
  BY MintsAll DEF MintHolds, MintsHold, Typed, Shape, Memory, ProcTyped
<1>1. UNCHANGED <<mints, journal, intents>> /\ work'.at = "idle"
  BY DEF BootRead, Crash, chain, disk, Idle, MintsHold, Typed, Memory
<1>2. proc'.at = "down" \/ proc'.life = proc.life + 1
  BY <1>0 DEF BootRead, Crash, ProcTyped
<1>3. Booked(o)' <=> Booked(o)
  BY <1>1 DEF Booked
<1>4. Accounted(o) => Accounted(o)'
  BY <1>0, <1>1, <1>2, <1>3 DEF Accounted
<1>5. MintOk(o)'
  BY <1>0, <1>1, <1>3, <1>4, MintsAside
<1>6. Knows(o)'
  BY <1>1 DEF Knows
<1>. QED  BY <1>5, <1>6 DEF MintHolds

\* The operator books what landed, or clears what no longer can.
LEMMA ResolveMints ==
  ASSUME MintsHold, [Next]_vars, NEW o \in Orders, NEW p \in Orders, OperatorResolves(p)
  PROVE  MintHolds(o)'
<1>0. /\ MintOk(o) /\ Typed /\ intents \in [Orders -> Nat]
  BY MintsAll DEF MintHolds, MintsHold, Typed, Shape
<1>1. UNCHANGED <<mints, proc, work>> /\ proc.at = "down" /\ work.at = "idle"
  BY <1>0 DEF OperatorResolves, chain, memory, Typed, Memory
<1>2. Booked(o)' => Booked(o) \/ \A n \in LiveMints(o) : mints[n].st = "landed"
  <2>1. ~BookTopUp
    BY <1>1 DEF BookTopUp
  <2>2. Landed(o) # {} => \A n \in LiveMints(o) : mints[n].st = "landed"
    BY <1>0 DEF MintOk, Landed, LiveMints
  <2>. QED  BY <1>0, <2>1, <2>2, WhoBooks
<1>3. LiveMints(o) # {} => intents'[o] = intents[o]
  <2>1. CASE intents' = intents
    BY <2>1
  <2>2. CASE /\ \A n \in DOMAIN mints : mints[n].o = p => mints[n].st \in {"failed", "expired"}
             /\ intents' = [intents EXCEPT ![p] = 0]
    <3>1. LiveMints(p) = {}
      BY <2>2 DEF LiveMints
    <3>. QED  BY <1>0, <2>2, <3>1
  <2>. QED  BY <2>1, <2>2 DEF OperatorResolves
<1>4. LiveMints(o) # {} /\ Accounted(o) => Accounted(o)'
  BY <1>0, <1>1, <1>3, BookedStays DEF Accounted
<1>5. MintOk(o)'
  BY <1>0, <1>1, <1>2, <1>4, MintsAside
<1>6. Knows(o)'
  BY <1>1 DEF Knows
<1>. QED  BY <1>5, <1>6 DEF MintHolds

LEMMA NextMints == ASSUME Typed, MintsOk, [Next]_vars PROVE MintsOk'
<1>. SUFFICES ASSUME spent'.throws = 0 PROVE MintsOk'
  BY DEF MintsOk
<1>0. MintsHold /\ ~LateThrow
  BY ThrowsStay DEF MintsHold
<1>. SUFFICES ASSUME NEW o \in Orders PROVE MintHolds(o)'
  BY DEF MintsOk, MintHolds
<1>1. proc \in ProcTyped /\ (work.at # "idle" => proc.at = "up")
  BY DEF Typed, Shape, Memory
<1>2. CASE UNCHANGED <<mints, intents, work>> /\ ~BookTopUp /\ (~\E p \in Orders : OperatorResolves(p))
           /\ proc'.life = proc.life /\ (proc'.at = "down" <=> proc.at = "down")
  <2>1. Booked(o)' <=> Booked(o)
    BY <1>2, WhoBooks, BookedStays
  <2>. QED  BY <1>0, <1>2, <2>1, QuietMints
<1>3. ASSUME NEW p \in Orders,
             \/ Reserve(p) \/ ReleaseReservation(p) \/ AppendEvidence(p) \/ MarkReservationSettled(p)
             \/ Arm(p) \/ PayLands(p)
      PROVE  MintHolds(o)'
  <2>1. UNCHANGED <<mints, intents, work, proc>> /\ (proc.at = "up" \/ PayLands(p))
    BY <1>3 DEF Reserve, ReleaseReservation, AppendEvidence, MarkReservationSettled, Arm, PayLands,
                chain, disk, memory, Up
  <2>2. Booked(o)' <=> Booked(o)
    <3>1. CASE UNCHANGED journal
      BY <3>1 DEF Booked
    <3>2. CASE Arm(p)
      <4>1. PayEntry(p).ref # TopUpRef(o)
        BY PayFacts, RefsDiffer
      <4>. QED  BY <3>1, <3>2, <4>1, ArmPosts, PostsBooked, BookedStays
    <3>. QED  BY <1>3, <3>1, <3>2 DEF Reserve, ReleaseReservation, AppendEvidence,
                MarkReservationSettled, PayLands, disk
  <2>. QED  BY <1>0, <2>1, <2>2, QuietMints
<1>4. ASSUME NEW p \in Orders, Claim(p) PROVE MintHolds(o)'
  BY <1>0, <1>4, IdleMints DEF Claim, chain, disk
<1>5. ASSUME RateFails \/ MintBlocked \/ SendRefused \/ FinalityFails \/ CreditPool PROVE MintHolds(o)'
  <2>1. /\ UNCHANGED <<mints, journal, intents>> /\ work'.at = "idle"
        /\ work.at \in {"sent", "landed"} => Sent.st \in {"failed", "expired"}
    BY <1>5 DEF RateFails, MintBlocked, SendRefused, FinalityFails, CreditPool, Failed, Settled, Idle,
                chain, disk
  <2>2. proc'.life = proc.life /\ proc'.at = proc.at
    BY <1>1, <1>5 DEF RateFails, MintBlocked, SendRefused, FinalityFails, CreditPool, ProcTyped
  <2>. QED  BY <1>0, <2>1, <2>2, IdleMints
<1>6. CASE Worker
  BY <1>0, <1>5, <1>6, OpenMints, SendMints, LandMints, BookMints, CloseMints DEF Worker
<1>7. ASSUME BootGenesis \/ BootSweep PROVE MintHolds(o)'
  <2>1. UNCHANGED <<mints, intents, work>> /\ work.at = "idle" /\ proc.at # "down"
    BY <1>1, <1>7 DEF BootGenesis, BootSweep, chain
  <2>2. proc'.life = proc.life /\ proc'.at # "down"
    BY <1>1, <1>7 DEF BootGenesis, BootSweep, ProcTyped
  <2>3. ~BookTopUp /\ ~\E p \in Orders : OperatorResolves(p)
    BY <2>1 DEF BookTopUp, OperatorResolves
  <2>. QED  BY <1>2, <2>1, <2>2, <2>3
<1>8. CASE BootRead \/ Crash
  BY <1>0, <1>8, LifeMints
<1>9. ASSUME NEW p \in Orders, OperatorResolves(p) PROVE MintHolds(o)'
  BY <1>0, <1>9, ResolveMints
<1>10. ASSUME NEW t \in Transfers, ManualTopUp(t) \/ AdminTransfers(t) PROVE MintHolds(o)'
  <2>1. UNCHANGED <<mints, intents, work, proc>>
    BY <1>10 DEF ManualTopUp, AdminTransfers, chain, disk, memory
  <2>2. Booked(o)' <=> Booked(o)
    <3>1. CASE AdminTransfers(t)
      BY <3>1 DEF AdminTransfers, disk, Booked
    <3>2. CASE ManualTopUp(t)
      <4>. DEFINE e == TopUpEntry(ManualRef(t), 1, 1)
      <4>1. Posts(e) /\ e.ref = ManualRef(t)
        BY <3>2, ManualPosts
      <4>2. e.ref # TopUpRef(o)
        BY <4>1, RefsDiffer
      <4>. HIDE DEF e
      <4>. QED  BY <4>1, <4>2, PostsBooked, BookedStays
    <3>. QED  BY <1>10, <3>1, <3>2
  <2>. QED  BY <1>0, <2>1, <2>2, QuietMints
<1>11. ASSUME NEW n \in DOMAIN mints, MintLands(n) \/ MintExpires(n) PROVE MintHolds(o)'
  BY <1>0, <1>11, ChainMints
<1>12. CASE UNCHANGED vars
  <2>1. Booked(o)' <=> Booked(o)
    BY <1>12 DEF vars, Booked
  <2>. QED  BY <1>0, <1>12, <2>1, QuietMints DEF vars
<1>. QED  BY <1>0, <1>3, <1>4, <1>6, <1>7, <1>8, <1>9, <1>10, <1>11, <1>12 DEF Next, Boot

LEMMA InitMints == Init => MintsOk
<1>. SUFFICES ASSUME Init, NEW o \in Orders PROVE MintOk(o) /\ Knows(o)
  BY DEF MintsOk
<1>1. LiveMints(o) = {} /\ work.at = "idle"
  BY DEF Init, LiveMints, Idle
<1>. QED  BY <1>1 DEF MintOk, Knows

\* At most one live mint: at most one landed.
LEMMA OneLanded ==
  ASSUME Typed, NEW o \in Orders, MintOk(o)
  PROVE  /\ Landed(o) \subseteq LiveMints(o) /\ Cardinality(Landed(o)) <= 1
         /\ Landed(o) = {} \/ \E n \in DOMAIN mints : Landed(o) = {n}
<1>1. Landed(o) \subseteq LiveMints(o)
  BY DEF Landed, LiveMints
<1>2. Landed(o) = {} \/ \E n \in DOMAIN mints : Landed(o) = {n}
  BY <1>1 DEF MintOk, LiveMints
<1>3. CASE Landed(o) = {}
  BY <1>1, <1>3, FS_EmptySet
<1>4. ASSUME NEW n \in DOMAIN mints, Landed(o) = {n} PROVE Cardinality(Landed(o)) <= 1
  <2>1. Cardinality({n}) = 1
    BY FS_Singleton
  <2>. QED  BY <1>4, <2>1
<1>. QED  BY <1>1, <1>2, <1>3, <1>4

LEMMA MintsAlways == Spec => [](Typed /\ MintsOk)
<1>1. Init => Typed /\ MintsOk
  BY InitTyped, InitMints
<1>2. Typed /\ MintsOk /\ [Next]_vars => (Typed /\ MintsOk)'
  BY NextTyped, NextMints
<1>. QED  BY <1>1, <1>2, PTL DEF Spec

\* The same fiat is never spent twice, whatever dies between the mint and its booking and
\* whatever the operator does in between, as long as no mint call throws late.
THEOREM MintedOnceHolds == Spec => []MintedOnceUnlessLate
<1>1. Typed /\ MintsOk => MintedOnceUnlessLate
  <2>. SUFFICES ASSUME Typed, MintsOk, spent.throws = 0, NEW o \in Orders
                PROVE  Cardinality(Landed(o)) <= 1
    BY DEF MintedOnceUnlessLate, MintedOnce
  <2>1. MintOk(o)
    BY DEF MintsOk
  <2>. QED  BY <2>1, OneLanded
<1>. QED  BY <1>1, MintsAlways, PTL

\* No mint on chain is invisible: the ledger has it, or an open intent asks the operator.
THEOREM MintVisibleHolds == Spec => []MintVisible
<1>1. Typed /\ MintsOk => MintVisible
  <2>. SUFFICES ASSUME Typed, MintsOk, spent.throws = 0, NEW o \in Orders, Landed(o) # {}
                PROVE  HasRef(journal, TopUpRef(o)) \/ intents[o] # 0
    BY DEF MintVisible
  <2>1. MintOk(o)
    BY DEF MintsOk
  <2>2. LiveMints(o) # {}
    BY <2>1, OneLanded
  <2>. QED  BY <2>1, <2>2 DEF MintOk, Accounted, Booked
<1>. QED  BY <1>1, MintsAlways, PTL

-----------------------------------------------------------------------------
(* The books explain the chain.                                            *)

PaidUnbooked == {o \in paid : ~HasRef(journal, PayRef(o))}
MintUnbooked == {o \in Orders : ~HasRef(journal, TopUpRef(o))}
MovedUnbooked == {t \in moved : ~HasRef(journal, ManualRef(t))}

\* The pool's balance by the books, and what they miss of each kind.
Book == NativeBalance(journal, "USDC_POOL")
PaidGap == SumOf(Stroops, PaidUnbooked)
MintGap == SumOf(Minted, MintUnbooked)
MoveGap == Cardinality(MovedUnbooked)

Explained == bal = Book - PaidGap + MintGap + MoveGap
BooksOk == journal # {} /\ spent.throws = 0 => Explained

\* What a log of mints minted for an order.
LandedIn(M, o) == {n \in DOMAIN M : M[n].o = o /\ M[n].st = "landed"}
MintedIn(M, o) == SumOf([n \in DOMAIN M |-> M[n].amt], LandedIn(M, o))

LEMMA MintedOf ==
  ASSUME NEW M \in Seq(MintTx), NEW o
  PROVE  /\ MintedIn(M, o) \in Nat
         /\ LandedIn(M, o) = {} => MintedIn(M, o) = 0
         /\ \A n \in DOMAIN M : LandedIn(M, o) = {n} => MintedIn(M, o) = M[n].amt
<1>. DEFINE w == [n \in DOMAIN M |-> M[n].amt]
            L == LandedIn(M, o)
<1>1. MintedIn(M, o) = SumOf(w, L)
  BY DEF MintedIn
<1>2. \A n \in DOMAIN M : w[n] = M[n].amt /\ w[n] \in Int /\ w[n] >= 0
  <2>1. \A n \in DOMAIN M : M[n] \in MintTx
    OBVIOUS
  <2>. QED  BY <2>1 DEF MintTx
<1>3. IsFiniteSet(L) /\ L \subseteq DOMAIN M
  <2>1. DOMAIN M = 1 .. Len(M) /\ Len(M) \in Nat
    OBVIOUS
  <2>2. IsFiniteSet(DOMAIN M)
    BY <2>1, FS_Interval
  <2>3. L \subseteq DOMAIN M
    BY DEF LandedIn
  <2>. QED  BY <2>2, <2>3, FS_Subset
<1>. HIDE DEF w, L
<1>4. SumOf(w, L) \in Nat
  <2>1. \A n \in L : w[n] \in Int /\ w[n] >= 0
    BY <1>2, <1>3
  <2>2. SumOf(w, L) \in Int /\ SumOf(w, L) >= 0
    BY <1>3, <2>1, SumType
  <2>. QED  BY <2>2
<1>5. L = {} => SumOf(w, L) = 0
  BY SumEmpty
<1>6. ASSUME NEW n \in DOMAIN M, L = {n} PROVE SumOf(w, L) = M[n].amt
  <2>1. w[n] \in Int /\ w[n] = M[n].amt
    BY <1>2
  <2>2. SumOf(w, {n}) = w[n]
    BY <2>1, SumSingle
  <2>. QED  BY <1>6, <2>1, <2>2
<1>. QED  BY <1>1, <1>4, <1>5, <1>6 DEF L

LEMMA MintedIs ==
  ASSUME NEW o \in Orders
  PROVE  /\ Minted[o] = MintedIn(mints, o) /\ Landed(o) = LandedIn(mints, o)
         /\ Minted'[o] = MintedIn(mints', o) /\ Landed(o)' = LandedIn(mints', o)
  BY DEF Minted, MintedIn, Landed, LandedIn

\* An order whose landed mints stay the same.
LEMMA MintedKept ==
  ASSUME Typed, Typed', NEW o \in Orders, MintOk(o), Landed(o)' = Landed(o),
         DOMAIN mints \subseteq DOMAIN mints', \A n \in DOMAIN mints : mints'[n].amt = mints[n].amt
  PROVE  Minted'[o] = Minted[o]
<1>0. mints \in Seq(MintTx) /\ mints' \in Seq(MintTx)
  BY DEF Typed, Shape
<1>1. Landed(o) = {} \/ \E n \in DOMAIN mints : Landed(o) = {n}
  BY OneLanded
<1>2. LandedIn(mints', o) = LandedIn(mints, o)
  BY MintedIs
<1>3. MintedIn(mints', o) = MintedIn(mints, o)
  <2>1. CASE LandedIn(mints, o) = {}
    BY <1>0, <1>2, <2>1, MintedOf
  <2>2. ASSUME NEW n \in DOMAIN mints, LandedIn(mints, o) = {n}
        PROVE  MintedIn(mints', o) = MintedIn(mints, o)
    <3>1. n \in DOMAIN mints' /\ mints'[n].amt = mints[n].amt
      OBVIOUS
    <3>2. MintedIn(mints, o) = mints[n].amt
      BY <1>0, <2>2, MintedOf
    <3>3. MintedIn(mints', o) = mints'[n].amt
      BY <1>0, <1>2, <2>2, <3>1, MintedOf
    <3>. QED  BY <3>1, <3>2, <3>3
  <2>. QED  BY <1>1, <2>1, <2>2, MintedIs
<1>. QED  BY <1>3, MintedIs

LEMMA GapsTyped ==
  ASSUME Typed, JournalOk
  PROVE  Book \in Int /\ PaidGap \in Nat /\ MintGap \in Nat /\ MoveGap \in Nat
<1>1. PaidGap \in Nat
  <2>1. PaidUnbooked \in SUBSET Orders
    BY DEF PaidUnbooked, Typed, Shape
  <2>. QED  BY <2>1, StroopsSum DEF PaidGap
<1>2. MintGap \in Nat
  <2>1. IsFiniteSet(MintUnbooked)
    BY RefillAssumption, FS_Subset DEF MintUnbooked
  <2>2. \A o \in MintUnbooked : Minted[o] \in Nat
    BY MintedIs, MintedOf DEF MintUnbooked, Typed, Shape
  <2>3. \A o \in MintUnbooked : Minted[o] \in Int /\ Minted[o] >= 0
    BY <2>2
  <2>4. SumOf(Minted, MintUnbooked) \in Int /\ SumOf(Minted, MintUnbooked) >= 0
    BY <2>1, <2>3, SumType
  <2>. QED  BY <2>4 DEF MintGap
<1>3. MoveGap \in Nat
  <2>1. MovedUnbooked \subseteq Transfers
    BY DEF MovedUnbooked, Typed, Shape
  <2>2. IsFiniteSet(MovedUnbooked)
    BY <2>1, RefillAssumption, FS_Subset
  <2>. QED  BY <2>2, FS_CardinalityType DEF MoveGap
<1>4. Book \in Int
  <2>. DEFINE w == [e \in journal |-> PoolEffect(e)]
  <2>1. Book = SumOf(w, journal)
    BY DEF Book, NativeBalance, PoolEffect
  <2>2. \A e \in journal : w[e] \in Int
    BY DEF JournalOk
  <2>. HIDE DEF w
  <2>3. SumOf(w, journal) \in Int
    BY <2>2, SumType DEF JournalOk
  <2>. QED  BY <2>1, <2>3
<1>. QED  BY <1>1, <1>2, <1>3, <1>4

LEMMA PostsRefs ==
  ASSUME NEW e, Posts(e)
  PROVE  \A ref : HasRef(journal', ref) <=> HasRef(journal, ref) \/ e.ref = ref
  BY DEF Posts, HasRef

LEMMA BookAdds ==
  ASSUME JournalOk, NEW e, Posts(e)
  PROVE  Book' = Book + PoolEffect(e)
<1>1. IsFiniteSet(journal) /\ e \notin journal
  BY DEF JournalOk, Posts, HasRef
<1>2. \A x \in journal \cup {e} : PoolEffect(x) \in Int
  BY DEF JournalOk, Posts
<1>3. NativeBalance(journal \cup {e}, "USDC_POOL") = NativeBalance(journal, "USDC_POOL") + PoolEffect(e)
  BY <1>1, <1>2, BalanceAdd
<1>. QED  BY <1>3 DEF Posts, Book

LEMMA PaidKept ==
  ASSUME paid' = paid, \A o \in paid : HasRef(journal', PayRef(o)) <=> HasRef(journal, PayRef(o))
  PROVE  PaidGap' = PaidGap
<1>1. PaidUnbooked' = PaidUnbooked /\ Stroops' = Stroops
  BY DEF PaidUnbooked, Stroops
<1>. QED  BY <1>1 DEF PaidGap

LEMMA MoveKept ==
  ASSUME moved' = moved, \A t \in moved : HasRef(journal', ManualRef(t)) <=> HasRef(journal, ManualRef(t))
  PROVE  MoveGap' = MoveGap
<1>1. MovedUnbooked' = MovedUnbooked
  BY DEF MovedUnbooked
<1>. QED  BY <1>1 DEF MoveGap

LEMMA MintGapKept ==
  ASSUME \A o \in Orders : HasRef(journal', TopUpRef(o)) <=> HasRef(journal, TopUpRef(o)),
         \A o \in Orders : Minted'[o] = Minted[o]
  PROVE  MintGap' = MintGap
<1>1. MintUnbooked' = MintUnbooked /\ MintUnbooked \subseteq Orders
  BY DEF MintUnbooked
<1>2. IsFiniteSet(MintUnbooked)
  BY <1>1, RefillAssumption, FS_Subset
<1>3. SumOf(Minted', MintUnbooked) = SumOf(Minted, MintUnbooked)
  <2>. DEFINE v == Minted'
              w == Minted
  <2>1. \A o \in MintUnbooked : v[o] = w[o]
    BY <1>1
  <2>. HIDE DEF v, w
  <2>2. SumOf(v, MintUnbooked) = SumOf(w, MintUnbooked)
    BY <1>2, <2>1, SumSame
  <2>. QED  BY <2>2 DEF v, w
<1>. QED  BY <1>1, <1>3 DEF MintGap

\* A step changes the pool as much as its explanation.
LEMMA StillExplained ==
  ASSUME Typed, JournalOk, Explained, NEW a \in Int, NEW b \in Int, NEW c \in Int, NEW d \in Int,
         Book' = Book + a, PaidGap' = PaidGap + b, MintGap' = MintGap + c, MoveGap' = MoveGap + d,
         bal' = bal + (a - b + c + d)
  PROVE  Explained'
<1>1. Book \in Int /\ PaidGap \in Int /\ MintGap \in Int /\ MoveGap \in Int
  BY GapsTyped
<1>2. \A x, y, z, w \in Int :
        (x - y + z + w) + (a - b + c + d) = (x + a) - (y + b) + (z + c) + (w + d)
  OBVIOUS
<1>3. bal = Book - PaidGap + MintGap + MoveGap
  BY DEF Explained
<1>4. bal' = (Book - PaidGap + MintGap + MoveGap) + (a - b + c + d)
  BY <1>3
<1>5. bal' = (Book + a) - (PaidGap + b) + (MintGap + c) + (MoveGap + d)
  BY <1>1, <1>2, <1>4
<1>6. bal' = Book' - PaidGap' + MintGap' + MoveGap'
  BY <1>5
<1>. QED  BY <1>6 DEF Explained

\* Gaps that stay, written as changes by nothing.
LEMMA ByNothing ==
  ASSUME Typed, JournalOk
  PROVE  /\ PaidGap' = PaidGap => PaidGap' = PaidGap + 0
         /\ MintGap' = MintGap => MintGap' = MintGap + 0
         /\ MoveGap' = MoveGap => MoveGap' = MoveGap + 0
         /\ Book' = Book => Book' = Book + 0
<1>1. Book \in Int /\ PaidGap \in Int /\ MintGap \in Int /\ MoveGap \in Int
  BY GapsTyped
<1>2. \A x \in Int : x + 0 = x
  OBVIOUS
<1>. QED  BY <1>1, <1>2

\* Posting a payout.
LEMMA ArmExplained ==
  ASSUME Typed, JournalOk, Explained, NEW o \in Orders, Arm(o)
  PROVE  Explained'
<1>0. UNCHANGED <<bal, paid, mints, moved>> /\ o \in paid /\ bal \in Nat /\ paid \subseteq Orders
  BY DEF Arm, chain, Typed, Shape
<1>a. Minted' = Minted /\ Stroops' = Stroops
  BY <1>0 DEF Minted, Landed, Stroops
<1>1. CASE journal' = journal
  BY <1>0, <1>1, <1>a DEF Explained, Book, PaidGap, MintGap, MoveGap, PaidUnbooked, MintUnbooked, MovedUnbooked
<1>2. CASE Posts(PayEntry(o))
  <2>. DEFINE e == PayEntry(o)
              k == Facts[o].stroops
  <2>1. e.ref = PayRef(o) /\ PoolEffect(e) = -k /\ k \in Nat /\ Posts(e)
    BY <1>2, PayFacts, FactsTyped
  <2>. HIDE DEF e, k
  <2>2. \A ref : HasRef(journal', ref) <=> HasRef(journal, ref) \/ PayRef(o) = ref
    BY <2>1, PostsRefs
  <2>3. ~HasRef(journal, PayRef(o))
    BY <2>1 DEF Posts
  <2>4. Book' = Book + (-k)
    BY <2>1, BookAdds
  <2>5. PaidGap' = PaidGap + (-k)
    <3>1. PaidUnbooked = PaidUnbooked' \cup {o} /\ o \notin PaidUnbooked'
      BY <1>0, <2>2, <2>3, RefsDiffer DEF PaidUnbooked
    <3>2. PaidUnbooked' \in SUBSET Orders
      BY <1>0 DEF PaidUnbooked
    <3>3. SumOf(Stroops, PaidUnbooked' \cup {o}) = SumOf(Stroops, PaidUnbooked') + k
          /\ SumOf(Stroops, PaidUnbooked') \in Nat
      BY <3>1, <3>2, StroopsSum DEF k
    <3>4. \A x, y, z \in Int : x = y + z => y = x + (-z)
      OBVIOUS
    <3>5. PaidGap = SumOf(Stroops, PaidUnbooked' \cup {o}) /\ PaidGap' = SumOf(Stroops, PaidUnbooked')
      BY <1>a, <3>1 DEF PaidGap
    <3>6. PaidGap \in Int
      BY GapsTyped
    <3>. QED  BY <2>1, <3>3, <3>4, <3>5, <3>6
  <2>6. MintGap' = MintGap + 0
    <3>1. \A p \in Orders : HasRef(journal', TopUpRef(p)) <=> HasRef(journal, TopUpRef(p))
      BY <2>2, RefsDiffer
    <3>. QED  BY <1>a, <3>1, MintGapKept, ByNothing
  <2>7. MoveGap' = MoveGap + 0
    <3>1. \A t \in moved : HasRef(journal', ManualRef(t)) <=> HasRef(journal, ManualRef(t))
      BY <2>2, RefsDiffer
    <3>. QED  BY <1>0, <3>1, MoveKept, ByNothing
  <2>8. bal' = bal + (-k - (-k) + 0 + 0)
    BY <1>0, <2>1
  <2>9. -k \in Int
    BY <2>1
  <2>. QED  BY <2>4, <2>5, <2>6, <2>7, <2>8, <2>9, StillExplained
<1>. QED  BY <1>1, <1>2, ArmPosts

\* Posting a refill at the amount that was minted.
LEMMA RefillExplained ==
  ASSUME Typed, JournalOk, Explained, NEW o \in Orders, MintOk(o), UNCHANGED <<bal, paid, mints, moved>>,
         NEW n \in Landed(o), Posts(RefillEntry(o, mints[n].amt))
  PROVE  Explained'
<1>. DEFINE k == mints[n].amt
            e == RefillEntry(o, k)
<1>0. n \in DOMAIN mints /\ mints \in Seq(MintTx) /\ bal \in Nat
  BY DEF Landed, Typed, Shape
<1>1. k \in Nat /\ k > 0
  <2>1. mints[n] \in MintTx
    BY <1>0
  <2>. QED  BY <2>1 DEF MintTx
<1>a. Minted' = Minted
  BY DEF Minted, Landed
<1>b. Minted[o] = k
  <2>1. Landed(o) = {n}
    BY OneLanded
  <2>2. LandedIn(mints, o) = {n}
    BY <2>1, MintedIs
  <2>. QED  BY <1>0, <2>2, MintedOf, MintedIs
<1>. HIDE DEF k
<1>2. e.ref = TopUpRef(o) /\ PoolEffect(e) = k /\ Posts(e)
  BY <1>1, RefillFacts DEF k
<1>. HIDE DEF e
<1>3. \A ref : HasRef(journal', ref) <=> HasRef(journal, ref) \/ TopUpRef(o) = ref
  BY <1>2, PostsRefs
<1>4. ~HasRef(journal, TopUpRef(o))
  BY <1>2 DEF Posts
<1>5. Book' = Book + k
  BY <1>2, BookAdds
<1>6. PaidGap' = PaidGap + 0
  <2>1. \A p \in paid : HasRef(journal', PayRef(p)) <=> HasRef(journal, PayRef(p))
    BY <1>3, RefsDiffer
  <2>. QED  BY <2>1, PaidKept, ByNothing
<1>7. MintGap' = MintGap + (-k)
  <2>1. MintUnbooked = MintUnbooked' \cup {o} /\ o \notin MintUnbooked' /\ MintUnbooked' \subseteq Orders
    BY <1>3, <1>4, RefsDiffer DEF MintUnbooked
  <2>. DEFINE S == MintUnbooked'
  <2>2. IsFiniteSet(S) /\ o \notin S
    BY <2>1, RefillAssumption, FS_Subset
  <2>3. \A x \in S \cup {o} : Minted[x] \in Int
    BY <1>0, <2>1, MintedIs, MintedOf
  <2>4. MintGap = SumOf(Minted, S \cup {o}) /\ MintGap' = SumOf(Minted, S)
    BY <1>a, <2>1 DEF MintGap
  <2>. HIDE DEF S
  <2>5. SumOf(Minted, S \cup {o}) = SumOf(Minted, S) + Minted[o]
    BY <2>2, <2>3, SumAdd
  <2>6. SumOf(Minted, S) \in Int
    BY <2>2, <2>3, SumType
  <2>7. \A x, y, z \in Int : x = y + z => y = x + (-z)
    OBVIOUS
  <2>8. MintGap \in Int
    BY GapsTyped
  <2>. QED  BY <1>1, <1>b, <2>4, <2>5, <2>6, <2>7, <2>8
<1>8. MoveGap' = MoveGap + 0
  <2>1. \A t \in moved : HasRef(journal', ManualRef(t)) <=> HasRef(journal, ManualRef(t))
    BY <1>3, RefsDiffer
  <2>. QED  BY <2>1, MoveKept, ByNothing
<1>9. bal' = bal + (k - 0 + (-k) + 0) /\ -k \in Int
  BY <1>0, <1>1
<1>. QED  BY <1>1, <1>5, <1>6, <1>7, <1>8, <1>9, StillExplained

\* Admin transfers, and their booking by the operator's tool.
LEMMA TransferExplained ==
  ASSUME Typed, JournalOk, Explained, NEW t \in Transfers, ManualTopUp(t) \/ AdminTransfers(t)
  PROVE  Explained'
<1>0. /\ UNCHANGED <<paid, mints>> /\ bal \in Nat /\ moved \subseteq Transfers
      /\ IsFiniteSet(MovedUnbooked) /\ MoveGap \in Int
  <2>1. IsFiniteSet(MovedUnbooked)
    BY RefillAssumption, FS_Subset DEF MovedUnbooked, Typed, Shape
  <2>. QED  BY <2>1, GapsTyped DEF ManualTopUp, AdminTransfers, chain, Typed, Shape
<1>a. Minted' = Minted
  BY <1>0 DEF Minted, Landed
<1>1. CASE AdminTransfers(t)
  <2>1. t \notin moved /\ moved' = moved \cup {t} /\ bal' = bal + 1 /\ UNCHANGED journal
    BY <1>1 DEF AdminTransfers, disk
  <2>2. Book' = Book + 0 /\ PaidGap' = PaidGap + 0 /\ MintGap' = MintGap + 0
    <3>1. Book' = Book
      BY <2>1 DEF Book
    <3>2. PaidGap' = PaidGap
      BY <1>0, <2>1, PaidKept
    <3>3. MintGap' = MintGap
      BY <1>a, <2>1, MintGapKept
    <3>. QED  BY <3>1, <3>2, <3>3, ByNothing
  <2>3. MoveGap' = MoveGap + 1
    <3>1. ~HasRef(journal, ManualRef(t))
      BY <2>1 DEF JournalOk
    <3>2. MovedUnbooked' = MovedUnbooked \cup {t} /\ t \notin MovedUnbooked
      BY <2>1, <3>1 DEF MovedUnbooked
    <3>3. Cardinality(MovedUnbooked \cup {t}) = Cardinality(MovedUnbooked) + 1
      BY <1>0, <3>2, FS_AddElement
    <3>. QED  BY <3>2, <3>3 DEF MoveGap
  <2>4. bal' = bal + (0 - 0 + 0 + 1)
    BY <1>0, <2>1
  <2>. QED  BY <2>2, <2>3, <2>4, StillExplained
<1>2. CASE ManualTopUp(t)
  <2>. DEFINE e == TopUpEntry(ManualRef(t), 1, 1)
  <2>1. Posts(e) /\ e.ref = ManualRef(t) /\ PoolEffect(e) = 1
    BY <1>2, ManualPosts
  <2>. HIDE DEF e
  <2>2. UNCHANGED <<bal, moved>> /\ t \in moved /\ ~HasRef(journal, ManualRef(t))
    BY <1>2 DEF ManualTopUp, chain
  <2>3. \A ref : HasRef(journal', ref) <=> HasRef(journal, ref) \/ ManualRef(t) = ref
    BY <2>1, PostsRefs
  <2>4. Book' = Book + 1
    BY <2>1, BookAdds
  <2>5. PaidGap' = PaidGap + 0 /\ MintGap' = MintGap + 0
    <3>1. \A p \in paid : HasRef(journal', PayRef(p)) <=> HasRef(journal, PayRef(p))
      BY <2>3, RefsDiffer
    <3>2. \A p \in Orders : HasRef(journal', TopUpRef(p)) <=> HasRef(journal, TopUpRef(p))
      BY <2>3, RefsDiffer
    <3>3. PaidGap' = PaidGap
      BY <1>0, <3>1, PaidKept
    <3>4. MintGap' = MintGap
      BY <1>a, <3>2, MintGapKept
    <3>. QED  BY <3>3, <3>4, ByNothing
  <2>6. MoveGap' = MoveGap + (-1)
    <3>1. MovedUnbooked' = MovedUnbooked \ {t} /\ t \in MovedUnbooked
      BY <2>2, <2>3, RefsDiffer DEF MovedUnbooked
    <3>2. Cardinality(MovedUnbooked \ {t}) = Cardinality(MovedUnbooked) - 1
      BY <1>0, <3>1, FS_RemoveElement
    <3>3. MoveGap' = MoveGap - 1
      BY <3>1, <3>2 DEF MoveGap
    <3>. QED  BY <1>0, <3>3
  <2>7. bal' = bal + (1 - 0 + 0 + (-1))
    BY <1>0, <2>2
  <2>. QED  BY <2>4, <2>5, <2>6, <2>7, StillExplained
<1>. QED  BY <1>1, <1>2

\* A payout lands: it cannot be in the books yet.
LEMMA PayExplained ==
  ASSUME Typed, JournalOk, Explained, NEW o \in Orders, PayLands(o)
  PROVE  Explained'
<1>. DEFINE k == Facts[o].stroops
<1>0. /\ UNCHANGED <<mints, moved, journal>> /\ bal \in Nat /\ paid \subseteq Orders /\ o \notin paid
      /\ paid' = paid \cup {o} /\ bal' = bal - k /\ k \in Nat
  BY FactsTyped DEF PayLands, disk, Typed, Shape
<1>a. Minted' = Minted /\ Stroops' = Stroops
  BY <1>0 DEF Minted, Landed, Stroops
<1>1. PaidGap' = PaidGap + k
  <2>1. ~HasRef(journal, PayRef(o))
    BY <1>0 DEF JournalOk, Typed, Shape
  <2>2. PaidUnbooked' = PaidUnbooked \cup {o} /\ o \notin PaidUnbooked /\ PaidUnbooked \in SUBSET Orders
    BY <1>0, <2>1 DEF PaidUnbooked
  <2>3. SumOf(Stroops, PaidUnbooked \cup {o}) = SumOf(Stroops, PaidUnbooked) + k
    BY <2>2, StroopsSum
  <2>. QED  BY <1>a, <2>2, <2>3 DEF PaidGap
<1>. HIDE DEF k
<1>2. Book' = Book + 0 /\ MintGap' = MintGap + 0 /\ MoveGap' = MoveGap + 0
  <2>1. Book' = Book
    BY <1>0 DEF Book
  <2>2. MintGap' = MintGap
    BY <1>0, <1>a, MintGapKept
  <2>3. MoveGap' = MoveGap
    BY <1>0, MoveKept
  <2>. QED  BY <2>1, <2>2, <2>3, ByNothing
<1>3. bal' = bal + (0 - k + 0 + 0)
  BY <1>0
<1>4. 0 \in Int /\ k \in Int
  BY <1>0
<1>. QED  BY <1>1, <1>2, <1>3, <1>4, StillExplained

\* Mints that are sent, fail or expire change no balance.
LEMMA SameLanded ==
  ASSUME Typed, Typed', JournalOk, Explained, \A o \in Orders : MintOk(o),
         UNCHANGED <<bal, paid, moved, journal>>, DOMAIN mints \subseteq DOMAIN mints',
         \A n \in DOMAIN mints : mints'[n].amt = mints[n].amt,
         \A o \in Orders : Landed(o)' = Landed(o)
  PROVE  Explained'
<1>0. bal \in Nat
  BY DEF Typed, Shape
<1>1. \A o \in Orders : Minted'[o] = Minted[o]
  BY MintedKept
<1>2. MintGap' = MintGap
  BY <1>1, MintGapKept
<1>3. PaidGap' = PaidGap /\ MoveGap' = MoveGap /\ Book' = Book
  BY PaidKept, MoveKept DEF Book
<1>. QED  BY <1>2, <1>3 DEF Explained

LEMMA SendExplained ==
  ASSUME Typed, Typed', JournalOk, Explained, \A o \in Orders : MintOk(o), SendMint
  PROVE  Explained'
<1>. DEFINE m == [o |-> work.o, amt |-> work.amt, seq |-> issSeq + 1, st |-> "net"]
<1>1. /\ mints \in Seq(MintTx) /\ mints' = Append(mints, m) /\ m.st = "net"
      /\ UNCHANGED <<bal, paid, moved, journal>>
  BY DEF SendMint, disk, Typed, Shape
<1>. HIDE DEF m
<1>2. /\ DOMAIN mints = 1 .. Len(mints) /\ DOMAIN mints' = 1 .. Len(mints) + 1 /\ Len(mints) \in Nat
      /\ mints'[Len(mints) + 1] = m /\ \A k \in DOMAIN mints : mints'[k] = mints[k]
  BY <1>1
<1>3. \A o \in Orders : Landed(o)' = Landed(o)
  BY <1>1, <1>2 DEF Landed
<1>4. DOMAIN mints \subseteq DOMAIN mints'
  BY <1>2
<1>. QED  BY <1>1, <1>2, <1>3, <1>4, SameLanded

\* A mint lands: it is not in the books yet, and the only one of its order.
LEMMA LandExplained ==
  ASSUME Typed, Typed', JournalOk, Explained, \A o \in Orders : MintOk(o),
         NEW n \in DOMAIN mints, MintLands(n) \/ MintExpires(n)
  PROVE  Explained'
<1>0. /\ mints \in Seq(MintTx) /\ mints' \in Seq(MintTx) /\ bal \in Nat
      /\ UNCHANGED <<paid, moved, journal>> /\ mints[n].st = "net"
  BY DEF MintLands, MintExpires, disk, Typed, Shape
<1>. DEFINE o == mints[n].o
            k == mints[n].amt
<1>a. o \in Orders /\ k \in Nat /\ k > 0
  <2>1. mints[n] \in MintTx
    BY <1>0
  <2>. QED  BY <2>1 DEF MintTx
<1>1. ASSUME NEW st \in {"failed", "expired"}, mints' = [mints EXCEPT ![n].st = st], bal' = bal
      PROVE  Explained'
  <2>1. /\ DOMAIN mints' = DOMAIN mints
        /\ \A i \in DOMAIN mints : mints'[i].o = mints[i].o /\ mints'[i].amt = mints[i].amt
        /\ mints'[n].st = st /\ \A i \in DOMAIN mints : i # n => mints'[i].st = mints[i].st
    BY <1>1, MintChanges
  <2>2. \A p \in Orders : Landed(p)' = Landed(p)
    BY <1>0, <2>1 DEF Landed
  <2>. QED  BY <1>0, <1>1, <2>1, <2>2, SameLanded
<1>2. ASSUME mints' = [mints EXCEPT ![n].st = "landed"], bal' = bal + k PROVE Explained'
  <2>1. /\ DOMAIN mints' = DOMAIN mints
        /\ \A i \in DOMAIN mints : mints'[i].o = mints[i].o /\ mints'[i].amt = mints[i].amt
        /\ mints'[n].st = "landed" /\ \A i \in DOMAIN mints : i # n => mints'[i].st = mints[i].st
    BY <1>2, MintChanges
  <2>2. MintOk(o) /\ n \in LiveMints(o)
    BY <1>0, <1>a DEF LiveMints
  <2>3. ~HasRef(journal, TopUpRef(o)) /\ LiveMints(o) = {n}
    BY <1>0, <2>2 DEF MintOk, Booked
  <2>4. Landed(o) = {} /\ Landed(o)' = {n}
    <3>1. Landed(o) \subseteq LiveMints(o)
      BY DEF Landed, LiveMints
    <3>2. Landed(o) = {}
      BY <1>0, <2>3, <3>1 DEF Landed
    <3>3. \A i \in DOMAIN mints : mints'[i].st = "landed" => i = n \/ mints[i].st = "landed"
      BY <2>1
    <3>4. LandedIn(mints', o) = {n}
      BY <2>1, <3>2, <3>3 DEF Landed, LandedIn
    <3>5. Landed(o)' = {i \in DOMAIN mints' : mints'[i].o = o' /\ mints'[i].st = "landed"}
      BY DEF Landed
    <3>6. o' = o
      BY <2>1
    <3>. QED  BY <3>2, <3>4, <3>5, <3>6 DEF LandedIn
  <2>5. Minted[o] = 0 /\ Minted'[o] = k
    <3>1. LandedIn(mints, o) = {} /\ LandedIn(mints', o) = {n}
      <4>1. o' = o
        BY <2>1
      <4>. QED  BY <2>4, <4>1 DEF Landed, LandedIn
    <3>2. MintedIn(mints, o) = 0 /\ MintedIn(mints', o) = mints'[n].amt
      BY <1>0, <2>1, <3>1, MintedOf
    <3>. QED  BY <1>a, <2>1, <3>2, MintedIs
  <2>6. \A p \in Orders : p # o => Minted'[p] = Minted[p]
    <3>1. ASSUME NEW p \in Orders, p # o PROVE Minted'[p] = Minted[p]
      <4>1. Landed(p)' = Landed(p)
        BY <2>1, <3>1 DEF Landed
      <4>2. MintOk(p) /\ DOMAIN mints \subseteq DOMAIN mints'
        BY <2>1
      <4>. QED  BY <2>1, <4>1, <4>2, MintedKept
    <3>. QED  BY <3>1
  <2>7. MintGap' = MintGap + k
    <3>. DEFINE v == Minted'
                w == Minted
                S == MintUnbooked \ {o}
    <3>1. MintUnbooked = S \cup {o} /\ o \notin S /\ S \subseteq Orders /\ MintUnbooked' = MintUnbooked
      BY <1>0, <1>a, <2>3 DEF MintUnbooked
    <3>2. IsFiniteSet(S)
      BY <3>1, RefillAssumption, FS_Subset
    <3>3. \A x \in S \cup {o} : v[x] \in Int /\ w[x] \in Int
      <4>1. \A x \in Orders : MintedIn(mints, x) \in Int /\ MintedIn(mints', x) \in Int
        BY <1>0, MintedOf
      <4>. QED  BY <1>a, <3>1, <4>1, MintedIs
    <3>4. \A x \in S : v[x] = w[x]
      BY <2>6, <3>1
    <3>5. v[o] = k /\ w[o] = 0
      BY <2>5
    <3>6. MintGap = SumOf(w, S \cup {o}) /\ MintGap' = SumOf(v, S \cup {o})
      BY <3>1 DEF MintGap
    <3>. HIDE DEF v, w, S, o, k
    <3>7. SumOf(w, S \cup {o}) = SumOf(w, S) + w[o] /\ SumOf(v, S \cup {o}) = SumOf(v, S) + v[o]
      BY <3>1, <3>2, <3>3, SumAdd
    <3>8. SumOf(v, S) = SumOf(w, S) /\ SumOf(w, S) \in Int
      <4>1. SumOf(v, S) = SumOf(w, S)
        BY <3>2, <3>4, SumSame
      <4>2. SumOf(w, S) \in Int
        BY <3>2, <3>3, SumType
      <4>. QED  BY <4>1, <4>2
    <3>. QED  BY <1>a, <3>5, <3>6, <3>7, <3>8
  <2>8. Book' = Book + 0 /\ PaidGap' = PaidGap + 0 /\ MoveGap' = MoveGap + 0
    <3>1. Book' = Book /\ PaidGap' = PaidGap /\ MoveGap' = MoveGap
      BY <1>0, PaidKept, MoveKept DEF Book
    <3>. QED  BY <3>1, ByNothing
  <2>. HIDE DEF k
  <2>9. bal' = bal + (0 - 0 + k + 0) /\ k \in Int /\ 0 \in Int
    BY <1>0, <1>2, <1>a
  <2>. QED  BY <2>7, <2>8, <2>9, StillExplained
<1>. QED  BY <1>1, <1>2 DEF MintLands, MintExpires

\* The opening balance explains a pool nothing has touched.
LEMMA GenesisExplained ==
  ASSUME Typed, JournalOk, EmptyBooks, journal = {}, BootGenesis, journal' # {}
  PROVE  Explained'
<1>0. /\ paid = {} /\ moved = {} /\ mints = <<>> /\ proc.base = bal /\ bal \in Nat
      /\ UNCHANGED <<bal, paid, moved, mints>>
  BY DEF EmptyBooks, BootGenesis, chain, Typed, Shape
<1>1. PICK e : Posts(e) /\ PoolEffect(e) = proc.base
  BY GenesisPosts
<1>2. Book' = bal
  <2>1. Book = 0
    <3>1. Book = SumOf([x \in journal |-> NativeEffect(x, "USDC_POOL")], {})
      BY DEF Book, NativeBalance
    <3>. QED  BY <3>1, SumEmpty
  <2>2. Book' = Book + PoolEffect(e)
    BY <1>1, BookAdds
  <2>. QED  BY <1>0, <1>1, <2>1, <2>2
<1>3. PaidGap' = 0
  <2>1. PaidUnbooked' = {}
    BY <1>0 DEF PaidUnbooked
  <2>. QED  BY <2>1, SumEmpty DEF PaidGap
<1>4. MoveGap' = 0
  <2>1. MovedUnbooked' = {}
    BY <1>0 DEF MovedUnbooked
  <2>. QED  BY <2>1, FS_EmptySet DEF MoveGap
<1>5. MintGap' = 0
  <2>. DEFINE v == Minted'
              S == MintUnbooked'
  <2>1. IsFiniteSet(S) /\ S \subseteq Orders
    BY RefillAssumption, FS_Subset DEF MintUnbooked
  <2>2. \A o \in Orders : v[o] = 0
    <3>1. mints' = <<>> /\ mints' \in Seq(MintTx)
      BY <1>0
    <3>2. \A o \in Orders : LandedIn(mints', o) = {}
      BY <3>1 DEF LandedIn
    <3>3. \A o \in Orders : MintedIn(mints', o) = 0
      BY <3>1, <3>2, MintedOf
    <3>. QED  BY <3>3, MintedIs
  <2>3. MintGap' = SumOf(v, S)
    BY DEF MintGap
  <2>. HIDE DEF v, S
  <2>4. SumOf(v, S) = 0
    BY <2>1, <2>2, SumZero
  <2>. QED  BY <2>3, <2>4
<1>6. bal' = Book' - PaidGap' + MintGap' + MoveGap'
  <2>1. bal = bal - 0 + 0 + 0
    BY <1>0
  <2>. QED  BY <1>0, <1>2, <1>3, <1>4, <1>5, <2>1
<1>. QED  BY <1>6 DEF Explained

LEMMA NextBooks ==
  ASSUME GateInv, MintsOk, BooksOk, [Next]_vars
  PROVE  BooksOk'
<1>. SUFFICES ASSUME journal' # {}, spent'.throws = 0 PROVE Explained'
  BY DEF BooksOk
<1>0. Typed /\ Typed' /\ JournalOk /\ EmptyBooks
  BY NextTyped DEF GateInv
<1>1. spent.throws = 0 /\ ~LateThrow /\ \A o \in Orders : MintOk(o)
  BY <1>0, ThrowsStay DEF MintsOk
<1>2. CASE journal = {}
  <2>1. paid = {} /\ evid = {} /\ mints = <<>> /\ work.at = "idle"
    BY <1>0, <1>2 DEF EmptyBooks, Typed, Shape, Memory
  <2>2. BootGenesis
    <3>1. ~BookTopUp /\ ~\E o \in Orders : Arm(o)
      BY <2>1 DEF BookTopUp, Arm
    <3>2. ~\E t \in Transfers : ManualTopUp(t)
      BY <1>2 DEF ManualTopUp
    <3>3. ASSUME NEW o \in Orders, OperatorResolves(o) PROVE journal' = journal
      <4>1. Landed(o) = {}
        BY <2>1 DEF Landed
      <4>. QED  BY <1>0, <3>3, <4>1, ResolvePosts
    <3>. QED  BY <1>2, <3>1, <3>2, <3>3, WhoPosts
  <2>. QED  BY <1>0, <1>2, <2>2, GenesisExplained
<1>3. CASE journal # {}
  <2>0. Explained
    BY <1>1, <1>3 DEF BooksOk
  <2>1. CASE UNCHANGED <<bal, paid, mints, moved, journal>>
    <3>1. Minted' = Minted /\ Stroops' = Stroops
      BY <2>1 DEF Minted, Landed, Stroops
    <3>. QED  BY <2>0, <2>1, <3>1 DEF Explained, Book, PaidGap, MintGap, MoveGap, PaidUnbooked,
                                      MintUnbooked, MovedUnbooked
  <2>2. ASSUME NEW o \in Orders, Reserve(o) \/ ReleaseReservation(o) \/ AppendEvidence(o)
                                 \/ MarkReservationSettled(o) \/ Claim(o)
        PROVE  Explained'
    BY <2>1, <2>2 DEF Reserve, ReleaseReservation, AppendEvidence, MarkReservationSettled, Claim,
                      chain, disk
  <2>3. ASSUME NEW o \in Orders, Arm(o) \/ PayLands(o) PROVE Explained'
    BY <1>0, <2>0, <2>3, ArmExplained, PayExplained
  <2>4. ASSUME NEW o \in Orders, OperatorResolves(o) PROVE Explained'
    <3>1. UNCHANGED <<bal, paid, mints, moved>>
      BY <2>4 DEF OperatorResolves, chain
    <3>2. CASE journal' = journal
      BY <2>1, <3>1, <3>2
    <3>3. ASSUME NEW n \in Landed(o), Posts(RefillEntry(o, mints[n].amt)) PROVE Explained'
      BY <1>0, <1>1, <2>0, <3>1, <3>3, RefillExplained
    <3>. QED  BY <1>0, <2>4, <3>2, <3>3, ResolvePosts
  <2>5. CASE BookTopUp
    <3>1. UNCHANGED <<bal, paid, mints, moved>> /\ work.at = "landed"
      BY <2>5 DEF BookTopUp, chain
    <3>2. CASE journal' = journal
      BY <2>1, <3>1, <3>2
    <3>3. CASE Posts(RefillEntry(work.o, work.amt))
      <4>1. PICK o \in Orders : o = work.o
        BY <1>0, <3>1, WorkFields
      <4>2. Knows(o)
        BY <1>1, <4>1 DEF MintsOk
      <4>a. mints \in Seq(MintTx) /\ mints # <<>>
        BY <1>0, <3>1 DEF Typed, Shape, Memory
      <4>b. Len(mints) \in DOMAIN mints
        BY <4>a
      <4>3. PICK n \in DOMAIN mints : n = Len(mints)
        BY <4>b
      <4>4. mints[n].st = "landed" /\ mints[n].o = o /\ mints[n].amt = work.amt
        BY <1>0, <3>1, <4>1, <4>2, <4>3 DEF Knows, Sent, Typed, Memory
      <4>5. n \in Landed(o)
        BY <4>4 DEF Landed
      <4>6. Posts(RefillEntry(o, mints[n].amt))
        BY <3>3, <4>1, <4>4
      <4>. QED  BY <1>0, <1>1, <2>0, <3>1, <4>5, <4>6, RefillExplained
    <3>. QED  BY <1>0, <2>5, <3>2, <3>3, BookPosts
  <2>6. CASE SendMint
    BY <1>0, <1>1, <2>0, <2>6, SendExplained
  <2>7. ASSUME OpenIntent PROVE Explained'
    BY <2>1, <2>7 DEF OpenIntent, chain
  <2>8. ASSUME \/ RateFails \/ AlreadyBooked \/ MintBlocked \/ SendRefused \/ FinalitySuccess
               \/ FinalityFails \/ CloseIntent \/ CreditPool
        PROVE  Explained'
    BY <2>1, <2>8 DEF RateFails, AlreadyBooked, MintBlocked, SendRefused, FinalitySuccess,
                      FinalityFails, CloseIntent, CreditPool, chain, disk
  <2>9. ASSUME Boot \/ Crash PROVE Explained'
    <3>1. ASSUME BootRead \/ BootSweep \/ Crash PROVE Explained'
      BY <2>1, <3>1 DEF BootRead, BootSweep, Crash, chain, disk
    <3>2. CASE BootGenesis
      <4>1. journal' = journal
        BY <1>3, <3>2 DEF BootGenesis
      <4>. QED  BY <2>1, <3>2, <4>1 DEF BootGenesis, chain
    <3>. QED  BY <2>9, <3>1, <3>2 DEF Boot
  <2>10. ASSUME NEW t \in Transfers, ManualTopUp(t) \/ AdminTransfers(t) PROVE Explained'
    BY <1>0, <2>0, <2>10, TransferExplained
  <2>11. ASSUME NEW n \in DOMAIN mints, MintLands(n) \/ MintExpires(n) PROVE Explained'
    BY <1>0, <1>1, <2>0, <2>11, LandExplained
  <2>12. CASE UNCHANGED vars
    BY <2>1, <2>12 DEF vars
  <2>. QED  BY <1>1, <2>2, <2>3, <2>4, <2>5, <2>6, <2>7, <2>8, <2>9, <2>10, <2>11, <2>12
            DEF Next, Worker
<1>. QED  BY <1>2, <1>3

LEMMA TypesFollow == ASSUME Typed, JournalOk PROVE TypeOK
<1>1. \A n \in DOMAIN mints : mints[n] \in MintTx
  BY DEF Typed, Shape
<1>2. intents \in [Orders -> 0 .. proc.life]
  <2>1. \A o \in Orders : intents[o] \in 0 .. proc.life
    BY DEF Typed, Shape, Memory, ProcTyped
  <2>. QED  BY <2>1 DEF Typed, Shape
<1>. QED  BY <1>1, <1>2 DEF TypeOK, Typed, Shape, JournalOk, MintTx, ProcTyped, WorkTyped, PendTyped,
                               ResvTyped

\* The books explain the chain: a booked mint is booked at the amount that was minted, and what
\* the books miss is exactly the payouts, mints and transfers not yet booked.
THEOREM BooksExplainChainHolds == Spec => []BooksExplainChain
<1>1. Init => GateInv /\ MintsOk /\ BooksOk
  <2>1. Init => BooksOk
    BY DEF Init, BooksOk
  <2>. QED  BY <2>1, InitGate, InitMints
<1>2. GateInv /\ MintsOk /\ BooksOk /\ [Next]_vars => (GateInv /\ MintsOk /\ BooksOk)'
  BY NextGate, NextMints, NextBooks DEF GateInv
<1>3. GateInv /\ MintsOk /\ BooksOk => BooksExplainChain
  <2>. SUFFICES ASSUME GateInv, BooksOk PROVE BooksExplainChain
    OBVIOUS
  <2>1. TypeOK
    BY TypesFollow DEF GateInv
  <2>2. journal # {} /\ spent.throws = 0 =>
          bal = NativeBalance(journal, "USDC_POOL")
                - SumOf(Stroops, {o \in paid : ~HasRef(journal, PayRef(o))})
                + SumOf(Minted, {o \in Orders : ~HasRef(journal, TopUpRef(o))})
                + Cardinality({t \in moved : ~HasRef(journal, ManualRef(t))})
    BY DEF BooksOk, Explained, Book, PaidGap, MintGap, MoveGap, PaidUnbooked, MintUnbooked, MovedUnbooked
  <2>. QED  BY <2>1, <2>2 DEF BooksExplainChain
<1>. QED  BY <1>1, <1>2, <1>3, PTL DEF Spec
=============================================================================
