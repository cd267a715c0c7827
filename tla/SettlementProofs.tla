-------------------------- MODULE SettlementProofs --------------------------
(***************************************************************************)
(* Theorems about the settlement of orders, for every set of orders, every *)
(* retry policy and any number of crashes, throwing calls, unreadable      *)
(* answers, pauses, failing transfers and drains.                          *)
(*                                                                         *)
(* The invariant is a statement about one order at a time: its run in      *)
(* memory (r), its registry row (g), its store row (w), its evidence (e),  *)
(* its sale (s), its signed transactions (T) and whether the contract has  *)
(* paid it (paid).  What orders share (the sequence ledger, the pool's     *)
(* balance, the account's sequence) enters it by its type only.            *)
(*                                                                         *)
(* Two more layers, each proved with the ones below it, bring the shared   *)
(* state in.  TrackInv: up to the first fault the ledger has a record of   *)
(* the sequence every row in flight names.  PeaceInv: while nothing        *)
(* throws and the pool is neither paused nor drained, the account's        *)
(* sequence is where the orders' landed transactions put it, and the       *)
(* reservations cover what the pool still has to pay.                      *)
(***************************************************************************)
EXTENDS Settlement, FiniteSetTheorems, NaturalsInduction, WellFoundedInduction, TLAPS

-----------------------------------------------------------------------------
(* Shapes.                                                                 *)

\* What a run may still have to do: the tails of the table's effects.
Batches ==
  {<<>>, <<"fireSolvencyCheck">>, <<"fireCheckoutForm">>, <<"rePollObserveOnly">>,
   <<"releaseReservation">>, <<"allocateSeq", "persistInFlight", "submitPay">>,
   <<"persistInFlight", "submitPay">>, <<"submitPay">>,
   <<"persistInFlight", "submitReplacementSameSeq">>, <<"submitReplacementSameSeq">>,
   <<"reallocateSeq", "persistInFlight", "submitPay">>, <<"escalate">>,
   <<"handToReconciler">>, <<"confirmBurnedSeq">>,
   <<"releaseSeq", "releaseReservation", "fireCancel">>,
   <<"releaseReservation", "fireCancel">>, <<"fireCancel">>, <<"flagLoss">>}

RunType == [by : {"none", "intent", "webhook", "poll"}, st : States \cup {"none"},
            todo : Batches, ctx : Ctxs, sub : Steps]
RegType == [st : States \cup {"none"}, ctx : Ctxs]
RowType == [st : {"none", "Reserved", "UsdcSubmitted"}, seq : Seqs \cup {NoSeq},
            hash : Nat, pid : BOOLEAN]
EvidType == [hash : Nat, seq : Seqs \cup {NoSeq}]
SaleType == {"none", "form", "paid", "declined", "voided"}
TxType == [seq : Seqs, res : PayResults \cup {"net"}, exp : BOOLEAN]

Shape ==
  /\ run \in [Orders -> RunType] /\ reg \in [Orders -> RegType] /\ row \in [Orders -> RowType]
  /\ evid \in [Orders -> EvidType] /\ sale \in [Orders -> SaleType]
  /\ txs \in [Orders -> Seq(TxType)]
  /\ resv \in [Orders -> {"none", "held", "settled"}]
  /\ ledger \in Ledgers /\ flagged \subseteq Orders
  /\ pool \in [balance : Int, processed : SUBSET Orders, paused : BOOLEAN]
  /\ spent \in [faults : Nat, pauses : Nat, traps : Nat, drains : Nat]

-----------------------------------------------------------------------------
(* The inductive invariant, order by order.                                *)

On(r) == r.by # "none"
Charged(s) == s \in {"paid", "voided"}
Submits == {<<"submitPay">>, <<"submitReplacementSameSeq">>}

\* The transaction was applied and paid nothing.
Reverted(t) == t.res \notin {"net", "Ok"}

\* It has paid nothing and never will.
Dead(t) == Reverted(t) \/ (t.res = "net" /\ t.exp)

\* A run is in a state of the table, with what is left of an edge into that state.
Walk(r) ==
  \/ r.st = "Reserved" /\ r.todo = <<"fireSolvencyCheck">>
  \/ r.st = "SolvencyReserved" /\ r.todo \in {<<"fireCheckoutForm">>, <<"rePollObserveOnly">>, <<>>}
  \/ r.st = "FailedClean" /\ r.todo \in {<<"releaseReservation">>, <<>>}
  \/ r.st = "UsdcSubmitted" /\ r.todo \in
       {<<"allocateSeq", "persistInFlight", "submitPay">>,
        <<"reallocateSeq", "persistInFlight", "submitPay">>,
        <<"persistInFlight", "submitPay">>, <<"persistInFlight", "submitReplacementSameSeq">>,
        <<"submitPay">>, <<"submitReplacementSameSeq">>, <<"escalate">>, <<>>}
  \/ r.st = "UsdcPending" /\ r.todo \in {<<"rePollObserveOnly">>, <<>>}
  \/ r.st = "UsdcConfirmed" /\ r.todo \in {<<"handToReconciler">>, <<>>}
  \/ r.st = "UsdcReverted" /\ r.todo = <<"confirmBurnedSeq">>
  \/ r.st = "UsdcDead" /\ r.todo = <<>>
  \/ r.st = "ChargeReversing" /\ r.todo \in
       {<<"releaseSeq", "releaseReservation", "fireCancel">>,
        <<"releaseReservation", "fireCancel">>, <<"fireCancel">>}
  \/ r.st = "ChargeReversed" /\ r.todo = <<>>
  \/ r.st = "LossReview" /\ r.todo \in {<<"flagLoss">>, <<>>}

WalkInv(r) ==
  /\ ~On(r) => r = Off
  /\ On(r) => Walk(r)
  /\ r.sub \in {"sent", "recorded"} => r.todo \in Submits
  /\ r.sub = "burned" => r.todo = <<"confirmBurnedSeq">>
  /\ r.sub = "appended" => r.todo = <<"handToReconciler">>

\* Before the charge is known: nothing was signed, and the customer can only act on a
\* form whose token has been put.
EarlyInv(r, g, w, e, s, T) ==
  /\ g.st = "none" => r = Off
  /\ w.st = "none" => g.st = "none"
  /\ g.st \in {"none", "Reserved"} =>
       /\ g.ctx = NoCtx /\ s \in {"none", "form"} /\ w.st # "UsdcSubmitted"
       /\ On(r) => \/ r.st = "SolvencyReserved" /\ r.todo = <<>> /\ r.ctx.tok
                   \/ r.ctx = NoCtx /\ r.st \in {"Reserved", "FailedClean", "SolvencyReserved"}
  /\ On(r) /\ (r.st = "Reserved" \/ r.todo = <<"fireCheckoutForm">>) =>
       g.st = "Reserved" /\ r.ctx = NoCtx
  /\ w.st # "UsdcSubmitted" =>
       /\ T = <<>> /\ w.hash = 0 /\ w.seq = NoSeq /\ e.hash = 0 /\ s # "voided"
       /\ g.ctx.hash = 0 /\ g.ctx.seq = NoSeq
       /\ g.st \in {"none", "Reserved", "SolvencyReserved", "FailedClean"}
       /\ On(r) => \/ r.st \in {"Reserved", "SolvencyReserved", "FailedClean"}
                   \/ /\ r.st = "UsdcSubmitted" /\ s = "paid" /\ r.ctx.pid
                      /\ r.todo \in {<<"allocateSeq", "persistInFlight", "submitPay">>,
                                     <<"persistInFlight", "submitPay">>}
  /\ g.st = "FailedClean" \/ r.st = "FailedClean" =>
       /\ w.st # "UsdcSubmitted"
       /\ s = "declined" \/ (s \in {"none", "form"} /\ ~g.ctx.tok /\ ~r.ctx.tok)

\* Once the row is in flight the customer has been charged, and stays so.
FlightInv(r, g, w, s) ==
  w.st = "UsdcSubmitted" =>
    /\ Charged(s) /\ w.seq \in Seqs /\ w.pid
    /\ g.st \notin {"none", "Reserved", "FailedClean"}
    /\ On(r) => /\ r.st \notin {"Reserved", "SolvencyReserved", "FailedClean"}
                /\ r.todo # <<"allocateSeq", "persistInFlight", "submitPay">>
                /\ r.ctx.pid

\* The hash and the sequence of a row belong to one transaction, or that transaction was
\* reverted; a run carries what its rows say.
WitnessInv(r, g, w, T) ==
  /\ w.hash \in 0 .. Len(T)
  /\ w.hash # 0 => T[w.hash].seq = w.seq \/ Reverted(T[w.hash])
  /\ w.hash = 0 => g.ctx.hash = 0
  /\ w.seq = NoSeq => g.ctx.seq = NoSeq
  /\ On(r) =>
       /\ r.sub # "recorded" => r.ctx.hash = w.hash
       /\ IF r.todo = <<"persistInFlight", "submitPay">>
          THEN r.ctx.seq \in Seqs /\ (w.hash # 0 => Reverted(T[w.hash]))
          ELSE r.ctx.seq = w.seq
       /\ r.sub \in {"sent", "recorded"} => T # <<>> /\ T[Len(T)].seq = r.ctx.seq
       /\ r.sub = "recorded" => w.hash = Len(T)
       /\ r.st = "UsdcReverted" \/ r.todo = <<"reallocateSeq", "persistInFlight", "submitPay">> =>
            w.hash # 0 /\ Reverted(T[w.hash])
       /\ r.todo = <<"handToReconciler">> => w.hash # 0 /\ T[w.hash].res = "Ok"

\* What is reported as confirmed was paid.
PaidInv(r, g, e, T, paid) ==
  /\ paid <=> \E n \in DOMAIN T : T[n].res = "Ok"
  /\ \A n \in DOMAIN T : T[n].res = "AlreadyProcessed" => paid
  /\ On(r) /\ r.st = "UsdcConfirmed" => paid
  /\ g.st \in {"UsdcConfirmed", "Reconciled"} => paid
  /\ e.hash # 0 =>
       /\ e.hash \in DOMAIN T /\ T[e.hash].res = "Ok" /\ T[e.hash].seq = e.seq
       /\ On(r) => r.st = "UsdcConfirmed" /\ (r.todo = <<>> \/ r.sub = "appended")

\* A quarantined order has nothing left to do.
FlagInv(r, w, e, held) ==
  held => /\ w.st = "UsdcSubmitted" /\ e.hash = 0
          /\ On(r) => r.todo = <<>> /\ r.st # "UsdcDead"

\* Before any fault, no run was cut off between a signature and the put of its maxTime:
\* every transaction but the last is dead when the next one is signed, and all are when
\* the sale is voided.
CalmInv(r, g, w, s, T) ==
  /\ w.hash = IF r.sub = "sent" THEN Len(T) - 1 ELSE Len(T)
  /\ \A n \in 1 .. (Len(T) - 1) : Dead(T[n])
  /\ r.sub \notin {"sent", "recorded"} /\ w.hash # 0 =>
       /\ \/ Reverted(T[w.hash]) \/ g.ctx.maxT = w.hash
          \/ /\ On(r) /\ r.st # "UsdcDead"
             /\ r.todo \in {<<"rePollObserveOnly">>, <<>>, <<"handToReconciler">>, <<"escalate">>}
       /\ On(r) => Reverted(T[w.hash]) \/ r.ctx.maxT = w.hash
       /\ On(r) /\ r.todo \in Submits \cup {<<"persistInFlight", "submitReplacementSameSeq">>} =>
            Dead(T[w.hash])
  /\ On(r) /\ r.st \in {"UsdcDead", "ChargeReversing"} => \A n \in DOMAIN T : Dead(T[n])
  /\ s = "voided" =>
       /\ \A n \in DOMAIN T : Dead(T[n])
       /\ \/ ~On(r) /\ g.st \in {"ChargeReversed", "LossReview"}
          \/ On(r) /\ r.st \in {"ChargeReversed", "LossReview"}
          \/ On(r) /\ r.todo = <<"fireCancel">>

Good(r, g, w, e, s, T, paid, held, calm) ==
  /\ WalkInv(r)
  /\ EarlyInv(r, g, w, e, s, T)
  /\ FlightInv(r, g, w, s)
  /\ WitnessInv(r, g, w, T)
  /\ PaidInv(r, g, e, T, paid)
  /\ FlagInv(r, w, e, held)
  /\ calm => CalmInv(r, g, w, s, T)

OrderInv(o) ==
  Good(run[o], reg[o], row[o], evid[o], sale[o], txs[o], o \in pool.processed,
       o \in flagged, spent.faults = 0)

SettleInv == Shape /\ \A o \in Orders : OrderInv(o)

-----------------------------------------------------------------------------
(* The table and the driver.                                               *)

\* Which batch a run is in, by its head, and what is left when the head is done.
LEMMA BatchHeads ==
  ASSUME NEW t \in Batches, t # <<>>
  PROVE  /\ Head(t) = "fireSolvencyCheck" => t = <<"fireSolvencyCheck">>
         /\ Head(t) = "fireCheckoutForm" => t = <<"fireCheckoutForm">>
         /\ Head(t) = "rePollObserveOnly" => t = <<"rePollObserveOnly">>
         /\ Head(t) = "allocateSeq" => t = <<"allocateSeq", "persistInFlight", "submitPay">>
         /\ Head(t) = "reallocateSeq" => t = <<"reallocateSeq", "persistInFlight", "submitPay">>
         /\ Head(t) = "persistInFlight" =>
              t \in {<<"persistInFlight", "submitPay">>,
                     <<"persistInFlight", "submitReplacementSameSeq">>}
         /\ Head(t) \in {"submitPay", "submitReplacementSameSeq"} => t \in Submits
         /\ Head(t) = "handToReconciler" => t = <<"handToReconciler">>
         /\ Head(t) = "confirmBurnedSeq" => t = <<"confirmBurnedSeq">>
         /\ Head(t) = "releaseSeq" => t = <<"releaseSeq", "releaseReservation", "fireCancel">>
         /\ Head(t) = "releaseReservation" =>
              t \in {<<"releaseReservation">>, <<"releaseReservation", "fireCancel">>}
         /\ Head(t) = "fireCancel" => t = <<"fireCancel">>
         /\ Head(t) \in {"flagLoss", "escalate"} => t \in {<<"flagLoss">>, <<"escalate">>}
         /\ Head(t) # "deadLetter"
  BY DEF Batches, Submits

LEMMA BatchTails ==
  /\ Tail(<<"fireSolvencyCheck">>) = <<>>
  /\ Tail(<<"fireCheckoutForm">>) = <<>>
  /\ Tail(<<"rePollObserveOnly">>) = <<>>
  /\ Tail(<<"releaseReservation">>) = <<>>
  /\ Tail(<<"flagLoss">>) = <<>> /\ Tail(<<"escalate">>) = <<>>
  /\ Tail(<<"handToReconciler">>) = <<>>
  /\ Tail(<<"allocateSeq", "persistInFlight", "submitPay">>) = <<"persistInFlight", "submitPay">>
  /\ Tail(<<"reallocateSeq", "persistInFlight", "submitPay">>) = <<"persistInFlight", "submitPay">>
  /\ Tail(<<"persistInFlight", "submitPay">>) = <<"submitPay">>
  /\ Tail(<<"persistInFlight", "submitReplacementSameSeq">>) = <<"submitReplacementSameSeq">>
  /\ Tail(<<"releaseSeq", "releaseReservation", "fireCancel">>) =
       <<"releaseReservation", "fireCancel">>
  /\ Tail(<<"releaseReservation", "fireCancel">>) = <<"fireCancel">>
  OBVIOUS

\* The table is a function of state and event.
LEMMA TableDeterministic ==
  ASSUME NEW d \in Table, NEW e \in Table, d.from = e.from, d.event = e.event
  PROVE  d = e
  BY DEF Table, Edge

\* Every edge it lists is taken: none is absorbed, and no uncertain event mutates.
LEMMA TableGuarded ==
  ASSUME NEW e \in Table
  PROVE  ~Ignores(e.from, e.event) /\ GuardPasses(e.event, e.effects)
  BY DEF Table, Edge, Ignores, AbsoluteTerminals, GuardPasses, ContainsMutation,
         ObserveOnlyEvents, MutationEffects

\* A run that goes on in state st with the effects todo.
To(r, st, todo) == [r EXCEPT !.st = st, !.todo = todo, !.sub = "none"]

\* So feeding a listed event enters its target state with its effects.
LEMMA EnterEdge ==
  ASSUME NEW r, NEW e \in Table, r.st = e.from
  PROVE  Enter(r, e.event) = To(r, e.to, e.effects)
<1>1. Transition(r.st, e.event) = e
  BY TableDeterministic DEF Transition
<1>2. Accepts(r.st, e.event)
  BY DEF Accepts
<1>3. ~Ignores(r.st, e.event) /\ GuardPasses(e.event, e.effects)
  BY TableGuarded
<1>. QED  BY <1>1, <1>2, <1>3 DEF Enter, To

LEMMA ToTyped ==
  ASSUME NEW r \in RunType, NEW st \in States, NEW todo \in Batches
  PROVE  /\ To(r, st, todo) \in RunType
         /\ To(r, st, todo).by = r.by /\ To(r, st, todo).ctx = r.ctx
         /\ To(r, st, todo).st = st /\ To(r, st, todo).todo = todo
         /\ To(r, st, todo).sub = "none"
  BY DEF To, RunType, Steps

LEMMA EdgeTo ==
  ASSUME NEW r, NEW from, NEW event, NEW to, NEW effects,
         Edge(from, event, to, effects) \in Table, r.st = from
  PROVE  Enter(r, event) = To(r, to, effects)
<1>. DEFINE e == Edge(from, event, to, effects)
<1>1. e.from = from /\ e.event = event /\ e.to = to /\ e.effects = effects
  BY DEF Edge
<1>2. e \in Table
  OBVIOUS
<1>. HIDE DEF e
<1>3. Enter(r, e.event) = To(r, e.to, e.effects)
  BY <1>1, <1>2, EnterEdge
<1>. QED  BY <1>1, <1>3

\* The edges that are taken, by the state they leave.
LEMMA FromReserved ==
  ASSUME NEW r, r.st = "Reserved"
  PROVE  /\ Enter(r, "solvencyOk") = To(r, "SolvencyReserved", <<"fireCheckoutForm">>)
         /\ Enter(r, "solvencyFail") = To(r, "FailedClean", <<>>)
<1>1. Edge("Reserved", "solvencyOk", "SolvencyReserved",
           <<"fireCheckoutForm">>) \in Table
  BY DEF Table
<1>2. Edge("Reserved", "solvencyFail", "FailedClean",
           <<>>) \in Table
  BY DEF Table
<1>. QED  BY <1>1, <1>2, EdgeTo

LEMMA FromSolvencyReserved ==
  ASSUME NEW r, r.st = "SolvencyReserved"
  PROVE  /\ Enter(r, "chargeOk") =
              To(r, "UsdcSubmitted", <<"allocateSeq", "persistInFlight", "submitPay">>)
         /\ Enter(r, "chargeRejected") = To(r, "FailedClean", <<"releaseReservation">>)
         /\ Enter(r, "chargeUnknown") = To(r, "SolvencyReserved", <<"rePollObserveOnly">>)
         /\ Enter(r, "checkoutInitFailed") = To(r, "FailedClean", <<"releaseReservation">>)
<1>1. Edge("SolvencyReserved", "chargeOk", "UsdcSubmitted",
           <<"allocateSeq", "persistInFlight", "submitPay">>) \in Table
  BY DEF Table
<1>2. Edge("SolvencyReserved", "chargeRejected", "FailedClean",
           <<"releaseReservation">>) \in Table
  BY DEF Table
<1>3. Edge("SolvencyReserved", "chargeUnknown", "SolvencyReserved",
           <<"rePollObserveOnly">>) \in Table
  BY DEF Table
<1>4. Edge("SolvencyReserved", "checkoutInitFailed", "FailedClean",
           <<"releaseReservation">>) \in Table
  BY DEF Table
<1>. QED  BY <1>1, <1>2, <1>3, <1>4, EdgeTo

LEMMA FromSubmitted ==
  ASSUME NEW r, r.st = "UsdcSubmitted"
  PROVE  /\ Enter(r, "recoverResubmit") =
              To(r, "UsdcSubmitted", <<"persistInFlight", "submitReplacementSameSeq">>)
         /\ Enter(r, "evidenceSuccess") = To(r, "UsdcConfirmed", <<"handToReconciler">>)
         /\ Enter(r, "evidenceReverted") = To(r, "UsdcReverted", <<"confirmBurnedSeq">>)
         /\ Enter(r, "evidencePending") = To(r, "UsdcPending", <<"rePollObserveOnly">>)
<1>1. Edge("UsdcSubmitted", "recoverResubmit", "UsdcSubmitted",
           <<"persistInFlight", "submitReplacementSameSeq">>) \in Table
  BY DEF Table
<1>2. Edge("UsdcSubmitted", "evidenceSuccess", "UsdcConfirmed",
           <<"handToReconciler">>) \in Table
  BY DEF Table
<1>3. Edge("UsdcSubmitted", "evidenceReverted", "UsdcReverted",
           <<"confirmBurnedSeq">>) \in Table
  BY DEF Table
<1>4. Edge("UsdcSubmitted", "evidencePending", "UsdcPending",
           <<"rePollObserveOnly">>) \in Table
  BY DEF Table
<1>. QED  BY <1>1, <1>2, <1>3, <1>4, EdgeTo

LEMMA FromPending ==
  ASSUME NEW r, r.st = "UsdcPending"
  PROVE  /\ Enter(r, "pollStillPending") = To(r, "UsdcPending", <<"rePollObserveOnly">>)
         /\ Enter(r, "pollDead") = To(r, "UsdcDead", <<>>)
         /\ Enter(r, "evidenceSuccess") = To(r, "UsdcConfirmed", <<"handToReconciler">>)
         /\ Enter(r, "evidenceReverted") = To(r, "UsdcReverted", <<"confirmBurnedSeq">>)
<1>1. Edge("UsdcPending", "pollStillPending", "UsdcPending",
           <<"rePollObserveOnly">>) \in Table
  BY DEF Table
<1>2. Edge("UsdcPending", "pollDead", "UsdcDead",
           <<>>) \in Table
  BY DEF Table
<1>3. Edge("UsdcPending", "evidenceSuccess", "UsdcConfirmed",
           <<"handToReconciler">>) \in Table
  BY DEF Table
<1>4. Edge("UsdcPending", "evidenceReverted", "UsdcReverted",
           <<"confirmBurnedSeq">>) \in Table
  BY DEF Table
<1>. QED  BY <1>1, <1>2, <1>3, <1>4, EdgeTo

LEMMA FromDead ==
  ASSUME NEW r, r.st = "UsdcDead"
  PROVE  /\ Enter(r, "deadRetry") =
              To(r, "UsdcSubmitted", <<"persistInFlight", "submitReplacementSameSeq">>)
         /\ Enter(r, "deadExhausted") =
              To(r, "ChargeReversing", <<"releaseSeq", "releaseReservation", "fireCancel">>)
<1>1. Edge("UsdcDead", "deadRetry", "UsdcSubmitted",
           <<"persistInFlight", "submitReplacementSameSeq">>) \in Table
  BY DEF Table
<1>2. Edge("UsdcDead", "deadExhausted", "ChargeReversing",
           <<"releaseSeq", "releaseReservation", "fireCancel">>) \in Table
  BY DEF Table
<1>. QED  BY <1>1, <1>2, EdgeTo

LEMMA FromReverted ==
  ASSUME NEW r, r.st = "UsdcReverted"
  PROVE  /\ Enter(r, "revertAlreadyProcessed") = To(r, "UsdcConfirmed", <<>>)
         /\ Enter(r, "revertBalanceGuard") = To(r, "ChargeReversing", <<"releaseReservation", "fireCancel">>)
         /\ Enter(r, "revertRetry") =
              To(r, "UsdcSubmitted", <<"reallocateSeq", "persistInFlight", "submitPay">>)
         /\ Enter(r, "revertExhausted") = To(r, "LossReview", <<"flagLoss">>)
<1>1. Edge("UsdcReverted", "revertAlreadyProcessed", "UsdcConfirmed",
           <<>>) \in Table
  BY DEF Table
<1>2. Edge("UsdcReverted", "revertBalanceGuard", "ChargeReversing",
           <<"releaseReservation", "fireCancel">>) \in Table
  BY DEF Table
<1>3. Edge("UsdcReverted", "revertRetry", "UsdcSubmitted",
           <<"reallocateSeq", "persistInFlight", "submitPay">>) \in Table
  BY DEF Table
<1>4. Edge("UsdcReverted", "revertExhausted", "LossReview",
           <<"flagLoss">>) \in Table
  BY DEF Table
<1>. QED  BY <1>1, <1>2, <1>3, <1>4, EdgeTo

LEMMA FromReversing ==
  ASSUME NEW r, r.st = "ChargeReversing"
  PROVE  /\ Enter(r, "reversalConfirmed") = To(r, "ChargeReversed", <<>>)
         /\ Enter(r, "reversalRetry") = To(r, "ChargeReversing", <<"fireCancel">>)
         /\ Enter(r, "reversalExhausted") = To(r, "LossReview", <<"flagLoss">>)
<1>1. Edge("ChargeReversing", "reversalConfirmed", "ChargeReversed",
           <<>>) \in Table
  BY DEF Table
<1>2. Edge("ChargeReversing", "reversalRetry", "ChargeReversing",
           <<"fireCancel">>) \in Table
  BY DEF Table
<1>3. Edge("ChargeReversing", "reversalExhausted", "LossReview",
           <<"flagLoss">>) \in Table
  BY DEF Table
<1>. QED  BY <1>1, <1>2, <1>3, EdgeTo

-----------------------------------------------------------------------------
(* One order's step.                                                       *)

LEMMA NoSeqOutside == NoSeq \notin Seqs
  BY SeqAssumption DEF NoSeq, Seqs

LEMMA SeqsAreInts == \A q \in Seqs \cup {NoSeq} : q \in Int
  BY SeqAssumption DEF NoSeq, Seqs

LEMMA ShapeOf ==
  ASSUME Shape, NEW o \in Orders
  PROVE  /\ run[o] \in RunType /\ reg[o] \in RegType /\ row[o] \in RowType
         /\ evid[o] \in EvidType /\ sale[o] \in SaleType /\ txs[o] \in Seq(TxType)
  BY DEF Shape

\* A step of order o: the parts of every other order are left alone.
Aside(o) ==
  /\ spent'.faults = 0 => spent.faults = 0
  /\ \A p \in Orders \ {o} :
       /\ run'[p] = run[p] /\ reg'[p] = reg[p] /\ row'[p] = row[p] /\ evid'[p] = evid[p]
       /\ sale'[p] = sale[p] /\ txs'[p] = txs[p]
       /\ p \in pool'.processed <=> p \in pool.processed
       /\ p \in flagged' <=> p \in flagged

Kept(o) == Shape' /\ OrderInv(o)' /\ Aside(o)

\* Where a run is that has an effect to do.
LEMMA Position ==
  ASSUME Shape, NEW o \in Orders, OrderInv(o), NEW effect, Doing(o, effect)
  PROVE  LET r == run[o] IN
    /\ On(r) /\ r.todo # <<>> /\ Walk(r) /\ r.sub \in Steps
    /\ effect = "fireSolvencyCheck" =>
         r.todo = <<"fireSolvencyCheck">> /\ r.st = "Reserved" /\ r.sub = "none"
    /\ effect = "fireCheckoutForm" =>
         r.todo = <<"fireCheckoutForm">> /\ r.st = "SolvencyReserved" /\ r.sub = "none"
    /\ effect = "rePollObserveOnly" =>
         /\ r.todo = <<"rePollObserveOnly">> /\ r.sub = "none"
         /\ r.st \in {"SolvencyReserved", "UsdcPending"}
    /\ effect = "allocateSeq" =>
         /\ r.todo = <<"allocateSeq", "persistInFlight", "submitPay">>
         /\ r.st = "UsdcSubmitted" /\ r.sub = "none"
    /\ effect = "reallocateSeq" =>
         /\ r.todo = <<"reallocateSeq", "persistInFlight", "submitPay">>
         /\ r.st = "UsdcSubmitted" /\ r.sub = "none"
    /\ effect = "persistInFlight" =>
         /\ r.todo \in {<<"persistInFlight", "submitPay">>,
                        <<"persistInFlight", "submitReplacementSameSeq">>}
         /\ r.st = "UsdcSubmitted" /\ r.sub = "none"
    /\ effect \in {"submitPay", "submitReplacementSameSeq"} =>
         r.todo \in Submits /\ r.st = "UsdcSubmitted" /\ r.sub \in {"none", "sent", "recorded"}
    /\ effect = "handToReconciler" =>
         /\ r.todo = <<"handToReconciler">> /\ r.st = "UsdcConfirmed"
         /\ r.sub \in {"none", "appended"}
    /\ effect = "confirmBurnedSeq" =>
         /\ r.todo = <<"confirmBurnedSeq">> /\ r.st = "UsdcReverted"
         /\ r.sub \in {"none", "burned"}
    /\ effect = "releaseSeq" =>
         /\ r.todo = <<"releaseSeq", "releaseReservation", "fireCancel">>
         /\ r.st = "ChargeReversing" /\ r.sub = "none"
    /\ effect = "releaseReservation" =>
         /\ r.sub = "none"
         /\ \/ r.todo = <<"releaseReservation">> /\ r.st = "FailedClean"
            \/ r.todo = <<"releaseReservation", "fireCancel">> /\ r.st = "ChargeReversing"
    /\ effect = "fireCancel" =>
         r.todo = <<"fireCancel">> /\ r.st = "ChargeReversing" /\ r.sub = "none"
    /\ effect \in {"flagLoss", "escalate"} =>
         /\ r.sub = "none"
         /\ \/ r.todo = <<"flagLoss">> /\ r.st = "LossReview"
            \/ r.todo = <<"escalate">> /\ r.st = "UsdcSubmitted"
    /\ effect # "deadLetter"
<1>. DEFINE r == run[o]
<1>1. r \in RunType /\ r.todo \in Batches /\ r.todo # <<>> /\ Head(r.todo) = effect /\ r.sub \in Steps
  BY ShapeOf DEF Doing, RunType
<1>2. On(r) /\ Walk(r) /\ WalkInv(r)
  BY DEF Doing, OrderInv, Good, WalkInv, On
<1>. HIDE DEF r
<1>3. r.todo \notin {<<"confirmBurnedSeq">>, <<"handToReconciler">>} \cup Submits => r.sub = "none"
  BY <1>1, <1>2 DEF WalkInv, Steps, Submits
<1>4. /\ r.todo \in Submits => r.sub \in {"none", "sent", "recorded"}
      /\ r.todo = <<"confirmBurnedSeq">> => r.sub \in {"none", "burned"}
      /\ r.todo = <<"handToReconciler">> => r.sub \in {"none", "appended"}
  BY <1>1, <1>2 DEF WalkInv, Steps, Submits
<1>5. effect = "fireSolvencyCheck" =>
      /\ r.todo = <<"fireSolvencyCheck">> /\ r.st = "Reserved" /\ r.sub = "none"
  BY <1>1, <1>2, <1>3, <1>4, BatchHeads DEF Walk, Submits
<1>6. effect = "fireCheckoutForm" =>
      /\ r.todo = <<"fireCheckoutForm">> /\ r.st = "SolvencyReserved" /\ r.sub = "none"
  BY <1>1, <1>2, <1>3, <1>4, BatchHeads DEF Walk, Submits
<1>7. effect = "rePollObserveOnly" =>
      /\ r.todo = <<"rePollObserveOnly">> /\ r.sub = "none"
      /\ r.st \in {"SolvencyReserved", "UsdcPending"}
  BY <1>1, <1>2, <1>3, <1>4, BatchHeads DEF Walk, Submits
<1>8. effect = "allocateSeq" =>
      /\ r.todo = <<"allocateSeq", "persistInFlight", "submitPay">>
      /\ r.st = "UsdcSubmitted" /\ r.sub = "none"
  BY <1>1, <1>2, <1>3, <1>4, BatchHeads DEF Walk, Submits
<1>9. effect = "reallocateSeq" =>
      /\ r.todo = <<"reallocateSeq", "persistInFlight", "submitPay">>
      /\ r.st = "UsdcSubmitted" /\ r.sub = "none"
  BY <1>1, <1>2, <1>3, <1>4, BatchHeads DEF Walk, Submits
<1>10. effect = "persistInFlight" =>
      /\ r.todo \in {<<"persistInFlight", "submitPay">>,
                     <<"persistInFlight", "submitReplacementSameSeq">>}
      /\ r.st = "UsdcSubmitted" /\ r.sub = "none"
  BY <1>1, <1>2, <1>3, <1>4, BatchHeads DEF Walk, Submits
<1>11. effect \in {"submitPay", "submitReplacementSameSeq"} =>
      /\ r.todo \in Submits /\ r.st = "UsdcSubmitted"
      /\ r.sub \in {"none", "sent", "recorded"}
  BY <1>1, <1>2, <1>3, <1>4, BatchHeads DEF Walk, Submits
<1>12. effect = "handToReconciler" =>
      /\ r.todo = <<"handToReconciler">> /\ r.st = "UsdcConfirmed"
      /\ r.sub \in {"none", "appended"}
  BY <1>1, <1>2, <1>3, <1>4, BatchHeads DEF Walk, Submits
<1>13. effect = "confirmBurnedSeq" =>
      /\ r.todo = <<"confirmBurnedSeq">> /\ r.st = "UsdcReverted"
      /\ r.sub \in {"none", "burned"}
  BY <1>1, <1>2, <1>3, <1>4, BatchHeads DEF Walk, Submits
<1>14. effect = "releaseSeq" =>
      /\ r.todo = <<"releaseSeq", "releaseReservation", "fireCancel">>
      /\ r.st = "ChargeReversing" /\ r.sub = "none"
  BY <1>1, <1>2, <1>3, <1>4, BatchHeads DEF Walk, Submits
<1>15. effect = "releaseReservation" =>
      /\ r.sub = "none"
      /\ \/ r.todo = <<"releaseReservation">> /\ r.st = "FailedClean"
         \/ r.todo = <<"releaseReservation", "fireCancel">> /\ r.st = "ChargeReversing"
  BY <1>1, <1>2, <1>3, <1>4, BatchHeads DEF Walk, Submits
<1>16. effect = "fireCancel" =>
      /\ r.todo = <<"fireCancel">> /\ r.st = "ChargeReversing" /\ r.sub = "none"
  BY <1>1, <1>2, <1>3, <1>4, BatchHeads DEF Walk, Submits
<1>17. effect \in {"flagLoss", "escalate"} =>
      /\ r.sub = "none"
      /\ \/ r.todo = <<"flagLoss">> /\ r.st = "LossReview"
         \/ r.todo = <<"escalate">> /\ r.st = "UsdcSubmitted"
  BY <1>1, <1>2, <1>3, <1>4, BatchHeads DEF Walk, Submits
<1>18. effect # "deadLetter"
  BY <1>1, BatchHeads
<1>. QED  BY <1>1, <1>2, <1>5, <1>6, <1>7, <1>8, <1>9, <1>10, <1>11, <1>12, <1>13, <1>14, <1>15, <1>16, <1>17, <1>18 DEF r

LEMMA Updated ==
  ASSUME NEW D, NEW R, NEW f \in [D -> R], NEW x \in D, NEW y \in R, NEW h,
         h = f \/ h = [f EXCEPT ![x] = y]
  PROVE  h \in [D -> R]
  OBVIOUS

\* A step of order o that keeps the chain.
LEMMA Assemble ==
  ASSUME Shape, NEW o \in Orders, NEW r \in RunType, NEW g \in RegType, NEW w \in RowType,
         NEW e \in EvidType, NEW s \in SaleType, NEW T \in Seq(TxType),
         (run' = run /\ r = run[o]) \/ run' = [run EXCEPT ![o] = r],
         (reg' = reg /\ g = reg[o]) \/ reg' = [reg EXCEPT ![o] = g],
         (row' = row /\ w = row[o]) \/ row' = [row EXCEPT ![o] = w],
         (evid' = evid /\ e = evid[o]) \/ evid' = [evid EXCEPT ![o] = e],
         (sale' = sale /\ s = sale[o]) \/ sale' = [sale EXCEPT ![o] = s],
         (txs' = txs /\ T = txs[o]) \/ txs' = [txs EXCEPT ![o] = T],
         flagged' = flagged \/ flagged' = flagged \cup {o},
         pool' = pool, ledger' \in Ledgers, resv' \in [Orders -> {"none", "held", "settled"}],
         spent' \in [faults : Nat, pauses : Nat, traps : Nat, drains : Nat],
         spent'.faults = 0 => spent.faults = 0,
         Good(r, g, w, e, s, T, o \in pool.processed, o \in flagged', spent'.faults = 0)
  PROVE  Kept(o)
<1>1. /\ run'[o] = r /\ reg'[o] = g /\ row'[o] = w /\ evid'[o] = e /\ sale'[o] = s
      /\ txs'[o] = T
  BY DEF Shape
<1>2. Shape'
  <2>1. run' \in [Orders -> RunType]
    BY Updated, Zenon DEF Shape
  <2>2. reg' \in [Orders -> RegType]
    BY Updated, Zenon DEF Shape
  <2>3. row' \in [Orders -> RowType]
    BY Updated, Zenon DEF Shape
  <2>4. evid' \in [Orders -> EvidType]
    BY Updated, Zenon DEF Shape
  <2>5. sale' \in [Orders -> SaleType]
    BY Updated, Zenon DEF Shape
  <2>6. txs' \in [Orders -> Seq(TxType)]
    BY Updated, Zenon DEF Shape
  <2>. QED  BY <2>1, <2>2, <2>3, <2>4, <2>5, <2>6 DEF Shape
<1>3. Aside(o)
  BY DEF Aside, Shape
<1>4. OrderInv(o)'
  BY <1>1 DEF OrderInv
<1>. QED  BY <1>2, <1>3, <1>4 DEF Kept

\* A step that moves the run only.
LEMMA RunMoves ==
  ASSUME Shape, NEW o \in Orders, NEW r \in RunType, Step(o, r),
         UNCHANGED <<reg, row, evid, sale, txs, flagged, pool>>,
         ledger' \in Ledgers, resv' \in [Orders -> {"none", "held", "settled"}],
         spent' \in [faults : Nat, pauses : Nat, traps : Nat, drains : Nat],
         spent'.faults = 0 => spent.faults = 0,
         Good(r, reg[o], row[o], evid[o], sale[o], txs[o], o \in pool.processed,
              o \in flagged, spent'.faults = 0)
  PROVE  Kept(o)
BY ShapeOf, Assemble DEF Step

LEMMA SharedTyped ==
  ASSUME Shape
  PROVE  /\ ledger \in Ledgers /\ resv \in [Orders -> {"none", "held", "settled"}]
         /\ spent \in [faults : Nat, pauses : Nat, traps : Nat, drains : Nat]
  BY DEF Shape

LEMMA FireSolvencyCheckKeeps ==
  ASSUME Shape, NEW o \in Orders, OrderInv(o), FireSolvencyCheck(o)
  PROVE  Kept(o)
<1>1. /\ On(run[o]) /\ run[o].todo = <<"fireSolvencyCheck">> /\ run[o].sub = "none"
      /\ run[o].st = "Reserved"
  BY Position DEF FireSolvencyCheck
<1>2. run[o].ctx = NoCtx /\ reg[o].st = "Reserved"
  BY <1>1 DEF OrderInv, Good, EarlyInv
<1>3. PICK r : /\ \/ r = To(run[o], "SolvencyReserved", <<"fireCheckoutForm">>)
                  \/ r = To(run[o], "FailedClean", <<>>)
               /\ Step(o, r)
  BY <1>1, FromReserved DEF FireSolvencyCheck, Done
<1>4. /\ r \in RunType /\ On(r) /\ r.ctx = run[o].ctx /\ r.sub = "none"
      /\ \/ r.st = "SolvencyReserved" /\ r.todo = <<"fireCheckoutForm">>
         \/ r.st = "FailedClean" /\ r.todo = <<>>
  <2>1. CASE r = To(run[o], "SolvencyReserved", <<"fireCheckoutForm">>)
    <3>1. "SolvencyReserved" \in States /\ <<"fireCheckoutForm">> \in Batches
      BY DEF States, Batches
    <3>. QED  BY <1>1, <2>1, ShapeOf, <3>1, ToTyped DEF On
  <2>2. CASE r = To(run[o], "FailedClean", <<>>)
    <3>1. "FailedClean" \in States /\ <<>> \in Batches
      BY DEF States, Batches
    <3>. QED  BY <1>1, <2>2, ShapeOf, <3>1, ToTyped DEF On
  <2>. QED  BY <1>3, <2>1, <2>2
<1>5. Good(r, reg[o], row[o], evid[o], sale[o], txs[o], o \in pool.processed,
           o \in flagged, spent.faults = 0)
  <2>1. WalkInv(r)
    BY <1>1, <1>2, <1>4 DEF WalkInv, Walk, On, Submits
  <2>2. EarlyInv(r, reg[o], row[o], evid[o], sale[o], txs[o])
    BY <1>1, <1>2, <1>4 DEF OrderInv, Good, EarlyInv, On, NoCtx
  <2>3. FlightInv(r, reg[o], row[o], sale[o])
    BY <1>1, <1>2, <1>4 DEF OrderInv, Good, EarlyInv, FlightInv, On
  <2>4. WitnessInv(r, reg[o], row[o], txs[o])
    BY <1>1, <1>2, <1>4 DEF OrderInv, Good, WitnessInv, On, Submits
  <2>5. PaidInv(r, reg[o], evid[o], txs[o], o \in pool.processed)
    BY <1>1, <1>2, <1>4 DEF OrderInv, Good, PaidInv, On
  <2>6. FlagInv(r, row[o], evid[o], o \in flagged)
    BY <1>1, <1>2, <1>4 DEF OrderInv, Good, FlagInv, On
  <2>7. spent.faults = 0 => CalmInv(r, reg[o], row[o], sale[o], txs[o])
    BY <1>1, <1>2, <1>4 DEF OrderInv, Good, CalmInv, On, Submits, EarlyInv
  <2>. QED  BY <2>1, <2>2, <2>3, <2>4, <2>5, <2>6, <2>7 DEF Good
<1>. QED  BY <1>3, <1>4, <1>5, SharedTyped, RunMoves DEF FireSolvencyCheck, chain

\* The head effect is done and feeds nothing.
LEMMA DoneTyped ==
  ASSUME NEW r \in RunType, Tail(r.todo) \in Batches
  PROVE  /\ Done(r, "none") \in RunType
         /\ Done(r, "none").by = r.by /\ Done(r, "none").ctx = r.ctx
         /\ Done(r, "none").st = r.st /\ Done(r, "none").todo = Tail(r.todo)
         /\ Done(r, "none").sub = "none"
  BY DEF Done, RunType, Steps

LEMMA RePollKeeps ==
  ASSUME Shape, NEW o \in Orders, OrderInv(o), RePollObserveOnly(o)
  PROVE  Kept(o)
<1>1. /\ On(run[o]) /\ run[o].todo = <<"rePollObserveOnly">> /\ run[o].sub = "none"
      /\ run[o].st \in {"SolvencyReserved", "UsdcPending"}
  BY Position DEF RePollObserveOnly
<1>. DEFINE r == Done(run[o], "none")
<1>2. /\ r \in RunType /\ On(r) /\ r.ctx = run[o].ctx /\ r.sub = "none"
      /\ r.st = run[o].st /\ r.todo = <<>>
  BY <1>1, ShapeOf, DoneTyped, BatchTails DEF Batches, On
<1>. HIDE DEF r
<1>3. Good(r, reg[o], row[o], evid[o], sale[o], txs[o], o \in pool.processed,
           o \in flagged, spent.faults = 0)
  <2>1. WalkInv(r)
    BY <1>1, <1>2 DEF WalkInv, Walk, On, Submits
  <2>2. EarlyInv(r, reg[o], row[o], evid[o], sale[o], txs[o])
    BY <1>1, <1>2 DEF OrderInv, Good, EarlyInv, On, Off
  <2>3. FlightInv(r, reg[o], row[o], sale[o])
    BY <1>1, <1>2 DEF OrderInv, Good, EarlyInv, FlightInv, On
  <2>4. WitnessInv(r, reg[o], row[o], txs[o])
    BY <1>1, <1>2 DEF OrderInv, Good, WitnessInv, On, Submits
  <2>5. PaidInv(r, reg[o], evid[o], txs[o], o \in pool.processed)
    BY <1>1, <1>2 DEF OrderInv, Good, PaidInv, On
  <2>6. FlagInv(r, row[o], evid[o], o \in flagged)
    BY <1>1, <1>2 DEF OrderInv, Good, FlagInv, On
  <2>7. spent.faults = 0 => CalmInv(r, reg[o], row[o], sale[o], txs[o])
    BY <1>1, <1>2 DEF OrderInv, Good, CalmInv, On, Submits
  <2>. QED  BY <2>1, <2>2, <2>3, <2>4, <2>5, <2>6, <2>7 DEF Good
<1>4. Step(o, r)
  BY DEF RePollObserveOnly, r
<1>. QED  BY <1>2, <1>3, <1>4, SharedTyped, RunMoves DEF RePollObserveOnly, backend, chain

LEMMA ReleaseReservationKeeps ==
  ASSUME Shape, NEW o \in Orders, OrderInv(o), ReleaseReservation(o)
  PROVE  Kept(o)
<1>1. /\ On(run[o]) /\ run[o].sub = "none"
      /\ \/ run[o].todo = <<"releaseReservation">> /\ run[o].st = "FailedClean"
         \/ run[o].todo = <<"releaseReservation", "fireCancel">> /\ run[o].st = "ChargeReversing"
  BY Position DEF ReleaseReservation
<1>. DEFINE r == Done(run[o], "none")
<1>2. /\ r \in RunType /\ On(r) /\ r.ctx = run[o].ctx /\ r.sub = "none" /\ r.st = run[o].st
      /\ run[o].st = "FailedClean" => r.todo = <<>>
      /\ run[o].st = "ChargeReversing" => r.todo = <<"fireCancel">>
  BY <1>1, ShapeOf, DoneTyped, BatchTails DEF Batches, On
<1>. HIDE DEF r
<1>3. Good(r, reg[o], row[o], evid[o], sale[o], txs[o], o \in pool.processed,
           o \in flagged, spent.faults = 0)
  <2>1. WalkInv(r)
    BY <1>1, <1>2 DEF WalkInv, Walk, On, Submits
  <2>2. EarlyInv(r, reg[o], row[o], evid[o], sale[o], txs[o])
    BY <1>1, <1>2 DEF OrderInv, Good, EarlyInv, On, Off
  <2>3. FlightInv(r, reg[o], row[o], sale[o])
    BY <1>1, <1>2 DEF OrderInv, Good, EarlyInv, FlightInv, On
  <2>4. WitnessInv(r, reg[o], row[o], txs[o])
    BY <1>1, <1>2 DEF OrderInv, Good, WitnessInv, On, Submits
  <2>5. PaidInv(r, reg[o], evid[o], txs[o], o \in pool.processed)
    BY <1>1, <1>2 DEF OrderInv, Good, PaidInv, On
  <2>6. FlagInv(r, row[o], evid[o], o \in flagged)
    BY <1>1, <1>2 DEF OrderInv, Good, FlagInv, On
  <2>7. spent.faults = 0 => CalmInv(r, reg[o], row[o], sale[o], txs[o])
    BY <1>1, <1>2 DEF OrderInv, Good, CalmInv, On, Submits, EarlyInv
  <2>. QED  BY <2>1, <2>2, <2>3, <2>4, <2>5, <2>6, <2>7 DEF Good
<1>4. Step(o, r) /\ resv' \in [Orders -> {"none", "held", "settled"}]
  BY SharedTyped DEF ReleaseReservation, r
<1>. QED  BY <1>2, <1>3, <1>4, SharedTyped, RunMoves DEF ReleaseReservation, chain

LEMMA ReleasedTyped ==
  ASSUME NEW L \in Ledgers, NEW q \in Seqs, NEW o \in Orders
  PROVE  Released(L, q, o) \in Ledgers
  BY DEF Released, Ledgers

LEMMA ReleaseSeqKeeps ==
  ASSUME Shape, NEW o \in Orders, OrderInv(o), ReleaseSeq(o)
  PROVE  Kept(o)
<1>1. /\ On(run[o]) /\ run[o].sub = "none" /\ run[o].st = "ChargeReversing"
      /\ run[o].todo = <<"releaseSeq", "releaseReservation", "fireCancel">>
  BY Position DEF ReleaseSeq
<1>. DEFINE r == Done(run[o], "none")
<1>2. /\ r \in RunType /\ On(r) /\ r.ctx = run[o].ctx /\ r.sub = "none" /\ r.st = run[o].st
      /\ r.todo = <<"releaseReservation", "fireCancel">>
  BY <1>1, ShapeOf, DoneTyped, BatchTails DEF Batches, On
<1>. HIDE DEF r
<1>3. Good(r, reg[o], row[o], evid[o], sale[o], txs[o], o \in pool.processed,
           o \in flagged, spent.faults = 0)
  <2>1. WalkInv(r)
    BY <1>1, <1>2 DEF WalkInv, Walk, On, Submits
  <2>2. EarlyInv(r, reg[o], row[o], evid[o], sale[o], txs[o])
    BY <1>1, <1>2 DEF OrderInv, Good, EarlyInv, On, Off
  <2>3. FlightInv(r, reg[o], row[o], sale[o])
    BY <1>1, <1>2 DEF OrderInv, Good, EarlyInv, FlightInv, On
  <2>4. WitnessInv(r, reg[o], row[o], txs[o])
    BY <1>1, <1>2 DEF OrderInv, Good, WitnessInv, On, Submits
  <2>5. PaidInv(r, reg[o], evid[o], txs[o], o \in pool.processed)
    BY <1>1, <1>2 DEF OrderInv, Good, PaidInv, On
  <2>6. FlagInv(r, row[o], evid[o], o \in flagged)
    BY <1>1, <1>2 DEF OrderInv, Good, FlagInv, On
  <2>7. spent.faults = 0 => CalmInv(r, reg[o], row[o], sale[o], txs[o])
    BY <1>1, <1>2 DEF OrderInv, Good, CalmInv, On, Submits
  <2>. QED  BY <2>1, <2>2, <2>3, <2>4, <2>5, <2>6, <2>7 DEF Good
<1>4. Step(o, r)
  BY DEF ReleaseSeq, r
<1>5. ledger' \in Ledgers
  BY SharedTyped, ReleasedTyped DEF ReleaseSeq, OwnedActive
<1>. QED  BY <1>2, <1>3, <1>4, <1>5, SharedTyped, RunMoves DEF ReleaseSeq, chain

LEMMA MarkSettledKeeps ==
  ASSUME Shape, NEW o \in Orders, OrderInv(o), MarkSettled(o)
  PROVE  Kept(o)
<1>1. /\ On(run[o]) /\ run[o].sub = "appended" /\ run[o].st = "UsdcConfirmed"
      /\ run[o].todo = <<"handToReconciler">>
  BY Position DEF MarkSettled
<1>. DEFINE r == Done(run[o], "none")
<1>2. /\ r \in RunType /\ On(r) /\ r.ctx = run[o].ctx /\ r.sub = "none" /\ r.st = run[o].st
      /\ r.todo = <<>>
  <2>1. Tail(run[o].todo) = <<>>
    BY <1>1, BatchTails
  <2>2. Tail(run[o].todo) \in Batches
    BY <2>1 DEF Batches
  <2>. QED  BY <1>1, <2>1, <2>2, ShapeOf, DoneTyped DEF On
<1>. HIDE DEF r
<1>3. Good(r, reg[o], row[o], evid[o], sale[o], txs[o], o \in pool.processed,
           o \in flagged, spent.faults = 0)
  <2>1. WalkInv(r)
    BY <1>1, <1>2 DEF WalkInv, Walk, On, Submits
  <2>2. EarlyInv(r, reg[o], row[o], evid[o], sale[o], txs[o])
    BY <1>1, <1>2 DEF OrderInv, Good, EarlyInv, On, Off
  <2>3. FlightInv(r, reg[o], row[o], sale[o])
    BY <1>1, <1>2 DEF OrderInv, Good, EarlyInv, FlightInv, On
  <2>4. WitnessInv(r, reg[o], row[o], txs[o])
    BY <1>1, <1>2 DEF OrderInv, Good, WitnessInv, On, Submits
  <2>5. PaidInv(r, reg[o], evid[o], txs[o], o \in pool.processed)
    BY <1>1, <1>2 DEF OrderInv, Good, PaidInv, On
  <2>6. FlagInv(r, row[o], evid[o], o \in flagged)
    BY <1>1, <1>2 DEF OrderInv, Good, FlagInv, On
  <2>7. spent.faults = 0 => CalmInv(r, reg[o], row[o], sale[o], txs[o])
    BY <1>1, <1>2 DEF OrderInv, Good, CalmInv, On, Submits
  <2>. QED  BY <2>1, <2>2, <2>3, <2>4, <2>5, <2>6, <2>7 DEF Good
<1>4. Step(o, r) /\ resv' \in [Orders -> {"none", "held", "settled"}]
  BY SharedTyped DEF MarkSettled, r
<1>. QED  BY <1>2, <1>3, <1>4, SharedTyped, RunMoves DEF MarkSettled, chain

LEMMA BurnedTyped ==
  ASSUME NEW L \in Ledgers, NEW q \in Seqs
  PROVE  Burned(L, q) \in Ledgers
  BY DEF Burned, Ledgers

LEMMA ConfirmBurnedKeeps ==
  ASSUME Shape, NEW o \in Orders, OrderInv(o), ConfirmBurnedSeq(o)
  PROVE  Kept(o)
<1>1. /\ On(run[o]) /\ run[o].sub = "none" /\ run[o].st = "UsdcReverted"
      /\ run[o].todo = <<"confirmBurnedSeq">>
  BY Position DEF ConfirmBurnedSeq
<1>. DEFINE r == [run[o] EXCEPT !.sub = "burned"]
<1>2. /\ r \in RunType /\ On(r) /\ r.ctx = run[o].ctx /\ r.sub = "burned" /\ r.st = run[o].st
      /\ r.todo = run[o].todo
  BY <1>1, ShapeOf DEF RunType, Steps, On
<1>. HIDE DEF r
<1>3. Good(r, reg[o], row[o], evid[o], sale[o], txs[o], o \in pool.processed,
           o \in flagged, spent.faults = 0)
  <2>1. WalkInv(r)
    BY <1>1, <1>2 DEF WalkInv, Walk, On, Submits
  <2>2. EarlyInv(r, reg[o], row[o], evid[o], sale[o], txs[o])
    BY <1>1, <1>2 DEF OrderInv, Good, EarlyInv, On, Off
  <2>3. FlightInv(r, reg[o], row[o], sale[o])
    BY <1>1, <1>2 DEF OrderInv, Good, EarlyInv, FlightInv, On
  <2>4. WitnessInv(r, reg[o], row[o], txs[o])
    BY <1>1, <1>2 DEF OrderInv, Good, WitnessInv, On, Submits
  <2>5. PaidInv(r, reg[o], evid[o], txs[o], o \in pool.processed)
    BY <1>1, <1>2 DEF OrderInv, Good, PaidInv, On
  <2>6. FlagInv(r, row[o], evid[o], o \in flagged)
    BY <1>1, <1>2 DEF OrderInv, Good, FlagInv, On
  <2>7. spent.faults = 0 => CalmInv(r, reg[o], row[o], sale[o], txs[o])
    BY <1>1, <1>2 DEF OrderInv, Good, CalmInv, On, Submits
  <2>. QED  BY <2>1, <2>2, <2>3, <2>4, <2>5, <2>6, <2>7 DEF Good
<1>4. Step(o, r)
  BY DEF ConfirmBurnedSeq, r
<1>5. ledger' \in Ledgers
  BY SharedTyped, BurnedTyped DEF ConfirmBurnedSeq, MayBurn
<1>. QED  BY <1>2, <1>3, <1>4, <1>5, SharedTyped, RunMoves DEF ConfirmBurnedSeq, chain

LEMMA OffTyped == Off \in RunType /\ ~On(Off) /\ Off.sub = "none" /\ ~Off.ctx.tok /\ Off.st = "none"
  <1>1. NoCtx \in Ctxs
    BY DEF NoCtx, Ctxs
  <1>2. <<>> \in Batches
    BY DEF Batches
  <1>. QED  BY <1>1, <1>2 DEF Off, RunType, On, Steps, NoCtx

\* An effect never finds its event unlisted or a field of the ctx missing; the one thing it
\* may miss is the ledger's record of a sequence to burn.
LEMMA FlowSound ==
  ASSUME Shape, NEW o \in Orders, OrderInv(o), BrokenFlow(o)
  PROVE  Doing(o, "confirmBurnedSeq") /\ run[o].sub = "none" /\ ~MayBurn(ledger, run[o].ctx.seq)
<1>1. ~Doing(o, "deadLetter")
  BY Position
<1>2. Doing(o, "fireCancel") => run[o].ctx.pid
  <2>. SUFFICES ASSUME Doing(o, "fireCancel") PROVE run[o].ctx.pid
    OBVIOUS
  <2>1. On(run[o]) /\ run[o].st = "ChargeReversing"
    BY Position
  <2>. QED  BY <2>1, ShapeOf DEF OrderInv, Good, EarlyInv, FlightInv, RowType
<1>3. Doing(o, "handToReconciler") /\ run[o].sub = "none" =>
        run[o].ctx.hash # 0 /\ run[o].ctx.seq # NoSeq
  <2>. SUFFICES ASSUME Doing(o, "handToReconciler"), run[o].sub = "none"
                PROVE  run[o].ctx.hash # 0 /\ run[o].ctx.seq # NoSeq
    OBVIOUS
  <2>1. On(run[o]) /\ run[o].st = "UsdcConfirmed" /\ run[o].todo = <<"handToReconciler">>
    BY Position
  <2>2. row[o].seq \in Seqs
    BY <2>1, ShapeOf DEF OrderInv, Good, EarlyInv, FlightInv, RowType
  <2>. QED  BY <2>1, <2>2, NoSeqOutside DEF OrderInv, Good, WitnessInv
<1>. QED  BY <1>1, <1>2, <1>3 DEF BrokenFlow

LEMMA EffectThrowsKeeps ==
  ASSUME Shape, NEW o \in Orders, OrderInv(o), EffectThrows(o)
  PROVE  Kept(o)
<1>1. /\ On(run[o]) /\ run[o].sub = "none"
      /\ \/ run[o].todo \in Submits /\ run[o].st = "UsdcSubmitted"
         \/ run[o].todo = <<"confirmBurnedSeq">> /\ run[o].st = "UsdcReverted"
         \/ /\ run[o].todo = <<"releaseSeq", "releaseReservation", "fireCancel">>
            /\ run[o].st = "ChargeReversing"
         \/ /\ run[o].todo = <<"reallocateSeq", "persistInFlight", "submitPay">>
            /\ run[o].st = "UsdcSubmitted"
  BY FlowSound, Position DEF EffectThrows, Refused, Submitting
<1>2. Good(Off, reg[o], row[o], evid[o], sale[o], txs[o], o \in pool.processed,
           o \in flagged, spent.faults = 0)
  <2>1. WalkInv(Off)
    BY <1>1, OffTyped DEF WalkInv, Walk, On, Submits
  <2>2. EarlyInv(Off, reg[o], row[o], evid[o], sale[o], txs[o])
    BY <1>1, OffTyped DEF OrderInv, Good, EarlyInv, On, Off
  <2>3. FlightInv(Off, reg[o], row[o], sale[o])
    BY <1>1, OffTyped DEF OrderInv, Good, EarlyInv, FlightInv, On
  <2>4. WitnessInv(Off, reg[o], row[o], txs[o])
    BY <1>1, OffTyped DEF OrderInv, Good, WitnessInv, On, Submits
  <2>5. PaidInv(Off, reg[o], evid[o], txs[o], o \in pool.processed)
    BY <1>1, OffTyped DEF OrderInv, Good, PaidInv, On
  <2>6. FlagInv(Off, row[o], evid[o], o \in flagged)
    BY <1>1, OffTyped DEF OrderInv, Good, FlagInv, On
  <2>7. spent.faults = 0 => CalmInv(Off, reg[o], row[o], sale[o], txs[o])
    <3>. SUFFICES ASSUME spent.faults = 0
                  PROVE  CalmInv(Off, reg[o], row[o], sale[o], txs[o])
      OBVIOUS
    <3>1. CalmInv(run[o], reg[o], row[o], sale[o], txs[o])
      BY DEF OrderInv, Good
    <3>2. run[o].todo \notin {<<"rePollObserveOnly">>, <<>>, <<"handToReconciler">>,
                              <<"escalate">>, <<"fireCancel">>}
      <4>1. CASE run[o].todo \in Submits
        BY <4>1 DEF Submits
      <4>2. CASE run[o].todo = <<"confirmBurnedSeq">>
        BY <4>2
      <4>3. CASE run[o].todo = <<"releaseSeq", "releaseReservation", "fireCancel">>
        BY <4>3
      <4>4. CASE run[o].todo = <<"reallocateSeq", "persistInFlight", "submitPay">>
        BY <4>4
      <4>. QED  BY <1>1, <4>1, <4>2, <4>3, <4>4
    <3>3. sale[o] # "voided"
      BY <1>1, <3>1, <3>2 DEF CalmInv
    <3>4. row[o].hash # 0 => Reverted(txs[o][row[o].hash]) \/ reg[o].ctx.maxT = row[o].hash
      BY <1>1, <3>1, <3>2 DEF CalmInv
    <3>. QED  BY <1>1, <3>1, <3>3, <3>4, OffTyped DEF CalmInv
  <2>. QED  BY <2>1, <2>2, <2>3, <2>4, <2>5, <2>6, <2>7 DEF Good
<1>. QED  BY <1>2, OffTyped, SharedTyped, RunMoves DEF EffectThrows, backend, chain

LEMMA CallThrowsKeeps ==
  ASSUME Shape, NEW o \in Orders, OrderInv(o), CallThrows(o)
  PROVE  Kept(o)
<1>1. spent' \in [faults : Nat, pauses : Nat, traps : Nat, drains : Nat] /\ spent'.faults # 0
  BY SharedTyped DEF CallThrows
<1>2. Good(Off, reg[o], row[o], evid[o], sale[o], txs[o], o \in pool.processed,
           o \in flagged, spent'.faults = 0)
  <2>1. WalkInv(Off)
    BY <1>1, OffTyped DEF WalkInv, Walk, On, Submits
  <2>2. EarlyInv(Off, reg[o], row[o], evid[o], sale[o], txs[o])
    BY <1>1, OffTyped DEF OrderInv, Good, EarlyInv, On, Off
  <2>3. FlightInv(Off, reg[o], row[o], sale[o])
    BY <1>1, OffTyped DEF OrderInv, Good, EarlyInv, FlightInv, On
  <2>4. WitnessInv(Off, reg[o], row[o], txs[o])
    BY <1>1, OffTyped DEF OrderInv, Good, WitnessInv, On, Submits
  <2>5. PaidInv(Off, reg[o], evid[o], txs[o], o \in pool.processed)
    BY <1>1, OffTyped DEF OrderInv, Good, PaidInv, On
  <2>6. FlagInv(Off, row[o], evid[o], o \in flagged)
    BY <1>1, OffTyped DEF OrderInv, Good, FlagInv, On
  <2>7. spent'.faults = 0 => CalmInv(Off, reg[o], row[o], sale[o], txs[o])
    BY <1>1, OffTyped DEF OrderInv, Good, CalmInv, On, Submits
  <2>. QED  BY <2>1, <2>2, <2>3, <2>4, <2>5, <2>6, <2>7 DEF Good
<1>. QED  BY <1>1, <1>2, OffTyped, SharedTyped, RunMoves DEF CallThrows, backend, chain

\* A run whose batch is done.
LEMMA Finished ==
  ASSUME Shape, NEW o \in Orders, OrderInv(o), BatchDone(o)
  PROVE  On(run[o]) /\ run[o].todo = <<>> /\ run[o].sub = "none" /\ Walk(run[o])
<1>1. On(run[o]) /\ run[o].todo = <<>> /\ WalkInv(run[o]) /\ run[o].sub \in Steps
  BY ShapeOf DEF BatchDone, On, OrderInv, Good, RunType
<1>. QED  BY <1>1 DEF WalkInv, Submits, Steps

LEMMA DecideDeadKeeps ==
  ASSUME Shape, NEW o \in Orders, OrderInv(o), DecideDead(o)
  PROVE  Kept(o)
<1>1. On(run[o]) /\ run[o].sub = "none" /\ run[o].st = "UsdcDead" /\ run[o].todo = <<>>
  BY Finished DEF DecideDead
<1>2. PICK r : /\ \/ r = To(run[o], "UsdcSubmitted",
                            <<"persistInFlight", "submitReplacementSameSeq">>)
                  \/ r = To(run[o], "ChargeReversing",
                            <<"releaseSeq", "releaseReservation", "fireCancel">>)
               /\ Step(o, r)
  BY <1>1, FromDead DEF DecideDead
<1>3. /\ r \in RunType /\ On(r) /\ r.ctx = run[o].ctx /\ r.sub = "none"
      /\ \/ /\ r.st = "UsdcSubmitted"
            /\ r.todo = <<"persistInFlight", "submitReplacementSameSeq">>
         \/ /\ r.st = "ChargeReversing"
            /\ r.todo = <<"releaseSeq", "releaseReservation", "fireCancel">>
  <2>1. CASE r = To(run[o], "UsdcSubmitted", <<"persistInFlight", "submitReplacementSameSeq">>)
    <3>1. "UsdcSubmitted" \in States /\ <<"persistInFlight", "submitReplacementSameSeq">> \in Batches
      BY DEF States, Batches
    <3>. QED  BY <1>1, <2>1, ShapeOf, <3>1, ToTyped DEF On
  <2>2. CASE r = To(run[o], "ChargeReversing", <<"releaseSeq", "releaseReservation", "fireCancel">>)
    <3>1. "ChargeReversing" \in States /\ <<"releaseSeq", "releaseReservation", "fireCancel">> \in Batches
      BY DEF States, Batches
    <3>. QED  BY <1>1, <2>2, ShapeOf, <3>1, ToTyped DEF On
  <2>. QED  BY <1>2, <2>1, <2>2
<1>4. Good(r, reg[o], row[o], evid[o], sale[o], txs[o], o \in pool.processed,
           o \in flagged, spent.faults = 0)
  <2>1. WalkInv(r)
    BY <1>1, <1>3 DEF WalkInv, Walk, On, Submits
  <2>2. EarlyInv(r, reg[o], row[o], evid[o], sale[o], txs[o])
    BY <1>1, <1>3 DEF OrderInv, Good, EarlyInv, On, Off
  <2>3. FlightInv(r, reg[o], row[o], sale[o])
    BY <1>1, <1>3 DEF OrderInv, Good, EarlyInv, FlightInv, On
  <2>4. WitnessInv(r, reg[o], row[o], txs[o])
    BY <1>1, <1>3 DEF OrderInv, Good, WitnessInv, On, Submits
  <2>5. PaidInv(r, reg[o], evid[o], txs[o], o \in pool.processed)
    BY <1>1, <1>3 DEF OrderInv, Good, PaidInv, On
  <2>6. FlagInv(r, row[o], evid[o], o \in flagged)
    BY <1>1, <1>3 DEF OrderInv, Good, FlagInv, On
  <2>7. spent.faults = 0 => CalmInv(r, reg[o], row[o], sale[o], txs[o])
    BY <1>1, <1>3, ShapeOf DEF OrderInv, Good, CalmInv, On, Submits
  <2>. QED  BY <2>1, <2>2, <2>3, <2>4, <2>5, <2>6, <2>7 DEF Good
<1>. QED  BY <1>2, <1>3, <1>4, SharedTyped, RunMoves DEF DecideDead, chain

LEMMA ReadRevertCauseKeeps ==
  ASSUME Shape, NEW o \in Orders, OrderInv(o), ReadRevertCause(o)
  PROVE  Kept(o)
<1>1. /\ On(run[o]) /\ run[o].sub = "burned" /\ run[o].st = "UsdcReverted"
      /\ run[o].todo = <<"confirmBurnedSeq">>
  BY Position DEF ReadRevertCause
<1>2. PICK r : /\ \/ /\ r = To(run[o], "UsdcConfirmed", <<>>)
                     /\ RevertCause(ErrorCode(o)) = "AlreadyProcessed"
                  \/ r = To(run[o], "ChargeReversing", <<"releaseReservation", "fireCancel">>)
                  \/ r = To(run[o], "UsdcSubmitted",
                            <<"reallocateSeq", "persistInFlight", "submitPay">>)
                  \/ r = To(run[o], "LossReview", <<"flagLoss">>)
               /\ Step(o, r)
  BY <1>1, FromReverted DEF ReadRevertCause, Done
<1>3. /\ r \in RunType /\ On(r) /\ r.ctx = run[o].ctx /\ r.sub = "none"
      /\ \/ /\ r.st = "UsdcConfirmed" /\ r.todo = <<>>
            /\ RevertCause(ErrorCode(o)) = "AlreadyProcessed"
         \/ r.st = "ChargeReversing" /\ r.todo = <<"releaseReservation", "fireCancel">>
         \/ /\ r.st = "UsdcSubmitted"
            /\ r.todo = <<"reallocateSeq", "persistInFlight", "submitPay">>
         \/ r.st = "LossReview" /\ r.todo = <<"flagLoss">>
  <2>1. CASE /\ r = To(run[o], "UsdcConfirmed", <<>>)
             /\ RevertCause(ErrorCode(o)) = "AlreadyProcessed"
    <3>1. "UsdcConfirmed" \in States /\ <<>> \in Batches
      BY DEF States, Batches
    <3>. QED  BY <1>1, <2>1, ShapeOf, <3>1, ToTyped DEF On
  <2>2. CASE r = To(run[o], "ChargeReversing", <<"releaseReservation", "fireCancel">>)
    <3>1. "ChargeReversing" \in States /\ <<"releaseReservation", "fireCancel">> \in Batches
      BY DEF States, Batches
    <3>. QED  BY <1>1, <2>2, ShapeOf, <3>1, ToTyped DEF On
  <2>3. CASE r = To(run[o], "UsdcSubmitted", <<"reallocateSeq", "persistInFlight", "submitPay">>)
    <3>1. "UsdcSubmitted" \in States /\ <<"reallocateSeq", "persistInFlight", "submitPay">> \in Batches
      BY DEF States, Batches
    <3>. QED  BY <1>1, <2>3, ShapeOf, <3>1, ToTyped DEF On
  <2>4. CASE r = To(run[o], "LossReview", <<"flagLoss">>)
    <3>1. "LossReview" \in States /\ <<"flagLoss">> \in Batches
      BY DEF States, Batches
    <3>. QED  BY <1>1, <2>4, ShapeOf, <3>1, ToTyped DEF On
  <2>. QED  BY <1>2, <2>1, <2>2, <2>3, <2>4
<1>4. r.st = "UsdcConfirmed" => o \in pool.processed
  <2>. SUFFICES ASSUME r.st = "UsdcConfirmed" PROVE o \in pool.processed
    OBVIOUS
  <2>1. RevertCause(ErrorCode(o)) = "AlreadyProcessed"
    BY <1>3
  <2>2. txs[o][Len(txs[o])].res = "AlreadyProcessed"
    BY <2>1 DEF RevertCause, ErrorCode
  <2>3. Len(txs[o]) \in DOMAIN txs[o]
    BY <1>1, ShapeOf DEF OrderInv, Good, WitnessInv
  <2>. QED  BY <2>2, <2>3 DEF OrderInv, Good, PaidInv
<1>5. spent' \in [faults : Nat, pauses : Nat, traps : Nat, drains : Nat]
      /\ (spent'.faults = 0 => spent.faults = 0)
  BY SharedTyped DEF ReadRevertCause
<1>6. Good(r, reg[o], row[o], evid[o], sale[o], txs[o], o \in pool.processed,
           o \in flagged, spent'.faults = 0)
  <2>1. WalkInv(r)
    BY <1>1, <1>3, <1>4 DEF WalkInv, Walk, On, Submits
  <2>2. EarlyInv(r, reg[o], row[o], evid[o], sale[o], txs[o])
    BY <1>1, <1>3, <1>4 DEF OrderInv, Good, EarlyInv, On, Off
  <2>3. FlightInv(r, reg[o], row[o], sale[o])
    BY <1>1, <1>3, <1>4 DEF OrderInv, Good, EarlyInv, FlightInv, On
  <2>4. WitnessInv(r, reg[o], row[o], txs[o])
    BY <1>1, <1>3, <1>4 DEF OrderInv, Good, WitnessInv, On, Submits
  <2>5. PaidInv(r, reg[o], evid[o], txs[o], o \in pool.processed)
    BY <1>1, <1>3, <1>4 DEF OrderInv, Good, PaidInv, On
  <2>6. FlagInv(r, row[o], evid[o], o \in flagged)
    BY <1>1, <1>3, <1>4 DEF OrderInv, Good, FlagInv, On
  <2>7. spent'.faults = 0 => CalmInv(r, reg[o], row[o], sale[o], txs[o])
    <3>. SUFFICES ASSUME spent.faults = 0
                  PROVE  CalmInv(r, reg[o], row[o], sale[o], txs[o])
      BY <1>5
    <3>1. CalmInv(run[o], reg[o], row[o], sale[o], txs[o])
      BY DEF OrderInv, Good
    <3>2. row[o].hash = Len(txs[o]) /\ row[o].hash # 0 /\ Reverted(txs[o][row[o].hash])
      BY <1>1, <3>1 DEF CalmInv, OrderInv, Good, WitnessInv
    <3>3. \A n \in DOMAIN txs[o] : Dead(txs[o][n])
      <4>1. \A n \in DOMAIN txs[o] : n \in 1 .. (Len(txs[o]) - 1) \/ n = Len(txs[o])
        BY ShapeOf
      <4>. QED  BY <3>1, <3>2, <4>1 DEF CalmInv, Dead
    <3>4. sale[o] # "voided"
      BY <1>1, <3>1 DEF CalmInv
    <3>. QED  BY <1>3, <3>1, <3>2, <3>3, <3>4 DEF CalmInv, Submits, On
  <2>. QED  BY <2>1, <2>2, <2>3, <2>4, <2>5, <2>6, <2>7 DEF Good
<1>. QED  BY <1>2, <1>3, <1>5, <1>6, SharedTyped, RunMoves DEF ReadRevertCause, chain

LEMMA GrantedTyped ==
  ASSUME NEW L \in Ledgers, NEW o \in Orders, CanTake(L)
  PROVE  Granted(L, o) \in Ledgers /\ Granted(L, o).byOrder[o] \in Seqs
<1>1. TakeSeq(L) \in Seqs /\ (L.free = {} => TakeSeq(L) = L.next)
  BY DEF CanTake, TakeSeq
<1>2. (IF L.free # {} THEN L.next ELSE L.next + 1) \in (BaseSeq + 1) .. (MaxSeq + 1)
  BY <1>1, SeqAssumption DEF Ledgers, Seqs
<1>. QED  BY <1>1, <1>2 DEF Granted, Ledgers

\* What both ways to get a sequence have in common: a run with the sequence in its ctx.
LEMMA SequenceGiven ==
  ASSUME Shape, NEW o \in Orders, OrderInv(o), NEW q \in Seqs,
         On(run[o]), run[o].sub = "none", run[o].st = "UsdcSubmitted",
         run[o].todo \in {<<"allocateSeq", "persistInFlight", "submitPay">>,
                          <<"reallocateSeq", "persistInFlight", "submitPay">>},
         Step(o, [Done(run[o], "none") EXCEPT !.ctx.seq = q]),
         UNCHANGED <<reg, row, resv, evid, sale, txs, flagged, pool, spent>>,
         ledger' \in Ledgers
  PROVE  Kept(o)
<1>. DEFINE d == Done(run[o], "none")
            r == [d EXCEPT !.ctx.seq = q]
<1>1. /\ d \in RunType /\ d.by = run[o].by /\ d.ctx = run[o].ctx /\ d.sub = "none"
      /\ d.st = run[o].st /\ d.todo = <<"persistInFlight", "submitPay">>
  BY ShapeOf, DoneTyped, BatchTails DEF Batches
<1>. HIDE DEF d
<1>2. /\ r \in RunType /\ On(r) /\ r.sub = "none" /\ r.st = "UsdcSubmitted"
      /\ r.todo = <<"persistInFlight", "submitPay">> /\ r.ctx.seq = q
      /\ r.ctx.hash = run[o].ctx.hash /\ r.ctx.maxT = run[o].ctx.maxT
      /\ r.ctx.pid = run[o].ctx.pid /\ r.ctx.tok = run[o].ctx.tok
  BY <1>1 DEF RunType, Ctxs, On
<1>3. Step(o, r)
  BY DEF d
<1>. HIDE DEF r
<1>4. row[o].hash # 0 => Reverted(txs[o][row[o].hash])
  BY DEF OrderInv, Good, EarlyInv, FlightInv, WitnessInv
<1>5. Good(r, reg[o], row[o], evid[o], sale[o], txs[o], o \in pool.processed,
           o \in flagged, spent.faults = 0)
  <2>1. WalkInv(r)
    BY <1>2 DEF WalkInv, Walk, On, Submits
  <2>2. EarlyInv(r, reg[o], row[o], evid[o], sale[o], txs[o])
    BY <1>2 DEF OrderInv, Good, EarlyInv, On, Off
  <2>3. FlightInv(r, reg[o], row[o], sale[o])
    BY <1>2 DEF OrderInv, Good, EarlyInv, FlightInv, On
  <2>4. WitnessInv(r, reg[o], row[o], txs[o])
    BY <1>2, <1>4 DEF OrderInv, Good, WitnessInv, On, Submits
  <2>5. PaidInv(r, reg[o], evid[o], txs[o], o \in pool.processed)
    BY <1>2 DEF OrderInv, Good, PaidInv, On
  <2>6. FlagInv(r, row[o], evid[o], o \in flagged)
    BY <1>2 DEF OrderInv, Good, FlagInv, On
  <2>7. spent.faults = 0 => CalmInv(r, reg[o], row[o], sale[o], txs[o])
    BY <1>2, <1>4 DEF OrderInv, Good, CalmInv, On, Submits
  <2>. QED  BY <2>1, <2>2, <2>3, <2>4, <2>5, <2>6, <2>7 DEF Good
<1>. QED  BY <1>2, <1>3, <1>5, SharedTyped, RunMoves

LEMMA AllocateSeqKeeps ==
  ASSUME Shape, NEW o \in Orders, OrderInv(o), AllocateSeq(o)
  PROVE  Kept(o)
<1>1. /\ On(run[o]) /\ run[o].sub = "none" /\ run[o].st = "UsdcSubmitted"
      /\ run[o].todo = <<"allocateSeq", "persistInFlight", "submitPay">>
  BY Position DEF AllocateSeq
<1>2. Allocated(ledger, o) \in Ledgers /\ Allocated(ledger, o).byOrder[o] \in Seqs
  BY SharedTyped, GrantedTyped DEF AllocateSeq, MayAllocate, Allocated, Ledgers
<1>. QED  BY <1>1, <1>2, SequenceGiven DEF AllocateSeq, chain

LEMMA ReallocateSeqKeeps ==
  ASSUME Shape, NEW o \in Orders, OrderInv(o), ReallocateSeq(o)
  PROVE  Kept(o)
<1>1. /\ On(run[o]) /\ run[o].sub = "none" /\ run[o].st = "UsdcSubmitted"
      /\ run[o].todo = <<"reallocateSeq", "persistInFlight", "submitPay">>
  BY Position DEF ReallocateSeq
<1>2. Reallocated(ledger, o) \in Ledgers /\ Reallocated(ledger, o).byOrder[o] \in Seqs
  BY SharedTyped, GrantedTyped DEF ReallocateSeq, MayReallocate, Reallocated
<1>. QED  BY <1>1, <1>2, SequenceGiven DEF ReallocateSeq, chain

\* What an observation of an own transaction establishes.
LEMMA VerdictSound ==
  ASSUME Shape, NEW o \in Orders, NEW h \in DOMAIN txs[o], NEW q \in Int, NEW m
  PROVE  LET v == Verdict(o, h, q, m) IN
         /\ v \in {"LANDED_SUCCESS", "LANDED_REVERTED", "STILL_PENDING", "LOSS_REVIEW",
                   "DEAD_REPLACEABLE"}
         /\ v = "LANDED_SUCCESS" => txs[o][h].res = "Ok"
         /\ v = "LANDED_REVERTED" => Reverted(txs[o][h])
         /\ v = "DEAD_REPLACEABLE" => txs[o][h].res = "net" /\ txs[o][m].exp
  BY DEF Verdict, ResolveDeadness, Reverted

LEMMA EventSubmitted ==
  ASSUME NEW v
  PROVE  LET event == CoreEvent(v, "UsdcSubmitted") IN
         /\ event \in {"evidenceSuccess", "evidenceReverted", "evidencePending", "none"}
         /\ event = "evidenceSuccess" => v = "LANDED_SUCCESS"
         /\ event = "evidenceReverted" => v = "LANDED_REVERTED"
  BY DEF CoreEvent

LEMMA EventPending ==
  ASSUME NEW v
  PROVE  LET event == CoreEvent(v, "UsdcPending") IN
         /\ event \in {"evidenceSuccess", "evidenceReverted", "pollStillPending", "pollDead",
                       "none"}
         /\ event = "evidenceSuccess" => v = "LANDED_SUCCESS"
         /\ event = "evidenceReverted" => v = "LANDED_REVERTED"
         /\ event = "pollDead" => v = "DEAD_REPLACEABLE"
  BY DEF CoreEvent

LEMMA ObserveSubmittedKeeps ==
  ASSUME Shape, NEW o \in Orders, OrderInv(o), ObserveSubmitted(o)
  PROVE  Kept(o)
<1>. DEFINE h == Len(txs[o])
            d == [run[o] EXCEPT !.ctx.hash = h, !.ctx.maxT = h]
            event == CoreEvent(Verdict(o, h, d.ctx.seq, h), d.st)
<1>1. /\ On(run[o]) /\ run[o].sub = "recorded" /\ run[o].st = "UsdcSubmitted"
      /\ run[o].todo \in Submits
  BY Position DEF ObserveSubmitted, Submitting
<1>2. h \in DOMAIN txs[o] /\ h \in Nat /\ h # 0
  BY <1>1, ShapeOf DEF OrderInv, Good, WitnessInv
<1>3. /\ d \in RunType /\ On(d) /\ d.st = "UsdcSubmitted" /\ d.ctx.hash = h /\ d.ctx.maxT = h
      /\ d.ctx.seq = run[o].ctx.seq /\ d.ctx.pid = run[o].ctx.pid
      /\ d.ctx.tok = run[o].ctx.tok
  BY <1>1, <1>2, ShapeOf DEF RunType, Ctxs, On
<1>4. /\ event \in {"evidenceSuccess", "evidenceReverted", "evidencePending", "none"}
      /\ event = "evidenceSuccess" => txs[o][h].res = "Ok"
      /\ event = "evidenceReverted" => Reverted(txs[o][h])
  <2>1. d.ctx.seq \in Int
    BY <1>3, ShapeOf, SeqsAreInts DEF RunType, Ctxs
  <2>. QED  BY <1>2, <1>3, <2>1, VerdictSound, EventSubmitted
<1>5. Step(o, IF event = "none" THEN [d EXCEPT !.todo = <<"escalate">>, !.sub = "none"]
                                ELSE Done(d, event))
  BY DEF ObserveSubmitted
<1>. HIDE DEF d, event
<1>6. PICK r : /\ \/ /\ r = To(d, "UsdcConfirmed", <<"handToReconciler">>)
                     /\ txs[o][h].res = "Ok"
                  \/ /\ r = To(d, "UsdcReverted", <<"confirmBurnedSeq">>)
                     /\ Reverted(txs[o][h])
                  \/ r = To(d, "UsdcPending", <<"rePollObserveOnly">>)
                  \/ r = To(d, "UsdcSubmitted", <<"escalate">>)
               /\ Step(o, r)
  <2>1. CASE event = "none"
    <3>1. [d EXCEPT !.todo = <<"escalate">>, !.sub = "none"] = To(d, "UsdcSubmitted", <<"escalate">>)
      BY <1>3 DEF To, RunType
    <3>. QED  BY <1>5, <2>1, <3>1
  <2>2. CASE event # "none"
    BY <1>3, <1>4, <1>5, <2>2, FromSubmitted DEF Done
  <2>. QED  BY <2>1, <2>2
<1>7. /\ r \in RunType /\ On(r) /\ r.ctx = d.ctx /\ r.sub = "none"
      /\ \/ r.st = "UsdcConfirmed" /\ r.todo = <<"handToReconciler">> /\ txs[o][h].res = "Ok"
         \/ r.st = "UsdcReverted" /\ r.todo = <<"confirmBurnedSeq">> /\ Reverted(txs[o][h])
         \/ r.st = "UsdcPending" /\ r.todo = <<"rePollObserveOnly">>
         \/ r.st = "UsdcSubmitted" /\ r.todo = <<"escalate">>
  <2>1. CASE r = To(d, "UsdcConfirmed", <<"handToReconciler">>) /\ txs[o][h].res = "Ok"
    <3>1. "UsdcConfirmed" \in States /\ <<"handToReconciler">> \in Batches
      BY DEF States, Batches
    <3>. QED  BY <1>3, <2>1, <3>1, ToTyped DEF On
  <2>2. CASE r = To(d, "UsdcReverted", <<"confirmBurnedSeq">>) /\ Reverted(txs[o][h])
    <3>1. "UsdcReverted" \in States /\ <<"confirmBurnedSeq">> \in Batches
      BY DEF States, Batches
    <3>. QED  BY <1>3, <2>2, <3>1, ToTyped DEF On
  <2>3. CASE r = To(d, "UsdcPending", <<"rePollObserveOnly">>)
    <3>1. "UsdcPending" \in States /\ <<"rePollObserveOnly">> \in Batches
      BY DEF States, Batches
    <3>. QED  BY <1>3, <2>3, <3>1, ToTyped DEF On
  <2>4. CASE r = To(d, "UsdcSubmitted", <<"escalate">>)
    <3>1. "UsdcSubmitted" \in States /\ <<"escalate">> \in Batches
      BY DEF States, Batches
    <3>. QED  BY <1>3, <2>4, <3>1, ToTyped DEF On
  <2>. QED  BY <1>6, <2>1, <2>2, <2>3, <2>4
<1>8. row[o].hash = h /\ row[o].st = "UsdcSubmitted" /\ row[o].seq = run[o].ctx.seq
  BY <1>1 DEF OrderInv, Good, WitnessInv, EarlyInv, Submits
<1>9. Good(r, reg[o], row[o], evid[o], sale[o], txs[o], o \in pool.processed,
           o \in flagged, spent.faults = 0)
  <2>1. WalkInv(r)
    BY <1>1, <1>2, <1>3, <1>7, <1>8 DEF WalkInv, Walk, On, Submits
  <2>2. EarlyInv(r, reg[o], row[o], evid[o], sale[o], txs[o])
    BY <1>1, <1>2, <1>3, <1>7, <1>8 DEF OrderInv, Good, EarlyInv, On, Off, Submits
  <2>3. FlightInv(r, reg[o], row[o], sale[o])
    BY <1>1, <1>2, <1>3, <1>7, <1>8 DEF OrderInv, Good, EarlyInv, FlightInv, On, Submits
  <2>4. WitnessInv(r, reg[o], row[o], txs[o])
    BY <1>1, <1>2, <1>3, <1>7, <1>8 DEF OrderInv, Good, WitnessInv, On, Submits
  <2>5. PaidInv(r, reg[o], evid[o], txs[o], o \in pool.processed)
    BY <1>1, <1>2, <1>3, <1>7, <1>8 DEF OrderInv, Good, PaidInv, On
  <2>6. FlagInv(r, row[o], evid[o], o \in flagged)
    BY <1>1, <1>2, <1>3, <1>7, <1>8 DEF OrderInv, Good, FlagInv, On, Submits
  <2>7. spent.faults = 0 => CalmInv(r, reg[o], row[o], sale[o], txs[o])
    BY <1>1, <1>2, <1>3, <1>7, <1>8 DEF OrderInv, Good, CalmInv, On, Submits
  <2>. QED  BY <2>1, <2>2, <2>3, <2>4, <2>5, <2>6, <2>7 DEF Good
<1>. QED  BY <1>6, <1>7, <1>9, SharedTyped, RunMoves DEF ObserveSubmitted, backend, chain

LEMMA PersistInFlightKeeps ==
  ASSUME Shape, NEW o \in Orders, OrderInv(o), PersistInFlight(o)
  PROVE  Kept(o)
<1>1. /\ On(run[o]) /\ run[o].sub = "none" /\ run[o].st = "UsdcSubmitted"
      /\ run[o].todo \in {<<"persistInFlight", "submitPay">>,
                          <<"persistInFlight", "submitReplacementSameSeq">>}
  BY Position DEF PersistInFlight
<1>. DEFINE r == Done(run[o], "none")
            w == Patched(o, run[o].st, run[o].ctx)
<1>2. /\ r \in RunType /\ On(r) /\ r.ctx = run[o].ctx /\ r.sub = "none"
      /\ r.st = "UsdcSubmitted" /\ r.todo \in Submits
      /\ run[o].todo = <<"persistInFlight", "submitPay">> => r.todo = <<"submitPay">>
  BY <1>1, ShapeOf, DoneTyped, BatchTails DEF Batches, On, Submits
<1>3. run[o].ctx.hash = row[o].hash /\ run[o].ctx.seq \in Seqs /\ run[o].ctx.pid
  <2>1. CASE row[o].st = "UsdcSubmitted"
    BY <1>1, <2>1 DEF OrderInv, Good, WitnessInv, FlightInv
  <2>2. CASE row[o].st # "UsdcSubmitted"
    BY <1>1, <2>2 DEF OrderInv, Good, WitnessInv, EarlyInv
  <2>. QED  BY <2>1, <2>2
<1>4. /\ w \in RowType /\ w.st = "UsdcSubmitted" /\ w.seq = run[o].ctx.seq
      /\ w.hash = row[o].hash /\ w.pid
  BY <1>1, <1>3, ShapeOf, NoSeqOutside DEF Patched, RowType, RunType, Ctxs
<1>. HIDE DEF r, w
<1>5. Charged(sale[o]) /\ reg[o].st \notin {"none", "Reserved", "FailedClean"}
  <2>1. CASE row[o].st = "UsdcSubmitted"
    BY <1>1, <2>1 DEF OrderInv, Good, FlightInv
  <2>2. CASE row[o].st # "UsdcSubmitted"
    BY <1>1, <2>2 DEF OrderInv, Good, EarlyInv, Charged
  <2>. QED  BY <2>1, <2>2
<1>6. Good(r, reg[o], w, evid[o], sale[o], txs[o], o \in pool.processed,
           o \in flagged, spent.faults = 0)
  <2>1. WalkInv(r)
    BY <1>1, <1>2, <1>3, <1>4, <1>5 DEF WalkInv, Walk, On, Submits
  <2>2. EarlyInv(r, reg[o], w, evid[o], sale[o], txs[o])
    BY <1>1, <1>2, <1>3, <1>4, <1>5 DEF OrderInv, Good, EarlyInv, On, Off, Submits
  <2>3. FlightInv(r, reg[o], w, sale[o])
    BY <1>1, <1>2, <1>3, <1>4, <1>5 DEF OrderInv, Good, EarlyInv, FlightInv, On, Submits
  <2>4. WitnessInv(r, reg[o], w, txs[o])
    BY <1>1, <1>2, <1>3, <1>4, <1>5, NoSeqOutside DEF OrderInv, Good, WitnessInv, On, Submits
  <2>5. PaidInv(r, reg[o], evid[o], txs[o], o \in pool.processed)
    BY <1>1, <1>2, <1>3, <1>4, <1>5 DEF OrderInv, Good, PaidInv, On
  <2>6. FlagInv(r, w, evid[o], o \in flagged)
    BY <1>1, <1>2, <1>3, <1>4, <1>5 DEF OrderInv, Good, FlagInv, On, Submits
  <2>7. spent.faults = 0 => CalmInv(r, reg[o], w, sale[o], txs[o])
    BY <1>1, <1>2, <1>3, <1>4, <1>5 DEF OrderInv, Good, CalmInv, On, Submits, Dead, WitnessInv
  <2>. QED  BY <2>1, <2>2, <2>3, <2>4, <2>5, <2>6, <2>7 DEF Good
<1>7. Step(o, r) /\ row' = [row EXCEPT ![o] = w]
  BY DEF PersistInFlight, r, w
<1>8. UNCHANGED <<reg, evid, sale, txs, flagged, pool, ledger, resv, spent>>
  BY DEF PersistInFlight, chain
<1>9. Good(r, reg[o], w, evid[o], sale[o], txs[o], o \in pool.processed,
           o \in flagged', spent'.faults = 0)
  BY <1>6, <1>8
<1>. QED  BY <1>2, <1>4, <1>7, <1>8, <1>9, ShapeOf, SharedTyped, Assemble DEF Step

LEMMA SubmitPayKeeps ==
  ASSUME Shape, NEW o \in Orders, OrderInv(o), SubmitPay(o)
  PROVE  Kept(o)
<1>1. /\ On(run[o]) /\ run[o].sub = "none" /\ run[o].st = "UsdcSubmitted"
      /\ run[o].todo \in Submits
  BY Position DEF SubmitPay, Submitting
<1>. DEFINE r == [run[o] EXCEPT !.sub = "sent"]
            tx == [seq |-> run[o].ctx.seq, res |-> "net", exp |-> FALSE]
            T == Append(txs[o], tx)
<1>2. /\ r \in RunType /\ On(r) /\ r.ctx = run[o].ctx /\ r.sub = "sent"
      /\ r.st = "UsdcSubmitted" /\ r.todo = run[o].todo
  BY <1>1, ShapeOf DEF RunType, Steps, On
<1>3. row[o].st = "UsdcSubmitted" /\ row[o].seq \in Seqs /\ run[o].ctx.seq = row[o].seq
  BY <1>1 DEF OrderInv, Good, EarlyInv, FlightInv, WitnessInv, Submits
<1>4. tx \in TxType /\ tx.res = "net" /\ tx.seq = row[o].seq /\ ~Reverted(tx)
  BY <1>3 DEF TxType, Reverted
<1>5. Step(o, r) /\ txs' = [txs EXCEPT ![o] = T]
  BY DEF SubmitPay
<1>. HIDE DEF r, tx
<1>6. /\ T \in Seq(TxType) /\ Len(T) = Len(txs[o]) + 1 /\ Len(txs[o]) \in Nat
      /\ DOMAIN T = DOMAIN txs[o] \cup {Len(T)} /\ T[Len(T)] = tx /\ DOMAIN txs[o] = 1 .. Len(txs[o])
      /\ \A n \in DOMAIN txs[o] : T[n] = txs[o][n]
  BY <1>4, ShapeOf
<1>. HIDE DEF T
<1>7. Good(r, reg[o], row[o], evid[o], sale[o], T, o \in pool.processed,
           o \in flagged, spent.faults = 0)
  <2>1. WalkInv(r)
    BY <1>1, <1>2, <1>3 DEF WalkInv, Walk, On, Submits
  <2>2. EarlyInv(r, reg[o], row[o], evid[o], sale[o], T)
    BY <1>1, <1>2, <1>3, <1>6 DEF OrderInv, Good, EarlyInv, On, Off, Submits
  <2>3. FlightInv(r, reg[o], row[o], sale[o])
    BY <1>1, <1>2, <1>3 DEF OrderInv, Good, EarlyInv, FlightInv, On, Submits
  <2>4. WitnessInv(r, reg[o], row[o], T)
    <3>1. WitnessInv(run[o], reg[o], row[o], txs[o])
      BY DEF OrderInv, Good
    <3>2. row[o].hash \in 0 .. Len(T) /\ (row[o].hash # 0 => T[row[o].hash] = txs[o][row[o].hash])
      BY <1>6, <3>1 DEF WitnessInv
    <3>3. T # <<>>
      <4>1. Len(T) # 0
        BY <1>6
      <4>. QED  BY <4>1
    <3>4. T[Len(T)].seq = r.ctx.seq
      BY <1>2, <1>3, <1>4, <1>6
    <3>. QED  BY <1>1, <1>2, <1>3, <3>1, <3>2, <3>3, <3>4 DEF WitnessInv, On, Submits
  <2>5. PaidInv(r, reg[o], evid[o], T, o \in pool.processed)
    BY <1>1, <1>2, <1>3, <1>4, <1>6 DEF OrderInv, Good, PaidInv, On
  <2>6. FlagInv(r, row[o], evid[o], o \in flagged)
    BY <1>1, <1>2, <1>3 DEF OrderInv, Good, FlagInv, On, Submits
  <2>7. spent.faults = 0 => CalmInv(r, reg[o], row[o], sale[o], T)
    BY <1>1, <1>2, <1>3, <1>6 DEF OrderInv, Good, CalmInv, On, Submits
  <2>. QED  BY <2>1, <2>2, <2>3, <2>4, <2>5, <2>6, <2>7 DEF Good
<1>8. UNCHANGED <<reg, row, evid, sale, flagged, pool, ledger, resv, spent>>
  BY DEF SubmitPay, backend
<1>9. Good(r, reg[o], row[o], evid[o], sale[o], T, o \in pool.processed,
           o \in flagged', spent'.faults = 0)
  BY <1>7, <1>8
<1>. QED  BY <1>2, <1>5, <1>6, <1>8, <1>9, ShapeOf, SharedTyped, Assemble DEF Step

LEMMA RecordHashKeeps ==
  ASSUME Shape, NEW o \in Orders, OrderInv(o), RecordHash(o)
  PROVE  Kept(o)
<1>1. /\ On(run[o]) /\ run[o].sub = "sent" /\ run[o].st = "UsdcSubmitted"
      /\ run[o].todo \in Submits
  BY Position DEF RecordHash, Submitting
<1>. DEFINE r == [run[o] EXCEPT !.sub = "recorded"]
            c == [run[o].ctx EXCEPT !.hash = Len(txs[o])]
            w == Patched(o, run[o].st, c)
<1>2. /\ r \in RunType /\ On(r) /\ r.ctx = run[o].ctx /\ r.sub = "recorded"
      /\ r.st = "UsdcSubmitted" /\ r.todo = run[o].todo
  BY <1>1, ShapeOf DEF RunType, Steps, On
<1>3. /\ row[o].st = "UsdcSubmitted" /\ row[o].seq \in Seqs /\ run[o].ctx.seq = row[o].seq
      /\ row[o].pid /\ Len(txs[o]) \in Nat /\ Len(txs[o]) # 0
      /\ txs[o][Len(txs[o])].seq = row[o].seq
  BY <1>1, ShapeOf DEF OrderInv, Good, EarlyInv, FlightInv, WitnessInv, Submits
<1>4. c.hash = Len(txs[o]) /\ c.seq = row[o].seq /\ c.pid = run[o].ctx.pid /\ c.pid \in BOOLEAN
  BY <1>3, ShapeOf DEF RunType, Ctxs
<1>. HIDE DEF c
<1>5. /\ w \in RowType /\ w.st = "UsdcSubmitted" /\ w.seq = row[o].seq
      /\ w.hash = Len(txs[o]) /\ w.pid
  BY <1>1, <1>3, <1>4, ShapeOf, NoSeqOutside DEF Patched, RowType
<1>6. Step(o, r) /\ row' = [row EXCEPT ![o] = w]
  BY DEF RecordHash, c
<1>. HIDE DEF r, w
<1>7. Good(r, reg[o], w, evid[o], sale[o], txs[o], o \in pool.processed,
           o \in flagged, spent.faults = 0)
  <2>1. WalkInv(r)
    BY <1>1, <1>2, <1>3, <1>5 DEF WalkInv, Walk, On, Submits
  <2>2. EarlyInv(r, reg[o], w, evid[o], sale[o], txs[o])
    BY <1>1, <1>2, <1>3, <1>5 DEF OrderInv, Good, EarlyInv, On, Off, Submits
  <2>3. FlightInv(r, reg[o], w, sale[o])
    BY <1>1, <1>2, <1>3, <1>5 DEF OrderInv, Good, EarlyInv, FlightInv, On, Submits
  <2>4. WitnessInv(r, reg[o], w, txs[o])
    BY <1>1, <1>2, <1>3, <1>5, NoSeqOutside DEF OrderInv, Good, WitnessInv, On, Submits
  <2>5. PaidInv(r, reg[o], evid[o], txs[o], o \in pool.processed)
    BY <1>1, <1>2, <1>3, <1>5 DEF OrderInv, Good, PaidInv, On
  <2>6. FlagInv(r, w, evid[o], o \in flagged)
    BY <1>1, <1>2, <1>3, <1>5 DEF OrderInv, Good, FlagInv, On, Submits
  <2>7. spent.faults = 0 => CalmInv(r, reg[o], w, sale[o], txs[o])
    BY <1>1, <1>2, <1>3, <1>5 DEF OrderInv, Good, CalmInv, On, Submits
  <2>. QED  BY <2>1, <2>2, <2>3, <2>4, <2>5, <2>6, <2>7 DEF Good
<1>8. UNCHANGED <<reg, evid, sale, txs, flagged, pool, ledger, resv, spent>>
  BY DEF RecordHash, chain
<1>9. Good(r, reg[o], w, evid[o], sale[o], txs[o], o \in pool.processed,
           o \in flagged', spent'.faults = 0)
  BY <1>7, <1>8
<1>. QED  BY <1>2, <1>5, <1>6, <1>8, <1>9, ShapeOf, SharedTyped, Assemble DEF Step

LEMMA HandToReconcilerKeeps ==
  ASSUME Shape, NEW o \in Orders, OrderInv(o), HandToReconciler(o)
  PROVE  Kept(o)
<1>1. /\ On(run[o]) /\ run[o].sub = "none" /\ run[o].st = "UsdcConfirmed"
      /\ run[o].todo = <<"handToReconciler">>
  BY Position DEF HandToReconciler
<1>. DEFINE r == [run[o] EXCEPT !.sub = "appended"]
            e == [hash |-> run[o].ctx.hash, seq |-> run[o].ctx.seq]
<1>2. /\ r \in RunType /\ On(r) /\ r.ctx = run[o].ctx /\ r.sub = "appended"
      /\ r.st = "UsdcConfirmed" /\ r.todo = <<"handToReconciler">>
  BY <1>1, ShapeOf DEF RunType, Steps, On
<1>3. row[o].st = "UsdcSubmitted"
  BY <1>1, ShapeOf DEF OrderInv, Good, EarlyInv, RowType
<1>4. /\ e \in EvidType /\ e.hash \in DOMAIN txs[o] /\ txs[o][e.hash].res = "Ok"
      /\ txs[o][e.hash].seq = e.seq
  <2>1. e \in EvidType /\ e.hash = run[o].ctx.hash /\ e.seq = run[o].ctx.seq
    BY ShapeOf DEF RunType, Ctxs, EvidType
  <2>2. /\ row[o].hash = run[o].ctx.hash /\ row[o].seq = run[o].ctx.seq /\ row[o].hash # 0
        /\ row[o].hash \in 0 .. Len(txs[o]) /\ txs[o][row[o].hash].res = "Ok"
        /\ txs[o][row[o].hash].seq = row[o].seq
    BY <1>1 DEF OrderInv, Good, WitnessInv, Reverted
  <2>. QED  BY <2>1, <2>2, ShapeOf
<1>5. Step(o, r) /\ evid' = [evid EXCEPT ![o] = e]
  BY DEF HandToReconciler
<1>. HIDE DEF r, e
<1>7. Good(r, reg[o], row[o], e, sale[o], txs[o], o \in pool.processed,
           o \in flagged, spent.faults = 0)
  <2>1. WalkInv(r)
    BY <1>1, <1>2, <1>3 DEF WalkInv, Walk, On, Submits
  <2>2. EarlyInv(r, reg[o], row[o], e, sale[o], txs[o])
    BY <1>1, <1>2, <1>3 DEF OrderInv, Good, EarlyInv, On, Off, Submits
  <2>3. FlightInv(r, reg[o], row[o], sale[o])
    BY <1>1, <1>2, <1>3 DEF OrderInv, Good, EarlyInv, FlightInv, On, Submits
  <2>4. WitnessInv(r, reg[o], row[o], txs[o])
    BY <1>1, <1>2, <1>3 DEF OrderInv, Good, WitnessInv, On, Submits
  <2>5. PaidInv(r, reg[o], e, txs[o], o \in pool.processed)
    BY <1>1, <1>2, <1>3, <1>4 DEF OrderInv, Good, PaidInv, On
  <2>6. FlagInv(r, row[o], e, o \in flagged)
    BY <1>1, <1>2, <1>3 DEF OrderInv, Good, FlagInv, On, Submits
  <2>7. spent.faults = 0 => CalmInv(r, reg[o], row[o], sale[o], txs[o])
    BY <1>1, <1>2, <1>3 DEF OrderInv, Good, CalmInv, On, Submits
  <2>. QED  BY <2>1, <2>2, <2>3, <2>4, <2>5, <2>6, <2>7 DEF Good
<1>8. UNCHANGED <<reg, row, sale, txs, flagged, pool, ledger, resv, spent>>
  BY DEF HandToReconciler, chain
<1>9. Good(r, reg[o], row[o], e, sale[o], txs[o], o \in pool.processed,
           o \in flagged', spent'.faults = 0)
  BY <1>7, <1>8
<1>. QED  BY <1>2, <1>4, <1>5, <1>8, <1>9, ShapeOf, SharedTyped, Assemble DEF Step

LEMMA FlagLossKeeps ==
  ASSUME Shape, NEW o \in Orders, OrderInv(o), FlagLoss(o)
  PROVE  Kept(o)
<1>1. /\ On(run[o]) /\ run[o].sub = "none"
      /\ \/ run[o].todo = <<"flagLoss">> /\ run[o].st = "LossReview"
         \/ run[o].todo = <<"escalate">> /\ run[o].st = "UsdcSubmitted"
  BY Position DEF FlagLoss
<1>. DEFINE r == Done(run[o], "none")
<1>2. /\ r \in RunType /\ On(r) /\ r.ctx = run[o].ctx /\ r.sub = "none" /\ r.st = run[o].st
      /\ r.todo = <<>>
  BY <1>1, ShapeOf, DoneTyped, BatchTails DEF Batches, On
<1>3. row[o].st = "UsdcSubmitted" /\ evid[o].hash = 0
  BY <1>1, ShapeOf DEF OrderInv, Good, EarlyInv, PaidInv, RowType
<1>4. Step(o, r) /\ flagged' = flagged \cup {o}
  BY DEF FlagLoss
<1>. HIDE DEF r
<1>7. Good(r, reg[o], row[o], evid[o], sale[o], txs[o], o \in pool.processed,
           TRUE, spent.faults = 0)
  <2>1. WalkInv(r)
    BY <1>1, <1>2, <1>3 DEF WalkInv, Walk, On, Submits
  <2>2. EarlyInv(r, reg[o], row[o], evid[o], sale[o], txs[o])
    BY <1>1, <1>2, <1>3 DEF OrderInv, Good, EarlyInv, On, Off, Submits
  <2>3. FlightInv(r, reg[o], row[o], sale[o])
    BY <1>1, <1>2, <1>3 DEF OrderInv, Good, EarlyInv, FlightInv, On, Submits
  <2>4. WitnessInv(r, reg[o], row[o], txs[o])
    BY <1>1, <1>2, <1>3 DEF OrderInv, Good, WitnessInv, On, Submits
  <2>5. PaidInv(r, reg[o], evid[o], txs[o], o \in pool.processed)
    BY <1>1, <1>2, <1>3 DEF OrderInv, Good, PaidInv, On
  <2>6. FlagInv(r, row[o], evid[o], TRUE)
    BY <1>1, <1>2, <1>3 DEF OrderInv, Good, FlagInv, On, Submits
  <2>7. spent.faults = 0 => CalmInv(r, reg[o], row[o], sale[o], txs[o])
    BY <1>1, <1>2, <1>3 DEF OrderInv, Good, CalmInv, On, Submits
  <2>. QED  BY <2>1, <2>2, <2>3, <2>4, <2>5, <2>6, <2>7 DEF Good
<1>8. UNCHANGED <<reg, row, evid, sale, txs, pool, ledger, resv, spent>>
  BY DEF FlagLoss, chain
<1>9. Good(r, reg[o], row[o], evid[o], sale[o], txs[o], o \in pool.processed,
           o \in flagged', spent'.faults = 0)
  <2>1. o \in flagged' <=> TRUE
    BY <1>4
  <2>. QED  BY <1>7, <1>8, <2>1
<1>. QED  BY <1>2, <1>4, <1>8, <1>9, ShapeOf, SharedTyped, Assemble DEF Step

LEMMA FireCancelKeeps ==
  ASSUME Shape, NEW o \in Orders, OrderInv(o), FireCancel(o)
  PROVE  Kept(o)
<1>1. /\ On(run[o]) /\ run[o].sub = "none" /\ run[o].st = "ChargeReversing"
      /\ run[o].todo = <<"fireCancel">>
  BY Position DEF FireCancel
<1>2. PICK r : /\ \/ r = To(run[o], "ChargeReversed", <<>>)
                  \/ r = To(run[o], "ChargeReversing", <<"fireCancel">>)
                  \/ r = To(run[o], "LossReview", <<"flagLoss">>)
               /\ Step(o, r)
  BY <1>1, FromReversing DEF FireCancel, Done
<1>3. /\ r \in RunType /\ On(r) /\ r.ctx = run[o].ctx /\ r.sub = "none"
      /\ \/ r.st = "ChargeReversed" /\ r.todo = <<>>
         \/ r.st = "ChargeReversing" /\ r.todo = <<"fireCancel">>
         \/ r.st = "LossReview" /\ r.todo = <<"flagLoss">>
  <2>1. CASE r = To(run[o], "ChargeReversed", <<>>)
    <3>1. "ChargeReversed" \in States /\ <<>> \in Batches
      BY DEF States, Batches
    <3>. QED  BY <1>1, <2>1, ShapeOf, <3>1, ToTyped DEF On
  <2>2. CASE r = To(run[o], "ChargeReversing", <<"fireCancel">>)
    <3>1. "ChargeReversing" \in States /\ <<"fireCancel">> \in Batches
      BY DEF States, Batches
    <3>. QED  BY <1>1, <2>2, ShapeOf, <3>1, ToTyped DEF On
  <2>3. CASE r = To(run[o], "LossReview", <<"flagLoss">>)
    <3>1. "LossReview" \in States /\ <<"flagLoss">> \in Batches
      BY DEF States, Batches
    <3>. QED  BY <1>1, <2>3, ShapeOf, <3>1, ToTyped DEF On
  <2>. QED  BY <1>2, <2>1, <2>2, <2>3
<1>4. PICK s \in SaleType : /\ s = sale[o] \/ s = "voided"
                            /\ (sale' = sale /\ s = sale[o]) \/ sale' = [sale EXCEPT ![o] = s]
  <2>1. sale' = sale \/ sale' = [sale EXCEPT ![o] = "voided"]
    BY DEF FireCancel
  <2>2. sale[o] \in SaleType /\ "voided" \in SaleType
    BY ShapeOf DEF SaleType
  <2>. QED  BY <2>1, <2>2
<1>5. row[o].st = "UsdcSubmitted" /\ Charged(s)
  BY <1>1, <1>4, ShapeOf DEF OrderInv, Good, EarlyInv, FlightInv, RowType, Charged
<1>6. Good(r, reg[o], row[o], evid[o], s, txs[o], o \in pool.processed,
           o \in flagged, spent.faults = 0)
  <2>1. WalkInv(r)
    BY <1>1, <1>3, <1>5 DEF WalkInv, Walk, On, Submits
  <2>2. EarlyInv(r, reg[o], row[o], evid[o], s, txs[o])
    BY <1>1, <1>3, <1>5, <1>4 DEF OrderInv, Good, EarlyInv, On, Off, Submits
  <2>3. FlightInv(r, reg[o], row[o], s)
    BY <1>1, <1>3, <1>5 DEF OrderInv, Good, EarlyInv, FlightInv, On, Submits
  <2>4. WitnessInv(r, reg[o], row[o], txs[o])
    BY <1>1, <1>3, <1>5 DEF OrderInv, Good, WitnessInv, On, Submits
  <2>5. PaidInv(r, reg[o], evid[o], txs[o], o \in pool.processed)
    BY <1>1, <1>3, <1>5 DEF OrderInv, Good, PaidInv, On
  <2>6. FlagInv(r, row[o], evid[o], o \in flagged)
    BY <1>1, <1>3, <1>5 DEF OrderInv, Good, FlagInv, On, Submits
  <2>7. spent.faults = 0 => CalmInv(r, reg[o], row[o], s, txs[o])
    BY <1>1, <1>3, <1>5, <1>4 DEF OrderInv, Good, CalmInv, On, Submits
  <2>. QED  BY <2>1, <2>2, <2>3, <2>4, <2>5, <2>6, <2>7 DEF Good
<1>8. UNCHANGED <<reg, row, evid, txs, flagged, pool, ledger, resv, spent>>
  BY DEF FireCancel, chain
<1>9. Good(r, reg[o], row[o], evid[o], s, txs[o], o \in pool.processed,
           o \in flagged', spent'.faults = 0)
  BY <1>6, <1>8
<1>. QED  BY <1>2, <1>3, <1>4, <1>8, <1>9, ShapeOf, SharedTyped, Assemble DEF Step

LEMMA FireCheckoutFormKeeps ==
  ASSUME Shape, NEW o \in Orders, OrderInv(o), FireCheckoutForm(o)
  PROVE  Kept(o)
<1>1. /\ On(run[o]) /\ run[o].sub = "none" /\ run[o].st = "SolvencyReserved"
      /\ run[o].todo = <<"fireCheckoutForm">>
  BY Position DEF FireCheckoutForm
<1>2. /\ run[o].ctx = NoCtx /\ reg[o].st = "Reserved" /\ reg[o].ctx = NoCtx
      /\ sale[o] \in {"none", "form"} /\ row[o].st # "UsdcSubmitted"
  BY <1>1 DEF OrderInv, Good, EarlyInv
<1>3. UNCHANGED <<reg, row, evid, txs, flagged, pool, ledger, resv, spent>>
  BY DEF FireCheckoutForm, backend, chain
<1>4. CASE /\ sale' = [sale EXCEPT ![o] = "form"]
           /\ Step(o, [Done(run[o], "none") EXCEPT !.ctx.tok = TRUE])
  <2>. DEFINE d == Done(run[o], "none")
              r == [d EXCEPT !.ctx.tok = TRUE]
  <2>1. /\ d \in RunType /\ d.by = run[o].by /\ d.ctx = NoCtx /\ d.sub = "none"
        /\ d.st = "SolvencyReserved" /\ d.todo = <<>>
    <3>1. Tail(run[o].todo) = <<>> /\ <<>> \in Batches /\ run[o] \in RunType
      BY <1>1, ShapeOf, BatchTails DEF Batches
    <3>. QED  BY <1>1, <1>2, <3>1, DoneTyped
  <2>. HIDE DEF d
  <2>2. /\ r \in RunType /\ On(r) /\ r.sub = "none" /\ r.st = "SolvencyReserved"
        /\ r.todo = <<>> /\ r.ctx.seq = NoSeq /\ r.ctx.hash = 0 /\ r.ctx.tok
    <3>1. d.ctx.seq = NoSeq /\ d.ctx.hash = 0
      BY <2>1 DEF NoCtx
    <3>2. /\ r \in RunType /\ r.by = d.by /\ r.sub = d.sub /\ r.st = d.st /\ r.todo = d.todo
          /\ r.ctx.seq = d.ctx.seq /\ r.ctx.hash = d.ctx.hash /\ r.ctx.tok = TRUE
      <4>1. d \in RunType
        BY <2>1
      <4>. QED  BY <4>1 DEF RunType, Ctxs
    <3>. QED  BY <1>1, <2>1, <3>1, <3>2 DEF On
  <2>3. Step(o, r)
    BY <1>4 DEF d
  <2>. HIDE DEF r
  <2>4. Good(r, reg[o], row[o], evid[o], "form", txs[o], o \in pool.processed,
           o \in flagged, spent.faults = 0)
    <3>1. WalkInv(r)
      BY <1>1, <1>2, <2>2 DEF WalkInv, Walk, On, Submits
    <3>2. EarlyInv(r, reg[o], row[o], evid[o], "form", txs[o])
      BY <1>1, <1>2, <2>2 DEF OrderInv, Good, EarlyInv, On, Off, Submits
    <3>3. FlightInv(r, reg[o], row[o], "form")
      BY <1>1, <1>2, <2>2 DEF OrderInv, Good, EarlyInv, FlightInv, On, Submits
    <3>4. WitnessInv(r, reg[o], row[o], txs[o])
      BY <1>1, <1>2, <2>2 DEF OrderInv, Good, WitnessInv, On, Submits, EarlyInv
    <3>5. PaidInv(r, reg[o], evid[o], txs[o], o \in pool.processed)
      BY <1>1, <1>2, <2>2 DEF OrderInv, Good, PaidInv, On
    <3>6. FlagInv(r, row[o], evid[o], o \in flagged)
      BY <1>1, <1>2, <2>2 DEF OrderInv, Good, FlagInv, On, Submits
    <3>7. spent.faults = 0 => CalmInv(r, reg[o], row[o], "form", txs[o])
      BY <1>1, <1>2, <2>2 DEF OrderInv, Good, CalmInv, On, Submits, EarlyInv
    <3>. QED  BY <3>1, <3>2, <3>3, <3>4, <3>5, <3>6, <3>7 DEF Good
  <2>5. Good(r, reg[o], row[o], evid[o], "form", txs[o], o \in pool.processed,
             o \in flagged', spent'.faults = 0)
    BY <1>3, <2>4
  <2>6. "form" \in SaleType
    BY DEF SaleType
  <2>. QED  BY <1>3, <1>4, <2>2, <2>3, <2>5, <2>6, ShapeOf, SharedTyped, Assemble DEF Step
<1>5. CASE Step(o, Done(run[o], "checkoutInitFailed")) /\ UNCHANGED sale
  <2>. DEFINE r == To(run[o], "FailedClean", <<"releaseReservation">>)
  <2>1. Step(o, r)
    BY <1>1, <1>5, FromSolvencyReserved DEF Done
  <2>2. /\ r \in RunType /\ On(r) /\ r.sub = "none" /\ r.st = "FailedClean"
        /\ r.todo = <<"releaseReservation">> /\ r.ctx = NoCtx
    <3>1. "FailedClean" \in States /\ <<"releaseReservation">> \in Batches
      BY DEF States, Batches
    <3>. QED  BY <1>1, <1>2, ShapeOf, <3>1, ToTyped DEF On
  <2>. HIDE DEF r
  <2>3. Good(r, reg[o], row[o], evid[o], sale[o], txs[o], o \in pool.processed,
           o \in flagged, spent.faults = 0)
    <3>1. WalkInv(r)
      BY <1>1, <1>2, <2>2 DEF WalkInv, Walk, On, Submits
    <3>2. EarlyInv(r, reg[o], row[o], evid[o], sale[o], txs[o])
      BY <1>1, <1>2, <2>2 DEF OrderInv, Good, EarlyInv, On, Off, Submits, NoCtx
    <3>3. FlightInv(r, reg[o], row[o], sale[o])
      BY <1>1, <1>2, <2>2 DEF OrderInv, Good, EarlyInv, FlightInv, On, Submits
    <3>4. WitnessInv(r, reg[o], row[o], txs[o])
      BY <1>1, <1>2, <2>2 DEF OrderInv, Good, WitnessInv, On, Submits
    <3>5. PaidInv(r, reg[o], evid[o], txs[o], o \in pool.processed)
      BY <1>1, <1>2, <2>2 DEF OrderInv, Good, PaidInv, On
    <3>6. FlagInv(r, row[o], evid[o], o \in flagged)
      BY <1>1, <1>2, <2>2 DEF OrderInv, Good, FlagInv, On, Submits
    <3>7. spent.faults = 0 => CalmInv(r, reg[o], row[o], sale[o], txs[o])
      BY <1>1, <1>2, <2>2 DEF OrderInv, Good, CalmInv, On, Submits, EarlyInv
    <3>. QED  BY <3>1, <3>2, <3>3, <3>4, <3>5, <3>6, <3>7 DEF Good
  <2>. QED  BY <1>3, <1>5, <2>1, <2>2, <2>3, SharedTyped, RunMoves
<1>. QED  BY <1>4, <1>5 DEF FireCheckoutForm

LEMMA QuiesceKeeps ==
  ASSUME Shape, NEW o \in Orders, OrderInv(o), Quiesce(o)
  PROVE  Kept(o)
<1>1. On(run[o]) /\ run[o].todo = <<>> /\ run[o].sub = "none" /\ run[o].st # "UsdcDead"
  BY Finished DEF Quiesce
<1>2. run[o].st \in {"SolvencyReserved", "FailedClean", "UsdcSubmitted", "UsdcPending",
                     "UsdcConfirmed", "ChargeReversed", "LossReview"}
  BY <1>1, Finished DEF Quiesce, Walk
<1>. DEFINE g == [st |-> run[o].st, ctx |-> run[o].ctx]
<1>3. g \in RegType /\ g.st = run[o].st /\ g.ctx = run[o].ctx
  BY ShapeOf DEF RunType, RegType
<1>4. reg' = [reg EXCEPT ![o] = g] /\ Step(o, Off)
  BY DEF Quiesce
<1>. HIDE DEF g
<1>5. run[o].ctx.hash = row[o].hash /\ run[o].ctx.seq = row[o].seq
  BY <1>1 DEF OrderInv, Good, WitnessInv
<1>6. Good(Off, g, row[o], evid[o], sale[o], txs[o], o \in pool.processed,
           o \in flagged, spent.faults = 0)
  <2>1. WalkInv(Off)
    BY <1>1, <1>2, <1>3, <1>5, OffTyped DEF WalkInv, Walk, On, Submits
  <2>2. EarlyInv(Off, g, row[o], evid[o], sale[o], txs[o])
    BY <1>1, <1>2, <1>3, <1>5, OffTyped DEF OrderInv, Good, EarlyInv, On, Off, Submits
  <2>3. FlightInv(Off, g, row[o], sale[o])
    BY <1>1, <1>2, <1>3, <1>5, OffTyped DEF OrderInv, Good, EarlyInv, FlightInv, On, Submits
  <2>4. WitnessInv(Off, g, row[o], txs[o])
    BY <1>1, <1>2, <1>3, <1>5, OffTyped DEF OrderInv, Good, WitnessInv, On, Submits
  <2>5. PaidInv(Off, g, evid[o], txs[o], o \in pool.processed)
    BY <1>1, <1>2, <1>3, <1>5, OffTyped DEF OrderInv, Good, PaidInv, On
  <2>6. FlagInv(Off, row[o], evid[o], o \in flagged)
    BY <1>1, <1>2, <1>3, <1>5, OffTyped DEF OrderInv, Good, FlagInv, On, Submits
  <2>7. spent.faults = 0 => CalmInv(Off, g, row[o], sale[o], txs[o])
    BY <1>1, <1>2, <1>3, <1>5, OffTyped DEF OrderInv, Good, CalmInv, On, Submits
  <2>. QED  BY <2>1, <2>2, <2>3, <2>4, <2>5, <2>6, <2>7 DEF Good
<1>8. UNCHANGED <<row, evid, sale, txs, flagged, pool, ledger, resv, spent>>
  BY DEF Quiesce, chain
<1>9. Good(Off, g, row[o], evid[o], sale[o], txs[o], o \in pool.processed,
           o \in flagged', spent'.faults = 0)
  BY <1>6, <1>8
<1>. QED  BY <1>3, <1>4, <1>8, <1>9, OffTyped, ShapeOf, SharedTyped, Assemble DEF Step

LEMMA IntentKeeps ==
  ASSUME Shape, NEW o \in Orders, OrderInv(o), Intent(o)
  PROVE  Kept(o)
<1>. DEFINE d == NewRun("intent", "Reserved", NoCtx)
            r == [d EXCEPT !.todo = <<"fireSolvencyCheck">>]
            g == [st |-> "Reserved", ctx |-> NoCtx]
            w == [row[o] EXCEPT !.st = "Reserved"]
<1>1. run[o] = Off /\ reg[o].st = "none" /\ row[o].st = "none"
  BY DEF Intent, Unlocked, OrderInv, Good, WalkInv, On
<1>2. NoCtx \in Ctxs /\ ~NoCtx.tok /\ NoCtx.hash = 0 /\ NoCtx.seq = NoSeq
  BY DEF NoCtx, Ctxs
<1>3. /\ r \in RunType /\ On(r) /\ r.sub = "none" /\ r.st = "Reserved" /\ r.ctx = NoCtx
      /\ r.todo = <<"fireSolvencyCheck">>
  <2>1. <<"fireSolvencyCheck">> \in Batches
    BY DEF Batches
  <2>. QED  BY <1>2, <2>1 DEF RunType, NewRun, States, Steps, On
<1>4. g \in RegType /\ g.st = "Reserved" /\ g.ctx = NoCtx
  BY <1>2 DEF RegType, States
<1>5. /\ w \in RowType /\ w.st = "Reserved" /\ w.hash = row[o].hash /\ w.seq = row[o].seq
  BY ShapeOf DEF RowType
<1>6. Step(o, r) /\ reg' = [reg EXCEPT ![o] = g] /\ row' = [row EXCEPT ![o] = w]
  <2>1. row' = [row EXCEPT ![o].st = "Reserved"]
    BY DEF Intent
  <2>. QED  BY <2>1 DEF Intent
<1>. HIDE DEF r, g, w
<1>7. Good(r, g, w, evid[o], sale[o], txs[o], o \in pool.processed,
           o \in flagged, spent.faults = 0)
  <2>1. WalkInv(r)
    BY <1>1, <1>2, <1>3, <1>4, <1>5 DEF WalkInv, Walk, On, Submits
  <2>2. EarlyInv(r, g, w, evid[o], sale[o], txs[o])
    BY <1>1, <1>2, <1>3, <1>4, <1>5 DEF OrderInv, Good, EarlyInv, On, Off, Submits
  <2>3. FlightInv(r, g, w, sale[o])
    BY <1>1, <1>2, <1>3, <1>4, <1>5 DEF OrderInv, Good, EarlyInv, FlightInv, On, Submits
  <2>4. WitnessInv(r, g, w, txs[o])
    BY <1>1, <1>2, <1>3, <1>4, <1>5 DEF OrderInv, Good, WitnessInv, On, Submits, EarlyInv
  <2>5. PaidInv(r, g, evid[o], txs[o], o \in pool.processed)
    BY <1>1, <1>2, <1>3, <1>4, <1>5 DEF OrderInv, Good, PaidInv, On, EarlyInv
  <2>6. FlagInv(r, w, evid[o], o \in flagged)
    BY <1>1, <1>2, <1>3, <1>4, <1>5 DEF OrderInv, Good, FlagInv, On, Submits, EarlyInv
  <2>7. spent.faults = 0 => CalmInv(r, g, w, sale[o], txs[o])
    BY <1>1, <1>2, <1>3, <1>4, <1>5, ShapeOf DEF OrderInv, Good, CalmInv, On, Submits, EarlyInv
  <2>. QED  BY <2>1, <2>2, <2>3, <2>4, <2>5, <2>6, <2>7 DEF Good
<1>8. UNCHANGED <<evid, sale, txs, flagged, pool, ledger, resv, spent>>
  BY DEF Intent, chain
<1>9. Good(r, g, w, evid[o], sale[o], txs[o], o \in pool.processed,
           o \in flagged', spent'.faults = 0)
  BY <1>7, <1>8
<1>. QED  BY <1>3, <1>4, <1>5, <1>6, <1>8, <1>9, ShapeOf, SharedTyped, Assemble DEF Step

-----------------------------------------------------------------------------
(* Runs that start from the rows.                                          *)

\* The overlay of the two rows: hash and sequence are the store row's, maxTime is the
\* registry's.
LEMMA EffectiveCtxIs ==
  ASSUME Shape, NEW o \in Orders, OrderInv(o)
  PROVE  LET c == EffectiveCtx(o) IN
         /\ c \in Ctxs /\ c.hash = row[o].hash /\ c.seq = row[o].seq
         /\ c.maxT = reg[o].ctx.maxT /\ c.tok = reg[o].ctx.tok
         /\ c.pid = (row[o].pid \/ reg[o].ctx.pid)
<1>1. /\ reg[o].ctx \in Ctxs /\ row[o].hash \in Nat /\ row[o].pid \in BOOLEAN
      /\ row[o].seq \in Seqs \cup {NoSeq}
  BY ShapeOf DEF RegType, RowType
<1>2. (row[o].hash = 0 => reg[o].ctx.hash = 0) /\ (row[o].seq = NoSeq => reg[o].ctx.seq = NoSeq)
  BY DEF OrderInv, Good, WitnessInv
<1>. QED  BY <1>1, <1>2 DEF EffectiveCtx, Ctxs

\* An order the poll worker treats as in flight.
LEMMA InFlightRows ==
  ASSUME Shape, NEW o \in Orders, OrderInv(o), InFlight(o)
  PROVE  /\ row[o].st = "UsdcSubmitted" /\ evid[o].hash = 0
         /\ reg[o].st \in {"SolvencyReserved", "UsdcSubmitted", "UsdcPending"}
         /\ EffectiveState(o) \in {"UsdcSubmitted", "UsdcPending"}
         /\ row[o].seq \in Seqs /\ row[o].pid /\ Charged(sale[o])
<1>1. EffectiveState(o) \in {"UsdcSubmitted", "UsdcPending"}
  BY DEF InFlight
<1>2. evid[o].hash = 0
  BY <1>1 DEF EffectiveState
<1>3. \/ row[o].st = "UsdcSubmitted" /\ reg[o].st \in {"Reserved", "SolvencyReserved"}
      \/ reg[o].st \in {"UsdcSubmitted", "UsdcPending"}
  BY <1>1, <1>2 DEF EffectiveState
<1>4. row[o].st = "UsdcSubmitted"
  BY <1>3 DEF OrderInv, Good, EarlyInv
<1>. QED  BY <1>1, <1>2, <1>3, <1>4 DEF OrderInv, Good, FlightInv

LEMMA NewRunTyped ==
  ASSUME NEW by \in {"webhook", "poll"}, NEW st \in States, NEW c \in Ctxs
  PROVE  /\ NewRun(by, st, c) \in RunType /\ NewRun(by, st, c).st = st
         /\ NewRun(by, st, c).ctx = c /\ On(NewRun(by, st, c))
<1>1. <<>> \in Batches
  BY DEF Batches
<1>. QED  BY <1>1 DEF NewRun, RunType, Steps, On

\* A charge event is never made up: "ok" is a captured sale with its payment id, "rejected"
\* is the bank's refusal.
LEMMA ChargeReadSound ==
  ASSUME NEW s, NEW read \in ChargeReads(s)
  PROVE  /\ read.event \in {"chargeOk", "chargeRejected", "chargeUnknown"}
         /\ read.event = "chargeOk" => s = "paid" /\ read.pid
         /\ read.event = "chargeRejected" => s = "declined"
         /\ read.pid \in BOOLEAN
<1>1. PICK B : /\ read \in ReadsOf(B) /\ B \subseteq Bodies
               /\ s = "paid" => \A b \in B : IsCaptured(b)
               /\ s = "declined" => \A b \in B : IsDeclined(b)
               /\ s \notin {"paid", "declined"} => \A b \in B : ~IsCaptured(b) /\ ~IsDeclined(b)
  <2>1. CASE s = "paid"
    BY <2>1 DEF ChargeReads, PaidReads
  <2>2. CASE s = "declined"
    BY <2>2 DEF ChargeReads, DeclinedReads
  <2>3. CASE s \notin {"paid", "declined"}
    BY <2>3 DEF ChargeReads, OpenReads
  <2>. QED  BY <2>1, <2>2, <2>3
<1>2. PICK ending \in Endings, b \in B : read = ChargeRead(Post(ending, b))
  BY <1>1 DEF ReadsOf
<1>. DEFINE raw == Post(ending, b)
<1>3. raw.kind = "body" => raw.body = b
  BY <1>2 DEF Post, Endings
<1>. HIDE DEF raw
<1>4. read.pid = ProjectCheckoutFormResult(raw) /\ read.pid \in BOOLEAN
  BY <1>2 DEF ChargeRead, raw, ProjectCheckoutFormResult
<1>5. read.event = IF ProjectCheckoutFormResult(raw) THEN ChargeEvent(raw) ELSE "chargeUnknown"
  BY <1>2 DEF ChargeRead, raw
<1>6. ChargeEvent(raw) \in {"chargeOk", "chargeRejected", "chargeUnknown"}
  BY DEF ChargeEvent
<1>7. read.event = "chargeOk" => IsCaptured(b) /\ read.pid
  BY <1>3, <1>4, <1>5 DEF ChargeEvent, ClassifyIyzicoResult, ProjectCheckoutFormResult, SaleCaptured,
                    IsCaptured
<1>8. read.event = "chargeRejected" => IsDeclined(b)
  BY <1>3, <1>4, <1>5 DEF ChargeEvent, ClassifyIyzicoResult, ProjectCheckoutFormResult, IsDeclined
<1>9. ~(IsCaptured(b) /\ IsDeclined(b))
  BY DEF IsCaptured, IsDeclined
<1>. QED  BY <1>1, <1>2, <1>4, <1>5, <1>6, <1>7, <1>8, <1>9

LEMMA RetrieveChargeKeeps ==
  ASSUME Shape, NEW o \in Orders, OrderInv(o), NEW by \in {"webhook", "poll"},
         Unlocked(o), RetrieveCharge(o, by)
  PROVE  Kept(o)
<1>1. PICK read \in ChargeReads(sale[o]) :
        LET c == [EffectiveCtx(o) EXCEPT !.pid = @ \/ (read.pid /\ read.event # "chargeUnknown")]
        IN Step(o, Enter(NewRun(by, "SolvencyReserved", c), read.event))
  BY DEF RetrieveCharge
<1>. DEFINE c == [EffectiveCtx(o) EXCEPT !.pid = @ \/ (read.pid /\ read.event # "chargeUnknown")]
            d == NewRun(by, "SolvencyReserved", c)
<1>2. /\ reg[o].st = "SolvencyReserved" /\ row[o].st # "UsdcSubmitted" /\ evid[o].hash = 0
      /\ run[o] = Off
  BY DEF RetrieveCharge, EffectiveState, Unlocked, OrderInv, Good, WalkInv, On
<1>3. /\ read.event \in {"chargeOk", "chargeRejected", "chargeUnknown"}
      /\ read.event = "chargeOk" => sale[o] = "paid" /\ read.pid
      /\ read.event = "chargeRejected" => sale[o] = "declined"
      /\ read.pid \in BOOLEAN
  BY ChargeReadSound
<1>4. /\ c \in Ctxs /\ c.hash = row[o].hash /\ c.seq = row[o].seq /\ c.maxT = reg[o].ctx.maxT
      /\ c.tok = reg[o].ctx.tok /\ (read.event = "chargeOk" => c.pid)
  BY <1>3, EffectiveCtxIs DEF Ctxs
<1>. HIDE DEF c
<1>5. d \in RunType /\ d.st = "SolvencyReserved" /\ d.ctx = c /\ On(d)
  BY <1>4, NewRunTyped DEF States
<1>. HIDE DEF d
<1>6. PICK r : /\ \/ /\ r = To(d, "UsdcSubmitted", <<"allocateSeq", "persistInFlight", "submitPay">>)
                     /\ sale[o] = "paid" /\ c.pid
                  \/ /\ r = To(d, "FailedClean", <<"releaseReservation">>)
                     /\ sale[o] = "declined"
                  \/ r = To(d, "SolvencyReserved", <<"rePollObserveOnly">>)
               /\ Step(o, r)
  BY <1>1, <1>3, <1>4, <1>5, FromSolvencyReserved DEF c, d
<1>7. /\ r \in RunType /\ On(r) /\ r.ctx = c /\ r.sub = "none"
      /\ \/ /\ r.st = "UsdcSubmitted" /\ sale[o] = "paid" /\ c.pid
            /\ r.todo = <<"allocateSeq", "persistInFlight", "submitPay">>
         \/ /\ r.st = "FailedClean" /\ sale[o] = "declined"
            /\ r.todo = <<"releaseReservation">>
         \/ r.st = "SolvencyReserved" /\ r.todo = <<"rePollObserveOnly">>
  <2>1. CASE /\ r = To(d, "UsdcSubmitted", <<"allocateSeq", "persistInFlight", "submitPay">>)
             /\ sale[o] = "paid" /\ c.pid
    <3>1. "UsdcSubmitted" \in States /\ <<"allocateSeq", "persistInFlight", "submitPay">> \in Batches
      BY DEF States, Batches
    <3>. QED  BY <1>5, <2>1, <3>1, ToTyped DEF On
  <2>2. CASE r = To(d, "FailedClean", <<"releaseReservation">>) /\ sale[o] = "declined"
    <3>1. "FailedClean" \in States /\ <<"releaseReservation">> \in Batches
      BY DEF States, Batches
    <3>. QED  BY <1>5, <2>2, <3>1, ToTyped DEF On
  <2>3. CASE r = To(d, "SolvencyReserved", <<"rePollObserveOnly">>)
    <3>1. "SolvencyReserved" \in States /\ <<"rePollObserveOnly">> \in Batches
      BY DEF States, Batches
    <3>. QED  BY <1>5, <2>3, <3>1, ToTyped DEF On
  <2>. QED  BY <1>6, <2>1, <2>2, <2>3
<1>8. spent' \in [faults : Nat, pauses : Nat, traps : Nat, drains : Nat]
      /\ (spent'.faults = 0 => spent.faults = 0)
  BY SharedTyped DEF RetrieveCharge
<1>9. Good(r, reg[o], row[o], evid[o], sale[o], txs[o], o \in pool.processed,
           o \in flagged, spent'.faults = 0)
  <2>1. WalkInv(r)
    BY <1>2, <1>4, <1>7 DEF WalkInv, Walk, On, Submits
  <2>2. EarlyInv(r, reg[o], row[o], evid[o], sale[o], txs[o])
    <3>1. EarlyInv(run[o], reg[o], row[o], evid[o], sale[o], txs[o])
      BY DEF OrderInv, Good
    <3>2. r.st # "Reserved" /\ r.todo # <<"fireCheckoutForm">>
      BY <1>7
    <3>3. \/ r.st \in {"SolvencyReserved", "FailedClean"}
          \/ /\ r.st = "UsdcSubmitted" /\ sale[o] = "paid" /\ r.ctx.pid
             /\ r.todo = <<"allocateSeq", "persistInFlight", "submitPay">>
      BY <1>7
    <3>4. r.st = "FailedClean" => sale[o] = "declined"
      BY <1>7
    <3>. QED  BY <1>2, <3>1, <3>2, <3>3, <3>4 DEF EarlyInv
  <2>3. FlightInv(r, reg[o], row[o], sale[o])
    BY <1>2, <1>4, <1>7 DEF OrderInv, Good, EarlyInv, FlightInv, On, Submits
  <2>4. WitnessInv(r, reg[o], row[o], txs[o])
    BY <1>2, <1>4, <1>7 DEF OrderInv, Good, WitnessInv, On, Submits, EarlyInv
  <2>5. PaidInv(r, reg[o], evid[o], txs[o], o \in pool.processed)
    BY <1>2, <1>4, <1>7 DEF OrderInv, Good, PaidInv, On
  <2>6. FlagInv(r, row[o], evid[o], o \in flagged)
    BY <1>2, <1>4, <1>7 DEF OrderInv, Good, FlagInv, On, Submits
  <2>7. spent'.faults = 0 => CalmInv(r, reg[o], row[o], sale[o], txs[o])
    BY <1>2, <1>4, <1>7, <1>8 DEF OrderInv, Good, CalmInv, On, Submits, EarlyInv
  <2>. QED  BY <2>1, <2>2, <2>3, <2>4, <2>5, <2>6, <2>7 DEF Good
<1>. QED  BY <1>6, <1>7, <1>8, <1>9, SharedTyped, RunMoves DEF RetrieveCharge, backend, chain

LEMMA PollResubmitKeeps ==
  ASSUME Shape, NEW o \in Orders, OrderInv(o), PollResubmit(o)
  PROVE  Kept(o)
<1>. DEFINE c == EffectiveCtx(o)
            d == NewRun("poll", "UsdcSubmitted", c)
            r == To(d, "UsdcSubmitted", <<"persistInFlight", "submitReplacementSameSeq">>)
<1>1. /\ row[o].st = "UsdcSubmitted" /\ evid[o].hash = 0 /\ row[o].seq \in Seqs /\ row[o].pid
      /\ reg[o].st \in {"SolvencyReserved", "UsdcSubmitted", "UsdcPending"}
  BY InFlightRows DEF PollResubmit
<1>2. run[o] = Off /\ o \notin flagged
  BY DEF PollResubmit, PollTurn, Unlocked, OrderInv, Good, WalkInv, On
<1>3. /\ c \in Ctxs /\ c.hash = row[o].hash /\ c.seq = row[o].seq /\ c.maxT = reg[o].ctx.maxT
      /\ c.tok = reg[o].ctx.tok /\ c.pid /\ c.hash = 0
  BY <1>1, EffectiveCtxIs DEF PollResubmit, NeverSent
<1>. HIDE DEF c
<1>4. d \in RunType /\ d.st = "UsdcSubmitted" /\ d.ctx = c /\ On(d)
  BY <1>3, NewRunTyped DEF States
<1>5. Step(o, r)
  <2>1. Step(o, Enter(d, "recoverResubmit"))
    BY DEF PollResubmit, c
  <2>. QED  BY <1>4, <2>1, FromSubmitted
<1>. HIDE DEF d
<1>6. /\ r \in RunType /\ On(r) /\ r.ctx = c /\ r.sub = "none" /\ r.st = "UsdcSubmitted"
      /\ r.todo = <<"persistInFlight", "submitReplacementSameSeq">>
  <2>1. "UsdcSubmitted" \in States /\ <<"persistInFlight", "submitReplacementSameSeq">> \in Batches
    BY DEF States, Batches
  <2>. QED  BY <1>4, <2>1, ToTyped DEF On
<1>. HIDE DEF r
<1>7. Good(r, reg[o], row[o], evid[o], sale[o], txs[o], o \in pool.processed,
           o \in flagged, spent.faults = 0)
  <2>1. WalkInv(r)
    BY <1>1, <1>2, <1>3, <1>6 DEF WalkInv, Walk, On, Submits
  <2>2. EarlyInv(r, reg[o], row[o], evid[o], sale[o], txs[o])
    BY <1>1, <1>2, <1>3, <1>6 DEF OrderInv, Good, EarlyInv, On, Off, Submits
  <2>3. FlightInv(r, reg[o], row[o], sale[o])
    BY <1>1, <1>2, <1>3, <1>6 DEF OrderInv, Good, EarlyInv, FlightInv, On, Submits
  <2>4. WitnessInv(r, reg[o], row[o], txs[o])
    BY <1>1, <1>2, <1>3, <1>6 DEF OrderInv, Good, WitnessInv, On, Submits
  <2>5. PaidInv(r, reg[o], evid[o], txs[o], o \in pool.processed)
    BY <1>1, <1>2, <1>3, <1>6 DEF OrderInv, Good, PaidInv, On
  <2>6. FlagInv(r, row[o], evid[o], o \in flagged)
    BY <1>1, <1>2, <1>3, <1>6 DEF OrderInv, Good, FlagInv, On, Submits
  <2>7. spent.faults = 0 => CalmInv(r, reg[o], row[o], sale[o], txs[o])
    <3>. SUFFICES ASSUME spent.faults = 0 PROVE CalmInv(r, reg[o], row[o], sale[o], txs[o])
      OBVIOUS
    <3>1. CalmInv(run[o], reg[o], row[o], sale[o], txs[o])
      BY DEF OrderInv, Good
    <3>2. row[o].hash = 0 /\ Len(txs[o]) = 0 /\ sale[o] # "voided"
      BY <1>1, <1>2, <1>3, <3>1, OffTyped DEF CalmInv
    <3>3. r.st \notin {"UsdcDead", "ChargeReversing"} /\ DOMAIN txs[o] = {}
      BY <1>6, <3>2, ShapeOf
    <3>. QED  BY <1>6, <3>2, <3>3 DEF CalmInv, On
  <2>. QED  BY <2>1, <2>2, <2>3, <2>4, <2>5, <2>6, <2>7 DEF Good
<1>. QED  BY <1>5, <1>6, <1>7, SharedTyped, RunMoves DEF PollResubmit, backend, chain

\* Only the quarantine table changes.
LEMMA QuarantineKeeps ==
  ASSUME Shape, NEW o \in Orders, OrderInv(o), PollTurn(o), InFlight(o),
         flagged' = flagged \cup {o}, UNCHANGED <<run, reg, row, resv, evid, ledger, sale, txs, pool>>,
         spent' \in [faults : Nat, pauses : Nat, traps : Nat, drains : Nat],
         spent'.faults = 0 => spent.faults = 0
  PROVE  Kept(o)
<1>1. row[o].st = "UsdcSubmitted" /\ evid[o].hash = 0
  BY InFlightRows
<1>2. run[o] = Off
  BY DEF PollTurn, Unlocked, OrderInv, Good, WalkInv, On
<1>3. o \in flagged' <=> TRUE
  OBVIOUS
<1>4. FlagInv(run[o], row[o], evid[o], TRUE)
  BY <1>1, <1>2, OffTyped DEF FlagInv
<1>5. Good(run[o], reg[o], row[o], evid[o], sale[o], txs[o], o \in pool.processed, TRUE,
           spent'.faults = 0)
  BY <1>4 DEF OrderInv, Good
<1>6. Good(run[o], reg[o], row[o], evid[o], sale[o], txs[o], o \in pool.processed,
           o \in flagged', spent'.faults = 0)
  BY <1>3, <1>5
<1>. QED  BY <1>6, ShapeOf, SharedTyped, Assemble

LEMMA PollQuarantineKeeps ==
  ASSUME Shape, NEW o \in Orders, OrderInv(o), PollQuarantine(o)
  PROVE  Kept(o)
<1>1. /\ PollTurn(o) /\ InFlight(o) /\ flagged' = flagged \cup {o}
      /\ UNCHANGED <<run, reg, row, resv, evid, ledger, sale, txs, pool, spent>>
  BY DEF PollQuarantine, chain
<1>2. spent' \in [faults : Nat, pauses : Nat, traps : Nat, drains : Nat]
      /\ (spent'.faults = 0 => spent.faults = 0)
  BY <1>1, SharedTyped
<1>. QED  BY <1>1, <1>2, QuarantineKeeps

\* A verdict of the poll worker's is a fact about the recorded transaction.
LEMMA PollObserveKeeps ==
  ASSUME Shape, NEW o \in Orders, OrderInv(o), PollObserve(o)
  PROVE  Kept(o)
<1>. DEFINE c == EffectiveCtx(o)
            h == row[o].hash
            st == EffectiveState(o)
            d == NewRun("poll", st, c)
            event == CoreEvent(Verdict(o, c.hash, c.seq, c.maxT), st)
<1>1. /\ row[o].st = "UsdcSubmitted" /\ evid[o].hash = 0 /\ row[o].seq \in Seqs /\ row[o].pid
      /\ reg[o].st \in {"SolvencyReserved", "UsdcSubmitted", "UsdcPending"}
      /\ st \in {"UsdcSubmitted", "UsdcPending"}
  BY InFlightRows DEF PollObserve
<1>2. run[o] = Off /\ o \notin flagged /\ PollTurn(o) /\ InFlight(o)
  BY DEF PollObserve, PollTurn, Unlocked, OrderInv, Good, WalkInv, On
<1>3. /\ c \in Ctxs /\ c.hash = h /\ c.seq = row[o].seq /\ c.maxT = reg[o].ctx.maxT
      /\ c.tok = reg[o].ctx.tok /\ c.pid /\ h # 0 /\ h \in DOMAIN txs[o]
  <2>1. c.hash # 0 /\ row[o].hash \in 0 .. Len(txs[o])
    BY DEF PollObserve, OrderInv, Good, WitnessInv
  <2>. QED  BY <1>1, <2>1, EffectiveCtxIs, ShapeOf DEF RowType
<1>4. UNCHANGED <<reg, row, resv, evid, ledger, sale, txs, pool>>
  BY DEF PollObserve, chain
<1>5. \/ event # "none" /\ Step(o, Enter(d, event)) /\ UNCHANGED <<flagged, spent>>
      \/ /\ flagged' = flagged \cup {o} /\ UNCHANGED run
         /\ spent' \in [faults : Nat, pauses : Nat, traps : Nat, drains : Nat]
         /\ spent'.faults = 0 => spent.faults = 0
  <2>1. spent.faults \in Nat
    BY SharedTyped
  <2>. QED  BY <2>1, SharedTyped DEF PollObserve
<1>6. CASE /\ flagged' = flagged \cup {o} /\ UNCHANGED run
           /\ spent' \in [faults : Nat, pauses : Nat, traps : Nat, drains : Nat]
           /\ spent'.faults = 0 => spent.faults = 0
  BY <1>2, <1>4, <1>6, QuarantineKeeps
<1>7. CASE event # "none" /\ Step(o, Enter(d, event)) /\ UNCHANGED <<flagged, spent>>
  <2>. DEFINE v == Verdict(o, c.hash, c.seq, c.maxT)
  <2>1. /\ v = "LANDED_SUCCESS" => txs[o][h].res = "Ok"
        /\ v = "LANDED_REVERTED" => Reverted(txs[o][h])
        /\ v = "DEAD_REPLACEABLE" => txs[o][h].res = "net" /\ txs[o][c.maxT].exp
    <3>1. c.seq \in Int
      BY <1>1, <1>3, SeqsAreInts
    <3>. QED  BY <1>3, <3>1, VerdictSound
  <2>2. /\ st = "UsdcSubmitted" => event \in {"evidenceSuccess", "evidenceReverted", "evidencePending"}
        /\ st = "UsdcPending" => event \in {"evidenceSuccess", "evidenceReverted",
                                           "pollStillPending", "pollDead"}
        /\ event = "evidenceSuccess" => v = "LANDED_SUCCESS"
        /\ event = "evidenceReverted" => v = "LANDED_REVERTED"
        /\ event = "pollDead" => v = "DEAD_REPLACEABLE"
    <3>1. CASE st = "UsdcSubmitted"
      BY <1>7, <3>1, EventSubmitted
    <3>2. CASE st = "UsdcPending"
      BY <1>7, <3>2, EventPending
    <3>. QED  BY <1>1, <3>1, <3>2
  <2>. HIDE DEF v
  <2>3. d \in RunType /\ d.st = st /\ d.ctx = c /\ On(d)
    <3>1. st \in States
      BY <1>1 DEF States
    <3>. QED  BY <1>3, <3>1, NewRunTyped
  <2>. HIDE DEF d, c, event, st
  <2>4. PICK r : /\ \/ /\ r = To(d, "UsdcConfirmed", <<"handToReconciler">>)
                       /\ txs[o][h].res = "Ok"
                    \/ /\ r = To(d, "UsdcReverted", <<"confirmBurnedSeq">>)
                       /\ Reverted(txs[o][h])
                    \/ r = To(d, "UsdcPending", <<"rePollObserveOnly">>)
                    \/ /\ r = To(d, "UsdcDead", <<>>)
                       /\ txs[o][h].res = "net" /\ txs[o][c.maxT].exp
                 /\ Step(o, r)
    <3>1. CASE st = "UsdcSubmitted"
      BY <1>7, <2>1, <2>2, <2>3, <3>1, FromSubmitted
    <3>2. CASE st = "UsdcPending"
      BY <1>7, <2>1, <2>2, <2>3, <3>2, FromPending
    <3>. QED  BY <1>1, <3>1, <3>2
  <2>5. /\ r \in RunType /\ On(r) /\ r.ctx = c /\ r.sub = "none"
        /\ \/ r.st = "UsdcConfirmed" /\ r.todo = <<"handToReconciler">> /\ txs[o][h].res = "Ok"
           \/ r.st = "UsdcReverted" /\ r.todo = <<"confirmBurnedSeq">> /\ Reverted(txs[o][h])
           \/ r.st = "UsdcPending" /\ r.todo = <<"rePollObserveOnly">>
           \/ /\ r.st = "UsdcDead" /\ r.todo = <<>>
              /\ txs[o][h].res = "net" /\ txs[o][c.maxT].exp
    <3>1. CASE r = To(d, "UsdcConfirmed", <<"handToReconciler">>) /\ txs[o][h].res = "Ok"
      <4>1. "UsdcConfirmed" \in States /\ <<"handToReconciler">> \in Batches
        BY DEF States, Batches
      <4>. QED  BY <2>3, <3>1, <4>1, ToTyped DEF On
    <3>2. CASE r = To(d, "UsdcReverted", <<"confirmBurnedSeq">>) /\ Reverted(txs[o][h])
      <4>1. "UsdcReverted" \in States /\ <<"confirmBurnedSeq">> \in Batches
        BY DEF States, Batches
      <4>. QED  BY <2>3, <3>2, <4>1, ToTyped DEF On
    <3>3. CASE r = To(d, "UsdcPending", <<"rePollObserveOnly">>)
      <4>1. "UsdcPending" \in States /\ <<"rePollObserveOnly">> \in Batches
        BY DEF States, Batches
      <4>. QED  BY <2>3, <3>3, <4>1, ToTyped DEF On
    <3>4. CASE r = To(d, "UsdcDead", <<>>) /\ txs[o][h].res = "net" /\ txs[o][c.maxT].exp
      <4>1. "UsdcDead" \in States /\ <<>> \in Batches
        BY DEF States, Batches
      <4>. QED  BY <2>3, <3>4, <4>1, ToTyped DEF On
    <3>. QED  BY <2>4, <3>1, <3>2, <3>3, <3>4
  <2>6. /\ r.st \in {"UsdcConfirmed", "UsdcReverted", "UsdcPending", "UsdcDead"}
        /\ r.todo \notin {<<"fireCheckoutForm">>, <<"persistInFlight", "submitPay">>,
                         <<"allocateSeq", "persistInFlight", "submitPay">>,
                         <<"reallocateSeq", "persistInFlight", "submitPay">>, <<"submitPay">>,
                         <<"submitReplacementSameSeq">>,
                         <<"persistInFlight", "submitReplacementSameSeq">>}
        /\ r.st = "UsdcReverted" => Reverted(txs[o][h])
        /\ r.st = "UsdcConfirmed" => txs[o][h].res = "Ok"
        /\ r.todo = <<"handToReconciler">> => txs[o][h].res = "Ok"
        /\ r.sub = "none" /\ r.ctx = c /\ On(r)
    <3>1. CASE r.st = "UsdcConfirmed" /\ r.todo = <<"handToReconciler">> /\ txs[o][h].res = "Ok"
      BY <2>5, <3>1
    <3>2. CASE r.st = "UsdcReverted" /\ r.todo = <<"confirmBurnedSeq">> /\ Reverted(txs[o][h])
      BY <2>5, <3>2
    <3>3. CASE r.st = "UsdcPending" /\ r.todo = <<"rePollObserveOnly">>
      BY <2>5, <3>3
    <3>4. CASE r.st = "UsdcDead" /\ r.todo = <<>>
      BY <2>5, <3>4
    <3>. QED  BY <2>5, <3>1, <3>2, <3>3, <3>4
  <2>7. Good(r, reg[o], row[o], evid[o], sale[o], txs[o], o \in pool.processed,
           o \in flagged, spent.faults = 0)
    <3>1. WalkInv(r)
      BY <1>1, <1>2, <1>3, <2>5 DEF WalkInv, Walk, On, Submits
    <3>2. EarlyInv(r, reg[o], row[o], evid[o], sale[o], txs[o])
      BY <1>1, <1>2, <1>3, <2>6 DEF OrderInv, Good, EarlyInv, On, Off
    <3>3. FlightInv(r, reg[o], row[o], sale[o])
      BY <1>1, <1>2, <1>3, <2>6 DEF OrderInv, Good, EarlyInv, FlightInv, On
    <3>4. WitnessInv(r, reg[o], row[o], txs[o])
      BY <1>1, <1>2, <1>3, <2>6 DEF OrderInv, Good, WitnessInv, On
    <3>5. PaidInv(r, reg[o], evid[o], txs[o], o \in pool.processed)
      BY <1>1, <1>2, <1>3, <2>5 DEF OrderInv, Good, PaidInv, On
    <3>6. FlagInv(r, row[o], evid[o], o \in flagged)
      BY <1>1, <1>2, <1>3, <2>5 DEF OrderInv, Good, FlagInv, On, Submits
    <3>7. spent.faults = 0 => CalmInv(r, reg[o], row[o], sale[o], txs[o])
      <4>. SUFFICES ASSUME spent.faults = 0 PROVE CalmInv(r, reg[o], row[o], sale[o], txs[o])
        OBVIOUS
      <4>1. CalmInv(run[o], reg[o], row[o], sale[o], txs[o])
        BY DEF OrderInv, Good
      <4>2. /\ row[o].hash = Len(txs[o]) /\ \A n \in 1 .. (Len(txs[o]) - 1) : Dead(txs[o][n])
            /\ Reverted(txs[o][h]) \/ reg[o].ctx.maxT = h
            /\ sale[o] # "voided"
        BY <1>1, <1>2, <1>3, <4>1, OffTyped DEF CalmInv
      <4>3. r.st \notin {"ChargeReversing"} /\ r.ctx.maxT = reg[o].ctx.maxT /\ r.ctx.hash = h
            /\ r.todo \notin Submits \cup {<<"persistInFlight", "submitReplacementSameSeq">>}
        BY <1>3, <2>6 DEF Submits
      <4>4. r.st = "UsdcDead" => \A n \in DOMAIN txs[o] : Dead(txs[o][n])
        <5>. SUFFICES ASSUME r.st = "UsdcDead", NEW n \in DOMAIN txs[o] PROVE Dead(txs[o][n])
          OBVIOUS
        <5>1. txs[o][h].res = "net" /\ txs[o][reg[o].ctx.maxT].exp
          BY <1>3, <2>5
        <5>2. Dead(txs[o][h])
          BY <4>2, <5>1 DEF Dead, Reverted
        <5>3. n = h \/ n \in 1 .. (Len(txs[o]) - 1)
          BY <1>3, <4>2, ShapeOf
        <5>. QED  BY <4>2, <5>2, <5>3
      <4>. QED  BY <1>3, <2>5, <4>2, <4>3, <4>4 DEF CalmInv, On
    <3>. QED  BY <3>1, <3>2, <3>3, <3>4, <3>5, <3>6, <3>7 DEF Good
  <2>. QED  BY <1>4, <1>7, <2>4, <2>5, <2>7, SharedTyped, RunMoves
<1>. QED  BY <1>5, <1>6, <1>7

\* What the reconciler closes was paid, so it was not voided.
LEMMA ReconcileKeeps ==
  ASSUME Shape, NEW o \in Orders, OrderInv(o), Reconcile(o)
  PROVE  Kept(o)
<1>. DEFINE c == EffectiveCtx(o)
            g == [st |-> "Reconciled", ctx |-> c]
<1>1. run[o] = Off /\ evid[o].hash # 0 /\ txs[o][evid[o].hash].res = "Ok"
  BY DEF Reconcile, Unlocked, OrderInv, Good, WalkInv, On
<1>2. row[o].st = "UsdcSubmitted" /\ evid[o].hash \in DOMAIN txs[o] /\ o \in pool.processed
  BY <1>1 DEF OrderInv, Good, EarlyInv, PaidInv
<1>3. c \in Ctxs /\ c.hash = row[o].hash /\ c.seq = row[o].seq /\ c.maxT = reg[o].ctx.maxT
  BY EffectiveCtxIs
<1>4. reg' = [reg EXCEPT ![o] = g]
  <2>. DEFINE e == Edge("UsdcConfirmed", "reconciled", "Reconciled", <<>>)
  <2>1. e \in Table /\ e.from = "UsdcConfirmed" /\ e.event = "reconciled" /\ e.to = "Reconciled"
    BY DEF Table, Edge
  <2>. HIDE DEF e
  <2>2. Transition("UsdcConfirmed", "reconciled") = e
    BY <2>1, TableDeterministic DEF Transition
  <2>. QED  BY <2>1, <2>2 DEF Reconcile
<1>. HIDE DEF c
<1>5. g \in RegType /\ g.st = "Reconciled" /\ g.ctx = c
  BY <1>3 DEF RegType, States
<1>. HIDE DEF g
<1>6. Good(run[o], g, row[o], evid[o], sale[o], txs[o], o \in pool.processed,
           o \in flagged, spent.faults = 0)
  <2>1. WalkInv(run[o])
    BY DEF OrderInv, Good
  <2>2. EarlyInv(run[o], g, row[o], evid[o], sale[o], txs[o])
    BY <1>1, <1>2, <1>5, OffTyped DEF EarlyInv
  <2>3. FlightInv(run[o], g, row[o], sale[o])
    BY <1>1, <1>2, <1>5, OffTyped DEF OrderInv, Good, FlightInv
  <2>4. WitnessInv(run[o], g, row[o], txs[o])
    BY <1>1, <1>3, <1>5, OffTyped DEF OrderInv, Good, WitnessInv
  <2>5. PaidInv(run[o], g, evid[o], txs[o], o \in pool.processed)
    BY <1>1, <1>2, <1>5, OffTyped DEF OrderInv, Good, PaidInv
  <2>6. FlagInv(run[o], row[o], evid[o], o \in flagged)
    BY DEF OrderInv, Good
  <2>7. spent.faults = 0 => CalmInv(run[o], g, row[o], sale[o], txs[o])
    <3>. SUFFICES ASSUME spent.faults = 0 PROVE CalmInv(run[o], g, row[o], sale[o], txs[o])
      OBVIOUS
    <3>1. CalmInv(run[o], reg[o], row[o], sale[o], txs[o])
      BY DEF OrderInv, Good
    <3>2. ~Dead(txs[o][evid[o].hash])
      BY <1>1 DEF Dead, Reverted
    <3>3. sale[o] # "voided"
      BY <1>2, <3>1, <3>2 DEF CalmInv
    <3>. QED  BY <1>1, <1>3, <1>5, <3>1, <3>3, OffTyped DEF CalmInv
  <2>. QED  BY <2>1, <2>2, <2>3, <2>4, <2>5, <2>6, <2>7 DEF Good
<1>7. UNCHANGED <<run, row, evid, sale, txs, flagged, pool, ledger, resv, spent>>
  BY DEF Reconcile, chain
<1>. QED  BY <1>4, <1>5, <1>6, <1>7, ShapeOf, SharedTyped, Assemble

-----------------------------------------------------------------------------
(* The world outside.                                                      *)

\* The customer acts on a form whose token was put, before anything else is known of the
\* order.
LEMMA CustomerActsKeeps ==
  ASSUME Shape, NEW o \in Orders, OrderInv(o), CustomerActs(o)
  PROVE  Kept(o)
<1>1. PICK s \in {"paid", "declined"} : sale' = [sale EXCEPT ![o] = s]
  BY DEF CustomerActs
<1>2. sale[o] = "form" /\ reg[o].ctx.tok
  BY DEF CustomerActs
<1>3. /\ row[o].st # "UsdcSubmitted" /\ reg[o].st \notin {"none", "Reserved", "FailedClean"}
      /\ run[o].st # "FailedClean"
  <2>1. row[o].st # "UsdcSubmitted"
    BY <1>2 DEF OrderInv, Good, FlightInv, Charged
  <2>2. ~NoCtx.tok
    BY DEF NoCtx
  <2>. QED  BY <1>2, <2>1, <2>2 DEF OrderInv, Good, EarlyInv
<1>4. Good(run[o], reg[o], row[o], evid[o], s, txs[o], o \in pool.processed,
           o \in flagged, spent.faults = 0)
  <2>1. EarlyInv(run[o], reg[o], row[o], evid[o], s, txs[o])
    <3>1. EarlyInv(run[o], reg[o], row[o], evid[o], sale[o], txs[o])
      BY DEF OrderInv, Good
    <3>. QED  BY <1>2, <1>3, <3>1 DEF EarlyInv
  <2>2. FlightInv(run[o], reg[o], row[o], s)
    BY <1>3 DEF FlightInv
  <2>3. spent.faults = 0 => CalmInv(run[o], reg[o], row[o], s, txs[o])
    <3>. SUFFICES ASSUME spent.faults = 0 PROVE CalmInv(run[o], reg[o], row[o], s, txs[o])
      OBVIOUS
    <3>1. CalmInv(run[o], reg[o], row[o], sale[o], txs[o])
      BY DEF OrderInv, Good
    <3>. QED  BY <3>1 DEF CalmInv
  <2>. QED  BY <2>1, <2>2, <2>3 DEF OrderInv, Good
<1>5. UNCHANGED <<run, reg, row, evid, txs, flagged, pool, ledger, resv, spent>>
  BY DEF CustomerActs, backend, chain
<1>6. s \in SaleType
  BY DEF SaleType
<1>. QED  BY <1>1, <1>4, <1>5, <1>6, ShapeOf, SharedTyped, Assemble

\* The chain only ever decides: what paid stays paid, what died stays dead.
LEMMA ChainDecides ==
  ASSUME Shape, NEW o \in Orders, OrderInv(o), NEW U \in Seq(TxType), Len(U) = Len(txs[o]),
         \A m \in DOMAIN txs[o] : /\ U[m].seq = txs[o][m].seq
                                  /\ Reverted(txs[o][m]) => Reverted(U[m])
                                  /\ Dead(txs[o][m]) => Dead(U[m])
                                  /\ txs[o][m].res = "Ok" => U[m].res = "Ok",
         txs' = [txs EXCEPT ![o] = U],
         UNCHANGED <<run, reg, row, evid, sale, flagged, ledger, resv>>,
         pool' \in [balance : Int, processed : SUBSET Orders, paused : BOOLEAN],
         pool'.processed = pool.processed \/ pool'.processed = pool.processed \cup {o},
         spent' \in [faults : Nat, pauses : Nat, traps : Nat, drains : Nat],
         spent'.faults = spent.faults,
         o \in pool'.processed <=> \E m \in DOMAIN U : U[m].res = "Ok",
         \A m \in DOMAIN U : U[m].res = "AlreadyProcessed" => o \in pool'.processed
  PROVE  Kept(o)
<1>. DEFINE r == run[o]  g == reg[o]  w == row[o]  e == evid[o]  s == sale[o]  T == txs[o]
            paid == o \in pool.processed
            after == o \in pool'.processed
            calm == spent.faults = 0
<1>0. Good(r, g, w, e, s, T, paid, o \in flagged, calm) /\ T \in Seq(TxType) /\ (paid => after)
  BY ShapeOf DEF OrderInv
<1>. HIDE DEF r, g, w, e, s, paid, after, calm
<1>1. DOMAIN U = DOMAIN T /\ (U = <<>> <=> T = <<>>) /\ DOMAIN T = 1 .. Len(T) /\ Len(T) \in Nat
  BY <1>0
<1>2. EarlyInv(r, g, w, e, s, U)
  BY <1>0, <1>1 DEF Good, EarlyInv
<1>3. WitnessInv(r, g, w, U)
  <2>1. WitnessInv(r, g, w, T)
    BY <1>0 DEF Good
  <2>2. w.hash # 0 => w.hash \in DOMAIN T
    BY <1>1, <2>1 DEF WitnessInv
  <2>3. T # <<>> => Len(T) \in DOMAIN T
    BY <1>1
  <2>4. w.hash \in 0 .. Len(U) /\ (w.hash # 0 => U[w.hash].seq = w.seq \/ Reverted(U[w.hash]))
    BY <2>1, <2>2 DEF WitnessInv
  <2>5. T # <<>> => U[Len(U)].seq = T[Len(T)].seq
    BY <2>3
  <2>. QED  BY <1>1, <2>1, <2>2, <2>4, <2>5 DEF WitnessInv
<1>4. PaidInv(r, g, e, U, after)
  <2>1. PaidInv(r, g, e, T, paid)
    BY <1>0 DEF Good
  <2>. QED  BY <1>0, <1>1, <2>1 DEF PaidInv, after
<1>5. calm => CalmInv(r, g, w, s, U)
  <2>. SUFFICES ASSUME calm PROVE CalmInv(r, g, w, s, U)
    OBVIOUS
  <2>1. CalmInv(r, g, w, s, T) /\ w.hash \in 0 .. Len(T)
    BY <1>0 DEF Good, WitnessInv
  <2>2. w.hash # 0 => w.hash \in DOMAIN T
    BY <1>1, <2>1
  <2>3. \A n \in 1 .. (Len(U) - 1) : n \in DOMAIN T
    BY <1>1
  <2>4. /\ w.hash = IF r.sub = "sent" THEN Len(U) - 1 ELSE Len(U)
        /\ \A n \in 1 .. (Len(U) - 1) : Dead(U[n])
    BY <2>1, <2>3 DEF CalmInv
  <2>. QED  BY <1>1, <2>1, <2>2, <2>4 DEF CalmInv
<1>6. WalkInv(r) /\ FlightInv(r, g, w, s) /\ FlagInv(r, w, e, o \in flagged)
  BY <1>0 DEF Good
<1>7. Good(r, g, w, e, s, U, after, o \in flagged, calm)
  BY <1>2, <1>3, <1>4, <1>5, <1>6 DEF Good
<1>8. txs'[o] = U /\ \A p \in Orders \ {o} : txs'[p] = txs[p]
  BY DEF Shape
<1>9. Shape'
  BY DEF Shape
<1>10. Aside(o)
  BY <1>8 DEF Aside
<1>11. OrderInv(o)'
  BY <1>7, <1>8 DEF OrderInv, r, g, w, e, s, after, calm
<1>. QED  BY <1>9, <1>10, <1>11 DEF Kept

\* One transaction of a list is replaced.
LEMMA Replaced ==
  ASSUME NEW T \in Seq(TxType), NEW n \in DOMAIN T, NEW x \in TxType
  PROVE  LET U == [T EXCEPT ![n] = x] IN
         /\ U \in Seq(TxType) /\ Len(U) = Len(T) /\ DOMAIN U = DOMAIN T
         /\ U[n] = x /\ \A m \in DOMAIN T \ {n} : U[m] = T[m]
<1>. DEFINE U == [T EXCEPT ![n] = x]
<1>1. U \in [1 .. Len(T) -> TxType] /\ Len(T) \in Nat
  OBVIOUS
<1>2. U \in Seq(TxType) /\ Len(U) = Len(T)
  BY <1>1
<1>. QED  BY <1>1, <1>2

\* An inclusion: the contract's answer is the transaction's result, for good.
LEMMA LandKeeps ==
  ASSUME Shape, NEW o \in Orders, NEW n \in DOMAIN txs[o], OrderInv(o), Land(o, n)
  PROVE  Kept(o)
<1>. DEFINE T == txs[o]
<1>1. PICK result : /\ result \in PayResults
                    /\ txs' = [txs EXCEPT ![o][n].res = result]
                    /\ result = "AlreadyProcessed" => o \in pool.processed
                    /\ pool' = IF result = "Ok"
                               THEN [pool EXCEPT !.balance = @ - 1, !.processed = @ \cup {o}]
                               ELSE pool
  <2>1. PICK receives \in BOOLEAN :
          LET result == PayResult(TRUE, pool.paused, 1, o \in pool.processed, pool.balance, receives)
          IN /\ txs' = [txs EXCEPT ![o][n].res = result]
             /\ pool' = IF result = "Ok"
                        THEN [pool EXCEPT !.balance = @ - 1, !.processed = @ \cup {o}]
                        ELSE pool
    BY DEF Land
  <2>. DEFINE result == PayResult(TRUE, pool.paused, 1, o \in pool.processed, pool.balance, receives)
  <2>2. result \in PayResults /\ (result = "AlreadyProcessed" => o \in pool.processed)
    BY DEF PayResult, PayResults
  <2>. QED  BY <2>1, <2>2
<1>. DEFINE U == [T EXCEPT ![n].res = result]
<1>2. T[n].res = "net" /\ ~T[n].exp
  BY DEF Land
<1>3. /\ T \in Seq(TxType) /\ n \in DOMAIN T
      /\ result \in PayResults \cup {"net"} /\ result # "net"
  BY <1>1, ShapeOf DEF PayResults
<1>4. txs' = [txs EXCEPT ![o] = U]
  BY <1>1, <1>3 DEF Shape
<1>5. /\ U \in Seq(TxType) /\ Len(U) = Len(T) /\ DOMAIN U = DOMAIN T
      /\ U[n].seq = T[n].seq /\ U[n].res = result
      /\ \A m \in DOMAIN T \ {n} : U[m] = T[m]
  <2>. DEFINE x == [T[n] EXCEPT !.res = result]
  <2>0. T[n] \in TxType
    BY <1>3
  <2>1. x \in TxType /\ x.seq = T[n].seq /\ x.res = result
    BY <1>3, <2>0 DEF TxType
  <2>2. U = [T EXCEPT ![n] = x]
    OBVIOUS
  <2>. HIDE DEF x, U, T
  <2>. QED  BY <1>3, <2>1, <2>2, Replaced
<1>6. /\ spent' \in [faults : Nat, pauses : Nat, traps : Nat, drains : Nat]
      /\ spent'.faults = spent.faults
  <2>1. PICK k \in {0, 1} : spent' = [spent EXCEPT !.traps = @ + k]
    BY DEF Land
  <2>. QED  BY <2>1, SharedTyped
<1>7. /\ pool' \in [balance : Int, processed : SUBSET Orders, paused : BOOLEAN]
      /\ pool'.processed = pool.processed \/ pool'.processed = pool.processed \cup {o}
      /\ result = "Ok" => o \in pool'.processed
      /\ result # "Ok" => pool'.processed = pool.processed
      /\ o \in pool.processed => o \in pool'.processed
  <2>1. pool \in [balance : Int, processed : SUBSET Orders, paused : BOOLEAN]
    BY DEF Shape
  <2>2. CASE result = "Ok"
    <3>1. pool' = [pool EXCEPT !.balance = @ - 1, !.processed = @ \cup {o}]
      BY <1>1, <2>2
    <3>2. pool.balance - 1 \in Int /\ pool.processed \cup {o} \in SUBSET Orders
      BY <2>1
    <3>. QED  BY <2>1, <2>2, <3>1, <3>2
  <2>3. CASE result # "Ok"
    BY <1>1, <2>1, <2>3
  <2>. QED  BY <2>2, <2>3
<1>. HIDE DEF U
<1>8. \A m \in DOMAIN T : /\ U[m].seq = T[m].seq
                          /\ Reverted(T[m]) => Reverted(U[m])
                          /\ Dead(T[m]) => Dead(U[m])
                          /\ T[m].res = "Ok" => U[m].res = "Ok"
  BY <1>2, <1>5 DEF Reverted, Dead
<1>9. PaidInv(run[o], reg[o], evid[o], T, o \in pool.processed)
  BY DEF OrderInv, Good
<1>10. o \in pool'.processed <=> \E m \in DOMAIN U : U[m].res = "Ok"
  <2>1. CASE result = "Ok"
    BY <1>5, <1>7, <2>1
  <2>2. CASE result # "Ok"
    BY <1>2, <1>5, <1>7, <1>9, <2>2 DEF PaidInv
  <2>. QED  BY <2>1, <2>2
<1>11. \A m \in DOMAIN U : U[m].res = "AlreadyProcessed" => o \in pool'.processed
  BY <1>1, <1>5, <1>7, <1>9 DEF PaidInv
<1>12. UNCHANGED <<run, reg, row, evid, sale, flagged, ledger, resv>>
  BY DEF Land, backend
<1>. QED  BY <1>4, <1>5, <1>6, <1>7, <1>8, <1>10, <1>11, <1>12, ChainDecides

LEMMA ExpireKeeps ==
  ASSUME Shape, NEW o \in Orders, NEW n \in DOMAIN txs[o], OrderInv(o), Expire(o, n)
  PROVE  Kept(o)
<1>. DEFINE T == txs[o]
            U == [T EXCEPT ![n].exp = TRUE]
<1>1. T \in Seq(TxType) /\ n \in DOMAIN T
  BY ShapeOf
<1>2. txs' = [txs EXCEPT ![o] = U]
  BY <1>1 DEF Shape, Expire
<1>3. /\ U \in Seq(TxType) /\ Len(U) = Len(T) /\ DOMAIN U = DOMAIN T
      /\ U[n].seq = T[n].seq /\ U[n].res = T[n].res /\ U[n].exp
      /\ \A m \in DOMAIN T \ {n} : U[m] = T[m]
  <2>. DEFINE x == [T[n] EXCEPT !.exp = TRUE]
  <2>0. T[n] \in TxType
    BY <1>1
  <2>1. x \in TxType /\ x.seq = T[n].seq /\ x.res = T[n].res /\ x.exp
    BY <2>0 DEF TxType
  <2>2. U = [T EXCEPT ![n] = x]
    OBVIOUS
  <2>. HIDE DEF x, U, T
  <2>. QED  BY <1>1, <2>1, <2>2, Replaced
<1>. HIDE DEF U
<1>4. \A m \in DOMAIN T : /\ U[m].seq = T[m].seq
                          /\ Reverted(T[m]) => Reverted(U[m])
                          /\ Dead(T[m]) => Dead(U[m])
                          /\ T[m].res = "Ok" => U[m].res = "Ok"
  BY <1>3 DEF Reverted, Dead
<1>5. PaidInv(run[o], reg[o], evid[o], T, o \in pool.processed)
  BY DEF OrderInv, Good
<1>6. /\ o \in pool.processed <=> \E m \in DOMAIN U : U[m].res = "Ok"
      /\ \A m \in DOMAIN U : U[m].res = "AlreadyProcessed" => o \in pool.processed
  BY <1>3, <1>5 DEF PaidInv
<1>7. UNCHANGED <<run, reg, row, evid, sale, flagged, ledger, resv, pool, spent>>
  BY DEF Expire, backend
<1>8. pool \in [balance : Int, processed : SUBSET Orders, paused : BOOLEAN]
  BY DEF Shape
<1>. QED  BY <1>2, <1>3, <1>4, <1>6, <1>7, <1>8, SharedTyped, ChainDecides

\* A crash drops every run; the boot sweep only touches orders without a charge.
LEMMA CrashKeeps ==
  ASSUME SettleInv, Crash
  PROVE  SettleInv'
<1>1. Shape /\ \A o \in Orders : OrderInv(o)
  BY DEF SettleInv
<1>2. spent.faults \in Nat /\ spent' = [spent EXCEPT !.faults = @ + 1]
  BY <1>1 DEF Crash, Shape
<1>3. spent' \in [faults : Nat, pauses : Nat, traps : Nat, drains : Nat] /\ spent'.faults # 0
  BY <1>1, <1>2, SharedTyped
<1>4. NoReg \in RegType /\ NoRow \in RowType /\ NoReg.st = "none" /\ NoReg.ctx = NoCtx
      /\ NoRow.st = "none" /\ NoRow.seq = NoSeq /\ NoRow.hash = 0 /\ ~NoRow.pid
      /\ NoCtx.hash = 0 /\ NoCtx.seq = NoSeq /\ ~NoCtx.tok
  BY DEF NoReg, NoRow, NoCtx, RegType, RowType, Ctxs
<1>5. Shape'
  <2>1. run' \in [Orders -> RunType]
    BY OffTyped DEF Crash
  <2>2. reg' \in [Orders -> RegType] /\ row' \in [Orders -> RowType]
    BY <1>1, <1>4 DEF Crash, Shape
  <2>3. resv' \in [Orders -> {"none", "held", "settled"}]
    BY <1>1 DEF Crash, Shape
  <2>. QED  BY <1>1, <1>3, <2>1, <2>2, <2>3 DEF Crash, Shape, chain
<1>6. ASSUME NEW o \in Orders PROVE OrderInv(o)'
  <2>. DEFINE g == IF Purged(o) THEN NoReg ELSE reg[o]
              w == IF Purged(o) \/ reg[o].st = "none" THEN NoRow ELSE row[o]
  <2>1. /\ run'[o] = Off /\ reg'[o] = g /\ row'[o] = w /\ evid'[o] = evid[o]
        /\ sale'[o] = sale[o] /\ txs'[o] = txs[o] /\ pool' = pool /\ flagged' = flagged
    BY DEF Crash, chain
  <2>2. Good(run[o], reg[o], row[o], evid[o], sale[o], txs[o], o \in pool.processed,
             o \in flagged, spent.faults = 0)
    BY <1>1 DEF OrderInv
  <2>3. /\ EarlyInv(run[o], reg[o], row[o], evid[o], sale[o], txs[o])
        /\ FlightInv(run[o], reg[o], row[o], sale[o])
        /\ WitnessInv(run[o], reg[o], row[o], txs[o])
        /\ PaidInv(run[o], reg[o], evid[o], txs[o], o \in pool.processed)
        /\ FlagInv(run[o], row[o], evid[o], o \in flagged)
    BY <2>2 DEF Good
  <2>4. Good(Off, g, w, evid[o], sale[o], txs[o], o \in pool.processed, o \in flagged, FALSE)
    <3>1. WalkInv(Off)
      BY OffTyped DEF WalkInv
    <3>2. CASE Purged(o) \/ reg[o].st = "none"
      <4>1. /\ g.st = "none" /\ g.ctx = NoCtx /\ w = NoRow
            /\ row[o].st # "UsdcSubmitted" /\ sale[o] \in {"none", "form"}
        BY <1>4, <2>3, <3>2 DEF EarlyInv, Purged
      <4>2. /\ txs[o] = <<>> /\ evid[o].hash = 0 /\ o \notin flagged
        BY <2>3, <4>1 DEF EarlyInv, FlagInv
      <4>. HIDE DEF g, w
      <4>3. EarlyInv(Off, g, w, evid[o], sale[o], txs[o])
        BY <1>4, <4>1, <4>2, OffTyped DEF EarlyInv
      <4>4. FlightInv(Off, g, w, sale[o]) /\ FlagInv(Off, w, evid[o], o \in flagged)
        BY <1>4, <4>1, <4>2 DEF FlightInv, FlagInv
      <4>5. WitnessInv(Off, g, w, txs[o])
        BY <1>4, <4>1, <4>2, OffTyped DEF WitnessInv
      <4>6. PaidInv(Off, g, evid[o], txs[o], o \in pool.processed)
        BY <2>3, <4>1, <4>2, OffTyped DEF PaidInv
      <4>. QED  BY <3>1, <4>3, <4>4, <4>5, <4>6 DEF Good
    <3>3. CASE ~(Purged(o) \/ reg[o].st = "none")
      <4>1. g = reg[o] /\ w = row[o]
        BY <3>3
      <4>. HIDE DEF g, w
      <4>2. EarlyInv(Off, reg[o], row[o], evid[o], sale[o], txs[o])
        BY <2>3, OffTyped DEF EarlyInv
      <4>3. FlightInv(Off, reg[o], row[o], sale[o]) /\ FlagInv(Off, row[o], evid[o], o \in flagged)
        BY <2>3, OffTyped DEF FlightInv, FlagInv
      <4>4. WitnessInv(Off, reg[o], row[o], txs[o])
        BY <2>3, OffTyped DEF WitnessInv
      <4>5. PaidInv(Off, reg[o], evid[o], txs[o], o \in pool.processed)
        BY <2>3, OffTyped DEF PaidInv
      <4>. QED  BY <3>1, <4>1, <4>2, <4>3, <4>4, <4>5 DEF Good
    <3>. QED  BY <3>2, <3>3
  <2>. HIDE DEF g, w
  <2>. QED  BY <1>3, <2>1, <2>4 DEF OrderInv
<1>. QED  BY <1>5, <1>6 DEF SettleInv

\* The admin, and whatever else moves the pool's balance.
LEMMA PoolMovesKeep ==
  ASSUME SettleInv, PausePool \/ UnpausePool \/ DrainPool
  PROVE  SettleInv'
<1>1. Shape /\ \A o \in Orders : OrderInv(o)
  BY DEF SettleInv
<1>2. pool \in [balance : Int, processed : SUBSET Orders, paused : BOOLEAN]
      /\ spent \in [faults : Nat, pauses : Nat, traps : Nat, drains : Nat]
  BY <1>1 DEF Shape
<1>3. /\ pool' \in [balance : Int, processed : SUBSET Orders, paused : BOOLEAN]
      /\ spent' \in [faults : Nat, pauses : Nat, traps : Nat, drains : Nat]
      /\ pool'.processed = pool.processed /\ spent'.faults = spent.faults
      /\ UNCHANGED <<run, reg, row, resv, flagged, evid, ledger, sale, txs>>
  <2>1. CASE PausePool
    <3>1. /\ pool' = [pool EXCEPT !.paused = TRUE] /\ spent' = [spent EXCEPT !.pauses = @ + 1]
          /\ UNCHANGED <<run, reg, row, resv, flagged, evid, ledger, sale, txs>>
      BY <2>1 DEF PausePool, backend
    <3>2. /\ pool' \in [balance : Int, processed : SUBSET Orders, paused : BOOLEAN]
          /\ pool'.processed = pool.processed
      BY <1>2, <3>1
    <3>3. /\ spent' \in [faults : Nat, pauses : Nat, traps : Nat, drains : Nat]
          /\ spent'.faults = spent.faults
      BY <1>2, <3>1
    <3>. QED  BY <3>1, <3>2, <3>3
  <2>2. CASE UnpausePool
    BY <1>2, <2>2 DEF UnpausePool, backend
  <2>3. CASE DrainPool
    BY <1>2, <2>3 DEF DrainPool, backend
  <2>. QED  BY <2>1, <2>2, <2>3
<1>4. Shape'
  BY <1>1, <1>3 DEF Shape
<1>5. ASSUME NEW o \in Orders PROVE OrderInv(o)'
  BY <1>1, <1>3 DEF OrderInv
<1>. QED  BY <1>4, <1>5 DEF SettleInv

-----------------------------------------------------------------------------
(* Every step.                                                             *)

\* A step of one order leaves the others as they were.
LEMMA OthersKept ==
  ASSUME SettleInv, NEW o \in Orders, Kept(o)
  PROVE  SettleInv'
<1>1. Shape' /\ OrderInv(o)' /\ Aside(o)
  BY DEF Kept
<1>2. ASSUME NEW p \in Orders PROVE OrderInv(p)'
  <2>1. CASE p = o
    BY <1>1, <2>1
  <2>2. CASE p # o
    <3>1. /\ run'[p] = run[p] /\ reg'[p] = reg[p] /\ row'[p] = row[p] /\ evid'[p] = evid[p]
          /\ sale'[p] = sale[p] /\ txs'[p] = txs[p]
          /\ (p \in pool'.processed) = (p \in pool.processed)
          /\ (p \in flagged') = (p \in flagged)
          /\ spent'.faults = 0 => spent.faults = 0
      BY <1>1, <2>2 DEF Aside
    <3>2. Good(run[p], reg[p], row[p], evid[p], sale[p], txs[p], p \in pool.processed,
               p \in flagged, spent.faults = 0)
      BY DEF SettleInv, OrderInv
    <3>3. Good(run[p], reg[p], row[p], evid[p], sale[p], txs[p], p \in pool.processed,
               p \in flagged, spent'.faults = 0)
      BY <3>1, <3>2 DEF Good
    <3>. QED  BY <3>1, <3>3 DEF OrderInv
  <2>. QED  BY <2>1, <2>2
<1>. QED  BY <1>1, <1>2 DEF SettleInv

\* One effect of a run.
LEMMA EffectsKeep ==
  ASSUME Shape, NEW o \in Orders, OrderInv(o), Effects(o)
  PROVE  Kept(o)
<1>1. CASE FireSolvencyCheck(o)
  BY <1>1, FireSolvencyCheckKeeps
<1>2. CASE FireCheckoutForm(o)
  BY <1>2, FireCheckoutFormKeeps
<1>3. CASE AllocateSeq(o)
  BY <1>3, AllocateSeqKeeps
<1>4. CASE ReallocateSeq(o)
  BY <1>4, ReallocateSeqKeeps
<1>5. CASE PersistInFlight(o)
  BY <1>5, PersistInFlightKeeps
<1>6. CASE SubmitPay(o)
  BY <1>6, SubmitPayKeeps
<1>7. CASE RecordHash(o)
  BY <1>7, RecordHashKeeps
<1>8. CASE ObserveSubmitted(o)
  BY <1>8, ObserveSubmittedKeeps
<1>9. CASE ConfirmBurnedSeq(o)
  BY <1>9, ConfirmBurnedKeeps
<1>10. CASE ReadRevertCause(o)
  BY <1>10, ReadRevertCauseKeeps
<1>11. CASE ReleaseSeq(o)
  BY <1>11, ReleaseSeqKeeps
<1>12. CASE ReleaseReservation(o)
  BY <1>12, ReleaseReservationKeeps
<1>13. CASE FireCancel(o)
  BY <1>13, FireCancelKeeps
<1>14. CASE FlagLoss(o)
  BY <1>14, FlagLossKeeps
<1>15. CASE HandToReconciler(o)
  BY <1>15, HandToReconcilerKeeps
<1>16. CASE MarkSettled(o)
  BY <1>16, MarkSettledKeeps
<1>17. CASE RePollObserveOnly(o)
  BY <1>17, RePollKeeps
<1>18. CASE EffectThrows(o)
  BY <1>18, EffectThrowsKeeps
<1>. QED  BY <1>1, <1>2, <1>3, <1>4, <1>5, <1>6, <1>7, <1>8, <1>9, <1>10, <1>11, <1>12, <1>13,
            <1>14, <1>15, <1>16, <1>17, <1>18 DEF Effects

LEMMA OrderStepKeeps ==
  ASSUME Shape, NEW o \in Orders, OrderInv(o), Backend(o) \/ CallThrows(o) \/ Environment(o)
  PROVE  Kept(o)
<1>1. CASE Effects(o)
  BY <1>1, EffectsKeep
<1>2. CASE DecideDead(o)
  BY <1>2, DecideDeadKeeps
<1>3. CASE Quiesce(o)
  BY <1>3, QuiesceKeeps
<1>4. CASE Intent(o)
  BY <1>4, IntentKeeps
<1>5. CASE Webhook(o)
  BY <1>5, RetrieveChargeKeeps DEF Webhook
<1>6. CASE PollCharge(o)
  BY <1>6, RetrieveChargeKeeps DEF PollCharge, PollTurn
<1>7. CASE PollResubmit(o)
  BY <1>7, PollResubmitKeeps
<1>8. CASE PollQuarantine(o)
  BY <1>8, PollQuarantineKeeps
<1>9. CASE PollObserve(o)
  BY <1>9, PollObserveKeeps
<1>10. CASE Reconcile(o)
  BY <1>10, ReconcileKeeps
<1>11. CASE CallThrows(o)
  BY <1>11, CallThrowsKeeps
<1>12. CASE CustomerActs(o)
  BY <1>12, CustomerActsKeeps
<1>13. CASE \E n \in DOMAIN txs[o] : Land(o, n)
  BY <1>13, LandKeeps
<1>14. CASE \E n \in DOMAIN txs[o] : Expire(o, n)
  BY <1>14, ExpireKeeps
<1>. QED  BY <1>1, <1>2, <1>3, <1>4, <1>5, <1>6, <1>7, <1>8, <1>9, <1>10, <1>11, <1>12, <1>13,
            <1>14 DEF Backend, Drive, Poll, Environment

LEMMA InitSettles == Init => SettleInv
<1>. SUFFICES ASSUME Init PROVE SettleInv
  OBVIOUS
<1>1. /\ NoReg \in RegType /\ NoRow \in RowType /\ NoReg.st = "none" /\ NoReg.ctx = NoCtx
      /\ NoRow.st = "none" /\ NoRow.seq = NoSeq /\ NoRow.hash = 0
      /\ NoCtx.hash = 0 /\ NoCtx.seq = NoSeq /\ ~NoCtx.tok
      /\ [hash |-> 0, seq |-> NoSeq] \in EvidType
  BY DEF NoReg, NoRow, NoCtx, RegType, RowType, Ctxs, EvidType
<1>2. Shape
  <2>1. FreshLedger \in Ledgers
    BY SeqAssumption DEF FreshLedger, Ledgers, Seqs, NoSeq
  <2>2. pool \in [balance : Int, processed : SUBSET Orders, paused : BOOLEAN]
    BY SettlementAssumption DEF Init
  <2>. QED  BY <1>1, <2>1, <2>2, OffTyped DEF Init, Shape, SaleType
<1>3. ASSUME NEW o \in Orders PROVE OrderInv(o)
  <2>1. /\ run[o] = Off /\ reg[o] = NoReg /\ row[o] = NoRow /\ evid[o].hash = 0
        /\ sale[o] = "none" /\ txs[o] = <<>> /\ o \notin pool.processed /\ o \notin flagged
    BY DEF Init
  <2>2. WalkInv(run[o])
    BY <2>1, OffTyped DEF WalkInv
  <2>3. EarlyInv(run[o], reg[o], row[o], evid[o], sale[o], txs[o])
    BY <1>1, <2>1, OffTyped DEF EarlyInv
  <2>4. FlightInv(run[o], reg[o], row[o], sale[o]) /\ FlagInv(run[o], row[o], evid[o], o \in flagged)
    BY <1>1, <2>1 DEF FlightInv, FlagInv
  <2>5. WitnessInv(run[o], reg[o], row[o], txs[o])
    BY <1>1, <2>1, OffTyped DEF WitnessInv
  <2>6. PaidInv(run[o], reg[o], evid[o], txs[o], o \in pool.processed)
    BY <1>1, <2>1, OffTyped DEF PaidInv
  <2>7. CalmInv(run[o], reg[o], row[o], sale[o], txs[o])
    BY <1>1, <2>1, OffTyped DEF CalmInv
  <2>. QED  BY <2>2, <2>3, <2>4, <2>5, <2>6, <2>7 DEF OrderInv, Good
<1>. QED  BY <1>2, <1>3 DEF SettleInv

LEMMA NextSettles == SettleInv /\ [Next]_vars => SettleInv'
<1>. SUFFICES ASSUME SettleInv, [Next]_vars PROVE SettleInv'
  OBVIOUS
<1>1. CASE \E o \in Orders : Backend(o) \/ CallThrows(o) \/ Environment(o)
  <2>1. PICK o \in Orders : Backend(o) \/ CallThrows(o) \/ Environment(o)
    BY <1>1
  <2>2. Kept(o)
    BY <2>1, OrderStepKeeps DEF SettleInv
  <2>. QED  BY <2>2, OthersKept
<1>2. CASE Crash
  BY <1>2, CrashKeeps
<1>3. CASE PausePool \/ UnpausePool \/ DrainPool
  BY <1>3, PoolMovesKeep
<1>4. CASE UNCHANGED vars
  BY <1>4 DEF vars, SettleInv, Shape, OrderInv
<1>. QED  BY <1>1, <1>2, <1>3, <1>4 DEF Next

LEMMA AlwaysSettles == Spec => []SettleInv
  BY InitSettles, NextSettles, PTL DEF Spec

-----------------------------------------------------------------------------
(* The theorems.                                                           *)

\* The rows and the runs keep their shape, and the witness handed to the reconciler is the
\* transaction that paid, under the sequence it really used: whatever crashed, threw or was
\* answered late.
THEOREM EvidenceSoundHolds == Spec => []EvidenceSound
<1>1. SettleInv => EvidenceSound
  <2>. SUFFICES ASSUME SettleInv PROVE EvidenceSound
    OBVIOUS
  <2>1. Shape /\ \A o \in Orders : OrderInv(o)
    BY DEF SettleInv
  <2>2. ASSUME NEW o \in Orders
        PROVE  /\ run[o].by \in {"none", "intent", "webhook", "poll"}
               /\ run[o].st \in States \cup {"none"} /\ run[o].ctx \in Ctxs /\ run[o].sub \in Steps
               /\ reg[o].st \in States \cup {"none"} /\ reg[o].ctx \in Ctxs
               /\ row[o].st \in {"none", "Reserved", "UsdcSubmitted"}
               /\ row[o].seq \in Seqs \cup {NoSeq}
    BY <2>1, ShapeOf DEF RunType, RegType, RowType
  <2>3. ASSUME NEW o \in Orders
        PROVE  run[o].sub # "none" => run[o].todo # <<>>
    <3>1. run[o].sub \in Steps /\ WalkInv(run[o])
      BY <2>1, <2>2 DEF OrderInv, Good
    <3>2. run[o].sub \in {"sent", "recorded"} => run[o].todo # <<>>
      <4>1. <<>> \notin Submits
        BY DEF Submits
      <4>. QED  BY <3>1, <4>1 DEF WalkInv
    <3>3. run[o].sub \in {"burned", "appended"} => run[o].todo # <<>>
      <4>1. <<"confirmBurnedSeq">> # <<>> /\ <<"handToReconciler">> # <<>>
        OBVIOUS
      <4>2. run[o].sub \in {"burned", "appended"} =>
              run[o].todo = <<"confirmBurnedSeq">> \/ run[o].todo = <<"handToReconciler">>
        BY <3>1, Zenon DEF WalkInv
      <4>. QED  BY <4>1, <4>2, Zenon
    <3>. QED  BY <3>1, <3>2, <3>3 DEF Steps
  <2>4. ASSUME NEW o \in Orders
        PROVE  /\ row[o].hash \in 0 .. Len(txs[o]) /\ evid[o].hash \in 0 .. Len(txs[o])
               /\ evid[o].hash # 0 => /\ txs[o][evid[o].hash].res = "Ok"
                                      /\ txs[o][evid[o].hash].seq = evid[o].seq
    <3>1. /\ WitnessInv(run[o], reg[o], row[o], txs[o])
          /\ PaidInv(run[o], reg[o], evid[o], txs[o], o \in pool.processed)
      BY <2>1 DEF OrderInv, Good
    <3>2. Len(txs[o]) \in Nat /\ DOMAIN txs[o] = 1 .. Len(txs[o])
      BY <2>1, ShapeOf
    <3>. QED  BY <3>1, <3>2 DEF WitnessInv, PaidInv
  <2>5. ASSUME NEW o \in Orders, NEW n \in DOMAIN txs[o]
        PROVE  txs[o][n].seq \in Seqs /\ txs[o][n].res \in PayResults \cup {"net"}
    <3>1. txs[o][n] \in TxType
      BY <2>1, ShapeOf
    <3>. QED  BY <3>1 DEF TxType
  <2>6. /\ resv \in [Orders -> {"none", "held", "settled"}]
        /\ sale \in [Orders -> {"none", "form", "paid", "declined", "voided"}]
        /\ ledger \in Ledgers /\ flagged \subseteq Orders
    BY <2>1 DEF Shape, SaleType
  <2>7. TypeOK
    BY <2>2, <2>3, <2>4, <2>5, <2>6 DEF TypeOK
  <2>. QED  BY <2>4, <2>7 DEF EvidenceSound
<1>. QED  BY <1>1, AlwaysSettles, PTL

\* Money first: the contract pays only orders whose TRY charge was completed.
THEOREM NeverPayUnchargedHolds == Spec => []NeverPayUncharged
<1>1. SettleInv => NeverPayUncharged
  <2>. SUFFICES ASSUME SettleInv, NEW o \in pool.processed PROVE sale[o] \in {"paid", "voided"}
    BY DEF NeverPayUncharged
  <2>1. Shape /\ o \in Orders /\ OrderInv(o)
    BY DEF SettleInv, Shape
  <2>2. txs[o] # <<>>
    BY <2>1, ShapeOf DEF OrderInv, Good, PaidInv
  <2>. QED  BY <2>1, <2>2 DEF OrderInv, Good, EarlyInv, FlightInv, Charged
<1>. QED  BY <1>1, AlwaysSettles, PTL

\* What the backend reports is true: a confirmed or reconciled order was paid, and for one
\* that failed clean nothing moved on either side.
THEOREM OutcomesTrueHolds == Spec => []OutcomesTrue
<1>1. SettleInv => OutcomesTrue
  <2>. SUFFICES ASSUME SettleInv, NEW o \in Orders
                PROVE  /\ EffectiveState(o) \in {"UsdcConfirmed", "Reconciled"} => o \in pool.processed
                       /\ EffectiveState(o) = "FailedClean" =>
                            o \notin pool.processed /\ sale[o] # "paid"
    BY DEF OutcomesTrue
  <2>1. Shape /\ OrderInv(o)
    BY DEF SettleInv
  <2>2. PaidInv(run[o], reg[o], evid[o], txs[o], o \in pool.processed)
        /\ EarlyInv(run[o], reg[o], row[o], evid[o], sale[o], txs[o])
    BY <2>1 DEF OrderInv, Good
  <2>3. EffectiveState(o) \in {"UsdcConfirmed", "Reconciled"} => o \in pool.processed
    <3>1. evid[o].hash # 0 => o \in pool.processed
      BY <2>2 DEF PaidInv
    <3>. QED  BY <2>2, <3>1 DEF EffectiveState, PaidInv
  <2>4. EffectiveState(o) = "FailedClean" => o \notin pool.processed /\ sale[o] # "paid"
    <3>. SUFFICES ASSUME EffectiveState(o) = "FailedClean"
                  PROVE  o \notin pool.processed /\ sale[o] # "paid"
      OBVIOUS
    <3>1. reg[o].st = "FailedClean"
      BY DEF EffectiveState
    <3>2. row[o].st # "UsdcSubmitted" /\ sale[o] # "paid"
      BY <2>2, <3>1 DEF EarlyInv
    <3>3. txs[o] = <<>>
      BY <2>2, <3>2 DEF EarlyInv
    <3>. QED  BY <2>2, <3>2, <3>3 DEF PaidInv
  <2>. QED  BY <2>3, <2>4
<1>. QED  BY <1>1, AlwaysSettles, PTL

\* As long as no call throws, nothing crashes and no answer is unreadable, no customer is
\* refunded whose merchant is paid: a void is issued only once every transaction ever
\* signed for the order is dead.
THEOREM NoRefundAndPayUndisturbedHolds == Spec => []NoRefundAndPayUndisturbed
<1>1. SettleInv => NoRefundAndPayUndisturbed
  <2>. SUFFICES ASSUME SettleInv, spent.faults = 0, NEW o \in Orders, sale[o] = "voided",
                       o \in pool.processed
                PROVE  FALSE
    BY DEF NoRefundAndPayUndisturbed, NoRefundAndPay
  <2>1. CalmInv(run[o], reg[o], row[o], sale[o], txs[o])
        /\ PaidInv(run[o], reg[o], evid[o], txs[o], o \in pool.processed)
    BY DEF SettleInv, OrderInv, Good
  <2>2. PICK n \in DOMAIN txs[o] : txs[o][n].res = "Ok"
    BY <2>1 DEF PaidInv
  <2>3. Dead(txs[o][n])
    BY <2>1 DEF CalmInv
  <2>. QED  BY <2>2, <2>3 DEF Dead, Reverted
<1>. QED  BY <1>1, AlwaysSettles, PTL

\* What a run can still trip over: a sequence whose ledger record is gone when its revert is
\* read.
OnlyLostRecords ==
  \A o \in Orders : BrokenFlow(o) =>
    /\ Doing(o, "confirmBurnedSeq") /\ run[o].sub = "none"
    /\ ~MayBurn(ledger, run[o].ctx.seq)

\* The driver never feeds an event its table does not list, never voids without a payment
\* id and never hands over a missing witness, whatever rows a crash or an exception left.
THEOREM OnlyLostRecordsHolds == Spec => []OnlyLostRecords
<1>1. SettleInv => OnlyLostRecords
  BY FlowSound DEF SettleInv, OnlyLostRecords
<1>. QED  BY <1>1, AlwaysSettles, PTL

-----------------------------------------------------------------------------
(* The quarantine.                                                         *)

\* What a step does for order q that the quarantine forbids.
LeftAlone(q) ==
  /\ Len(txs'[q]) = Len(txs[q])
  /\ sale'[q] = sale[q]
  /\ ledger'.byOrder[q] = ledger.byOrder[q]
  /\ resv[q] = "held" => resv'[q] = "held"

\* A run's effects concern the ledger's pointer and the reservation of its own order only.
LEMMA EffectsOwnOrder ==
  ASSUME Shape, NEW o \in Orders, NEW q \in Orders \ {o}, Effects(o)
  PROVE  ledger'.byOrder[q] = ledger.byOrder[q] /\ resv'[q] = resv[q]
<1>1. ledger \in Ledgers /\ resv \in [Orders -> {"none", "held", "settled"}]
  BY SharedTyped
<1>2. CASE UNCHANGED <<ledger, resv>>
  BY <1>2
<1>3. Granted(ledger, o).byOrder[q] = ledger.byOrder[q]
  BY <1>1 DEF Granted, Ledgers
<1>4. CASE FireSolvencyCheck(o) \/ ReleaseReservation(o) \/ MarkSettled(o)
  BY <1>1, <1>4 DEF FireSolvencyCheck, ReleaseReservation, MarkSettled
<1>5. CASE AllocateSeq(o)
  <2>1. ledger' = Allocated(ledger, o) /\ resv' = resv
    BY <1>5 DEF AllocateSeq
  <2>. QED  BY <1>3, <2>1 DEF Allocated
<1>6. CASE ReallocateSeq(o)
  <2>1. ledger' = Reallocated(ledger, o) /\ resv' = resv
    BY <1>6 DEF ReallocateSeq
  <2>. QED  BY <1>3, <2>1 DEF Reallocated
<1>7. CASE ConfirmBurnedSeq(o)
  <2>1. ledger' = Burned(ledger, run[o].ctx.seq) /\ resv' = resv
    BY <1>7 DEF ConfirmBurnedSeq
  <2>. QED  BY <1>1, <2>1 DEF Burned, Ledgers
<1>8. CASE ReleaseSeq(o)
  <2>1. ledger' = Released(ledger, run[o].ctx.seq, o) /\ resv' = resv
    BY <1>8 DEF ReleaseSeq
  <2>. QED  BY <1>1, <2>1 DEF Released, Ledgers
<1>9. CASE FireCheckoutForm(o) \/ PersistInFlight(o) \/ SubmitPay(o)
  BY <1>2, <1>9 DEF FireCheckoutForm, PersistInFlight, SubmitPay, backend
<1>10. CASE RecordHash(o) \/ ObserveSubmitted(o) \/ ReadRevertCause(o)
  BY <1>2, <1>10 DEF RecordHash, ObserveSubmitted, ReadRevertCause, backend
<1>11. CASE FireCancel(o) \/ FlagLoss(o) \/ HandToReconciler(o)
  BY <1>2, <1>11 DEF FireCancel, FlagLoss, HandToReconciler, backend
<1>12. CASE RePollObserveOnly(o) \/ EffectThrows(o)
  BY <1>2, <1>12 DEF RePollObserveOnly, EffectThrows, backend
<1>. QED  BY <1>4, <1>5, <1>6, <1>7, <1>8, <1>9, <1>10, <1>11, <1>12 DEF Effects

\* No effect is due for a quarantined order.
LEMMA QuarantineIdle ==
  ASSUME Shape, NEW o \in Orders, OrderInv(o), o \in flagged
  PROVE  ~Effects(o) /\ ~DecideDead(o) /\ ~CustomerActs(o) /\ ~CallThrows(o)
<1>1. FlagInv(run[o], row[o], evid[o], o \in flagged) /\ FlightInv(run[o], reg[o], row[o], sale[o])
  BY DEF OrderInv, Good
<1>2. \A effect : ~Doing(o, effect)
  BY <1>1 DEF FlagInv, Doing, On
<1>3. ~Submitting(o) /\ ~BrokenFlow(o) /\ ~Refused(o)
  BY <1>2 DEF Submitting, BrokenFlow, Refused
<1>4. ~DecideDead(o)
  BY <1>1 DEF FlagInv, DecideDead, BatchDone, On
<1>5. ~CustomerActs(o)
  BY <1>1 DEF FlagInv, FlightInv, CustomerActs, Charged
<1>6. ~(FireSolvencyCheck(o) \/ FireCheckoutForm(o) \/ AllocateSeq(o) \/ ReallocateSeq(o)
        \/ PersistInFlight(o) \/ SubmitPay(o) \/ RecordHash(o) \/ ObserveSubmitted(o))
  BY <1>2, <1>3 DEF FireSolvencyCheck, FireCheckoutForm, AllocateSeq, ReallocateSeq,
                    PersistInFlight, SubmitPay, RecordHash, ObserveSubmitted
<1>7. ~(ConfirmBurnedSeq(o) \/ ReadRevertCause(o) \/ ReleaseSeq(o) \/ ReleaseReservation(o)
        \/ FireCancel(o) \/ FlagLoss(o) \/ HandToReconciler(o) \/ MarkSettled(o)
        \/ RePollObserveOnly(o) \/ EffectThrows(o))
  BY <1>2, <1>3 DEF ConfirmBurnedSeq, ReadRevertCause, ReleaseSeq, ReleaseReservation, FireCancel,
                    FlagLoss, HandToReconciler, MarkSettled, RePollObserveOnly, EffectThrows
<1>8. ~CallThrows(o)
  BY <1>3 DEF CallThrows
<1>. QED  BY <1>4, <1>5, <1>6, <1>7, <1>8 DEF Effects

LEMMA StepLeavesAlone ==
  ASSUME SettleInv, NEW q \in flagged, Next
  PROVE  LeftAlone(q)
<1>1. Shape /\ q \in Orders /\ OrderInv(q)
  BY DEF SettleInv, Shape
<1>2. CASE UNCHANGED <<txs, sale, ledger, resv>>
  BY <1>2 DEF LeftAlone
<1>3. ASSUME NEW o \in Orders, Backend(o) \/ CallThrows(o) \/ Environment(o)
      PROVE  LeftAlone(q)
  <2>1. Kept(o) /\ Shape
    BY <1>3, OrderStepKeeps DEF SettleInv
  <2>2. o # q => sale'[q] = sale[q] /\ txs'[q] = txs[q]
    BY <1>1, <2>1 DEF Kept, Aside
  <2>3. CASE Effects(o)
    <3>1. o # q
      BY <1>1, <2>3, QuarantineIdle
    <3>. QED  BY <1>1, <2>1, <2>2, <2>3, <3>1, EffectsOwnOrder DEF LeftAlone
  <2>4. CASE DecideDead(o) \/ Quiesce(o) \/ Intent(o)
    BY <1>2, <2>4 DEF DecideDead, Quiesce, Intent, chain
  <2>5. CASE Webhook(o) \/ PollCharge(o)
    BY <1>2, <2>5 DEF Webhook, PollCharge, RetrieveCharge, backend, chain
  <2>6. CASE PollResubmit(o) \/ PollQuarantine(o) \/ PollObserve(o)
    BY <1>2, <2>6 DEF PollResubmit, PollQuarantine, PollObserve, backend, chain
  <2>7. CASE Reconcile(o) \/ CallThrows(o)
    BY <1>2, <2>7 DEF Reconcile, CallThrows, backend, chain
  <2>8. CASE CustomerActs(o)
    <3>1. o # q
      BY <1>1, <2>8, QuarantineIdle
    <3>2. UNCHANGED <<ledger, resv>>
      BY <2>8 DEF CustomerActs, backend
    <3>. QED  BY <2>2, <3>1, <3>2 DEF LeftAlone
  <2>9. CASE \E n \in DOMAIN txs[o] : Land(o, n) \/ Expire(o, n)
    <3>1. PICK n \in DOMAIN txs[o] : Land(o, n) \/ Expire(o, n)
      BY <2>9
    <3>2. UNCHANGED <<sale, ledger, resv>>
      BY <3>1 DEF Land, Expire, backend
    <3>3. \E x : txs' = [txs EXCEPT ![o] = [txs[o] EXCEPT ![n] = x]]
      BY <3>1, <2>1 DEF Land, Expire, Shape
    <3>4. Len(txs'[q]) = Len(txs[q])
      BY <1>1, <3>3, ShapeOf DEF Shape
    <3>. QED  BY <3>2, <3>4 DEF LeftAlone
  <2>. QED  BY <1>3, <2>3, <2>4, <2>5, <2>6, <2>7, <2>8, <2>9 DEF Backend, Drive, Poll, Environment
<1>4. CASE Crash
  <2>1. row[q].st = "UsdcSubmitted" /\ evid[q].hash = 0
    BY <1>1 DEF OrderInv, Good, FlagInv
  <2>2. UNCHANGED <<txs, sale, ledger>> /\ (resv[q] = "held" => resv'[q] = "held")
    BY <1>1, <1>4, <2>1 DEF Crash, Purged, chain
  <2>. QED  BY <2>2 DEF LeftAlone
<1>5. CASE PausePool \/ UnpausePool \/ DrainPool
  BY <1>2, <1>5 DEF PausePool, UnpausePool, DrainPool, backend
<1>. QED  BY <1>3, <1>4, <1>5 DEF Next

\* A quarantined order is left alone by every step of every actor: nothing is signed,
\* charged, voided, reallocated or given back for it any more, and its reservation stands
\* through crashes.
THEOREM QuarantineHoldsAlways == Spec => QuarantineHolds
<1>1. SettleInv /\ [Next]_vars =>
        [\A o \in flagged :
           /\ Len(txs'[o]) = Len(txs[o])
           /\ sale'[o] = sale[o]
           /\ ledger'.byOrder[o] = ledger.byOrder[o]
           /\ resv[o] = "held" => resv'[o] = "held"]_vars
  BY StepLeavesAlone DEF LeftAlone
<1>. QED  BY <1>1, AlwaysSettles, PTL DEF Spec, QuarantineHolds

-----------------------------------------------------------------------------
(* The ledger's records.                                                   *)

\* The ledger has a record of sequence q, in the name of order o.
Tracked(L, q, o) == L.status[q] # "untracked" /\ L.owner[q] = o

\* Free and fresh sequences have no record; an order's pointer names a record of its own.
LedgerInv(L) ==
  /\ \A q \in Seqs : q \in L.free \/ q >= L.next => L.status[q] = "untracked"
  /\ \A q \in L.free : q < L.next
  /\ \A o \in Orders : L.byOrder[o] # NoSeq => Tracked(L, L.byOrder[o], o)

\* A call for order o: no record of another order is lost, what is burned stays so ...
Spares(L, M, o) ==
  /\ \A q \in Seqs, p \in Orders \ {o} : Tracked(L, q, p) => Tracked(M, q, p)
  /\ \A q \in Seqs : L.status[q] = "burned" => M.status[q] = "burned"
  /\ \A p \in Orders \ {o} : M.byOrder[p] = L.byOrder[p]

\* ... and no sequence another order can still use.
SparesActive(L, M, o) ==
  \A q \in Seqs, p \in Orders \ {o} : OwnedActive(L, q, p) => OwnedActive(M, q, p)

LEMMA LowestExists ==
  ASSUME NEW F \in SUBSET Seqs, F # {}
  PROVE  \E s \in F : \A t \in F : s <= t
<1>1. Seqs \subseteq Nat
  BY SeqAssumption DEF Seqs
<1>2. PICK m \in F : \A y \in F : ~ (<<y, m>> \in OpToRel(<, Nat))
  BY <1>1, WFMin, NatLessThanWellFounded
<1>3. \A y \in F : ~ (y < m)
  BY <1>1, <1>2 DEF OpToRel
<1>. QED  BY <1>1, <1>3

\* takeSeq answers a sequence without a record.
LEMMA TakenUnused ==
  ASSUME NEW L \in Ledgers, LedgerInv(L), CanTake(L)
  PROVE  /\ TakeSeq(L) \in Seqs /\ L.status[TakeSeq(L)] = "untracked"
         /\ TakeSeq(L) < (IF L.free # {} THEN L.next ELSE L.next + 1)
<1>1. TakeSeq(L) \in Seqs /\ L.free \in SUBSET Seqs /\ L.next \in Int
  BY SeqAssumption DEF CanTake, Ledgers
<1>2. CASE L.free # {}
  <2>1. TakeSeq(L) \in L.free
    BY <1>1, <1>2, LowestExists DEF TakeSeq
  <2>. QED  BY <1>1, <1>2, <2>1 DEF LedgerInv
<1>3. CASE L.free = {}
  <2>1. TakeSeq(L) = L.next
    BY <1>3 DEF TakeSeq
  <2>. QED  BY <1>1, <1>3, <2>1 DEF LedgerInv
<1>. QED  BY <1>2, <1>3

LEMMA GrantAdds ==
  ASSUME NEW L \in Ledgers, NEW o \in Orders, LedgerInv(L), CanTake(L)
  PROVE  LET M == Granted(L, o) IN
         /\ LedgerInv(M) /\ Spares(L, M, o) /\ SparesActive(L, M, o)
         /\ OwnedActive(M, M.byOrder[o], o)
         /\ \A q \in Seqs : Tracked(L, q, o) => Tracked(M, q, o)
         /\ \A q \in Seqs : OwnedActive(L, q, o) => OwnedActive(M, q, o)
         /\ \A q \in Seqs : M.status[q] = "burned" => L.status[q] = "burned"
<1>. DEFINE s == TakeSeq(L)
            M == Granted(L, o)
            n == IF L.free # {} THEN L.next ELSE L.next + 1
<1>1. s \in Seqs /\ L.status[s] = "untracked" /\ s < n
  BY TakenUnused
<1>2. /\ L.status \in [Seqs -> {"untracked", "active", "burned"}]
      /\ L.owner \in [Seqs -> Orders \cup {NoOrder}]
      /\ L.byOrder \in [Orders -> Seqs \cup {NoSeq}]
      /\ L.next \in Int /\ L.free \subseteq Seqs
  BY SeqAssumption DEF Ledgers
<1>3. /\ M.status = [L.status EXCEPT ![s] = "active"] /\ M.owner = [L.owner EXCEPT ![s] = o]
      /\ M.byOrder = [L.byOrder EXCEPT ![o] = s] /\ M.free = L.free \ {s} /\ M.next = n
  BY DEF Granted
<1>4. L.next <= n /\ n \in Int
  BY <1>2
<1>. HIDE DEF s, M, n
<1>5. M.byOrder[o] = s /\ \A p \in Orders \ {o} : M.byOrder[p] = L.byOrder[p]
  BY <1>2, <1>3
<1>6. /\ M.status[s] = "active" /\ M.owner[s] = o
      /\ \A q \in Seqs \ {s} : M.status[q] = L.status[q] /\ M.owner[q] = L.owner[q]
  BY <1>1, <1>2, <1>3
<1>7. \A q \in Seqs, p \in Orders : Tracked(L, q, p) => Tracked(M, q, p)
  BY <1>1, <1>6 DEF Tracked
<1>8. LedgerInv(M)
  <2>1. ASSUME NEW q \in Seqs, q \in M.free \/ q >= M.next PROVE M.status[q] = "untracked"
    <3>1. q # s
      BY <1>1, <1>3, <1>4, <2>1, SeqsAreInts
    <3>2. q \in L.free \/ q >= L.next
      BY <1>2, <1>3, <1>4, <2>1, SeqsAreInts
    <3>. QED  BY <1>6, <3>1, <3>2 DEF LedgerInv
  <2>2. ASSUME NEW q \in M.free PROVE q < M.next
    <3>1. q \in L.free /\ q \in Seqs /\ q < L.next
      BY <1>2, <1>3 DEF LedgerInv
    <3>. QED  BY <1>2, <1>3, <1>4, <3>1, SeqsAreInts
  <2>3. ASSUME NEW p \in Orders, M.byOrder[p] # NoSeq PROVE Tracked(M, M.byOrder[p], p)
    <3>1. CASE p = o
      BY <1>5, <1>6, <3>1 DEF Tracked
    <3>2. CASE p # o
      <4>1. M.byOrder[p] = L.byOrder[p] /\ L.byOrder[p] \in Seqs
        BY <1>2, <1>5, <2>3, <3>2
      <4>. QED  BY <1>7, <2>3, <4>1 DEF LedgerInv
    <3>. QED  BY <3>1, <3>2
  <2>. QED  BY <2>1, <2>2, <2>3 DEF LedgerInv
<1>9. Spares(L, M, o) /\ SparesActive(L, M, o)
  BY <1>1, <1>5, <1>6, <1>7 DEF Spares, SparesActive, OwnedActive
<1>10. OwnedActive(M, M.byOrder[o], o)
  BY <1>1, <1>5, <1>6 DEF OwnedActive
<1>11. /\ \A q \in Seqs : OwnedActive(L, q, o) => OwnedActive(M, q, o)
       /\ \A q \in Seqs : M.status[q] = "burned" => L.status[q] = "burned"
  BY <1>1, <1>6 DEF OwnedActive
<1>. QED  BY <1>7, <1>8, <1>9, <1>10, <1>11 DEF M

LEMMA BurnAdds ==
  ASSUME NEW L \in Ledgers, NEW o \in Orders, LedgerInv(L), NEW s, MayBurn(L, s)
  PROVE  LET M == Burned(L, s) IN
         /\ LedgerInv(M) /\ Spares(L, M, o) /\ M.byOrder = L.byOrder
         /\ \A q \in Seqs : Tracked(L, q, o) => Tracked(M, q, o)
         /\ Tracked(L, s, o) => SparesActive(L, M, o)
         /\ M.status[s] = "burned"
         /\ \A q \in Seqs \ {s} : M.status[q] = L.status[q] /\ M.owner[q] = L.owner[q]
<1>. DEFINE M == Burned(L, s)
<1>1. /\ L.status \in [Seqs -> {"untracked", "active", "burned"}]
      /\ L.byOrder \in [Orders -> Seqs \cup {NoSeq}] /\ L.free \subseteq Seqs
  BY DEF Ledgers
<1>0. s \in Seqs /\ L.status[s] # "untracked"
  BY DEF MayBurn
<1>2. /\ M.status = [L.status EXCEPT ![s] = "burned"] /\ M.owner = L.owner
      /\ M.byOrder = L.byOrder /\ M.free = L.free /\ M.next = L.next
  BY DEF Burned, Ledgers
<1>. HIDE DEF M
<1>3. M.status[s] = "burned" /\ \A q \in Seqs \ {s} : M.status[q] = L.status[q]
  BY <1>0, <1>1, <1>2
<1>4. \A q \in Seqs, p \in Orders : Tracked(L, q, p) => Tracked(M, q, p)
  BY <1>2, <1>3 DEF Tracked
<1>5. \A q \in Seqs : q \in L.free \/ q >= L.next => q # s
  BY <1>0 DEF LedgerInv
<1>6. LedgerInv(M)
  BY <1>1, <1>2, <1>3, <1>4, <1>5 DEF LedgerInv
<1>7. Spares(L, M, o) /\ (Tracked(L, s, o) => SparesActive(L, M, o))
  BY <1>2, <1>3, <1>4 DEF Spares, SparesActive, OwnedActive, Tracked
<1>. QED  BY <1>2, <1>3, <1>4, <1>6, <1>7 DEF M

LEMMA ReleaseSpares ==
  ASSUME NEW L \in Ledgers, NEW o \in Orders, LedgerInv(L), NEW s, OwnedActive(L, s, o)
  PROVE  LET M == Released(L, s, o) IN
         /\ LedgerInv(M) /\ Spares(L, M, o) /\ SparesActive(L, M, o) /\ M.byOrder[o] = NoSeq
         /\ \A q \in Seqs : M.status[q] = "burned" => L.status[q] = "burned"
         /\ \A q \in Seqs \ {s} : M.status[q] = L.status[q] /\ M.owner[q] = L.owner[q]
<1>. DEFINE M == Released(L, s, o)
<1>1. /\ L.status \in [Seqs -> {"untracked", "active", "burned"}]
      /\ L.owner \in [Seqs -> Orders \cup {NoOrder}]
      /\ L.byOrder \in [Orders -> Seqs \cup {NoSeq}] /\ L.free \subseteq Seqs /\ L.next \in Int
  BY SeqAssumption DEF Ledgers
<1>2. /\ M.status = [L.status EXCEPT ![s] = "untracked"]
      /\ M.owner = [L.owner EXCEPT ![s] = NoOrder]
      /\ M.byOrder = [L.byOrder EXCEPT ![o] = NoSeq]
      /\ M.free = L.free \cup {s} /\ M.next = L.next
  BY DEF Released, Ledgers
<1>3. s \in Seqs /\ L.status[s] = "active" /\ L.owner[s] = o
  BY DEF OwnedActive
<1>. HIDE DEF M
<1>4. M.byOrder[o] = NoSeq /\ \A p \in Orders \ {o} : M.byOrder[p] = L.byOrder[p]
  BY <1>1, <1>2
<1>5. /\ M.status[s] = "untracked"
      /\ \A q \in Seqs \ {s} : M.status[q] = L.status[q] /\ M.owner[q] = L.owner[q]
  BY <1>1, <1>2, <1>3
<1>6. \A q \in Seqs, p \in Orders \ {o} : Tracked(L, q, p) => q # s /\ Tracked(M, q, p)
  BY <1>3, <1>5 DEF Tracked
<1>7. LedgerInv(M)
  <2>1. ASSUME NEW q \in Seqs, q \in M.free \/ q >= M.next PROVE M.status[q] = "untracked"
    BY <1>2, <1>5, <2>1 DEF LedgerInv
  <2>2. ASSUME NEW q \in M.free PROVE q < M.next
    <3>1. ~(s >= L.next)
      BY <1>3 DEF LedgerInv
    <3>. QED  BY <1>1, <1>2, <1>3, <3>1, SeqsAreInts DEF LedgerInv
  <2>3. ASSUME NEW p \in Orders, M.byOrder[p] # NoSeq PROVE Tracked(M, M.byOrder[p], p)
    <3>1. p # o /\ M.byOrder[p] = L.byOrder[p] /\ L.byOrder[p] \in Seqs
      BY <1>1, <1>4, <2>3
    <3>. QED  BY <1>6, <2>3, <3>1 DEF LedgerInv
  <2>. QED  BY <2>1, <2>2, <2>3 DEF LedgerInv
<1>8. Spares(L, M, o) /\ SparesActive(L, M, o)
  BY <1>3, <1>4, <1>5, <1>6 DEF Spares, SparesActive, OwnedActive
<1>9. \A q \in Seqs : M.status[q] = "burned" => L.status[q] = "burned"
  BY <1>5
<1>. QED  BY <1>4, <1>5, <1>7, <1>8, <1>9 DEF M

-----------------------------------------------------------------------------
(* The second layer: what the ledger says of an order's transactions.      *)

Landed(t) == t.res # "net"
Expired(t) == t.res = "net" /\ t.exp

Fresh == {<<"persistInFlight", "submitPay">>, <<"submitPay">>}
Again == {<<"persistInFlight", "submitReplacementSameSeq">>, <<"submitReplacementSameSeq">>}
Release == <<"releaseSeq", "releaseReservation", "fireCancel">>
Reallocate == <<"reallocateSeq", "persistInFlight", "submitPay">>
Over == {"ChargeReversed", "LossReview"}

\* A run that has given its sequence back and only ends the sale, and one that is bound to
\* find that its order has given it back.
Closing(r) ==
  r.st \in Over \/ r.todo \in {<<"releaseReservation", "fireCancel">>, <<"fireCancel">>}
Vain(r) ==
  \/ r.st \in {"UsdcPending", "UsdcDead"}
  \/ r.sub = "none" /\ r.todo \in Again \cup {Release}

\* The recorded transaction can never land.
Lapsed(w, T) == w.hash # 0 /\ Expired(T[w.hash])

\* The order has given its sequence back: its sale is being ended, or a crash came in
\* between and its rows still name a transaction that can never land.
Returned(r, g, w, e, T, calm) ==
  /\ e.hash = 0
  /\ calm => Lapsed(w, T)
  /\ \/ On(r) /\ Closing(r)
     \/ ~On(r) /\ g.st \in Over
     \/ Lapsed(w, T) /\ (On(r) => Vain(r))

\* Up to the first fault an order in flight has a ledger record, or gave it back.
RecordInv(r, g, w, e, T, L, o, faults) ==
  /\ On(r) /\ r.todo = <<"persistInFlight", "submitPay">> => r.ctx.seq = L.byOrder[o]
  /\ faults <= 1 /\ w.st = "UsdcSubmitted" =>
       Tracked(L, w.seq, o) \/ Returned(r, g, w, e, T, faults = 0)
  /\ faults = 0 /\ On(r) /\ (r.st = "UsdcDead" \/ r.todo = Release) => Lapsed(w, T)

Recorded(o) == RecordInv(run[o], reg[o], row[o], evid[o], txs[o], ledger, o, spent.faults)

TrackInv == LedgerInv(ledger) /\ \A o \in Orders : Recorded(o)

LEMMA StepIs ==
  ASSUME Shape, NEW o \in Orders, NEW r, Step(o, r)
  PROVE  run'[o] = r
  BY DEF Step, Shape

LEMMA ToIs ==
  ASSUME NEW r \in RunType, NEW st, NEW todo
  PROVE  /\ To(r, st, todo).by = r.by /\ To(r, st, todo).ctx = r.ctx
         /\ To(r, st, todo).st = st /\ To(r, st, todo).todo = todo
         /\ To(r, st, todo).sub = "none"
  BY DEF To, RunType

LEMMA DoneIs ==
  ASSUME NEW r \in RunType
  PROVE  LET n == Done(r, "none") IN
         n.by = r.by /\ n.ctx = r.ctx /\ n.st = r.st /\ n.todo = Tail(r.todo) /\ n.sub = "none"
  BY DEF Done, RunType

-----------------------------------------------------------------------------
(* What becomes of a run.                                                  *)

LEMMA FireSolvencyCheckRuns ==
  ASSUME Shape, NEW o \in Orders, OrderInv(o), FireSolvencyCheck(o)
  PROVE  LET r == run[o]  n == run'[o] IN
         /\ On(r) /\ r.sub = "none" /\ r.st = "Reserved" /\ r.todo = <<"fireSolvencyCheck">>
         /\ On(n) /\ n.sub = "none" /\ n.ctx = r.ctx
         /\ \/ /\ n.st = "SolvencyReserved" /\ n.todo = <<"fireCheckoutForm">>
               /\ resv'[o] # "none"
            \/ n.st = "FailedClean" /\ n.todo = <<>>
<1>1. /\ On(run[o]) /\ run[o].sub = "none" /\ run[o].st = "Reserved"
      /\ run[o].todo = <<"fireSolvencyCheck">>
  BY Position DEF FireSolvencyCheck
<1>2. PICK n : /\ \/ n = To(run[o], "SolvencyReserved", <<"fireCheckoutForm">>) /\ resv'[o] # "none"
                  \/ n = To(run[o], "FailedClean", <<>>)
               /\ Step(o, n)
  BY <1>1, FromReserved DEF FireSolvencyCheck, Done, Shape
<1>. QED  BY <1>1, <1>2, ShapeOf, StepIs, ToIs DEF On

LEMMA FireCheckoutFormRuns ==
  ASSUME Shape, NEW o \in Orders, OrderInv(o), FireCheckoutForm(o)
  PROVE  LET r == run[o]  n == run'[o] IN
         /\ On(r) /\ r.sub = "none" /\ r.st = "SolvencyReserved" /\ r.todo = <<"fireCheckoutForm">>
         /\ On(n) /\ n.sub = "none"
         /\ \/ n.st = "SolvencyReserved" /\ n.todo = <<>>
            \/ n.st = "FailedClean" /\ n.todo = <<"releaseReservation">>
<1>1. /\ On(run[o]) /\ run[o].sub = "none" /\ run[o].st = "SolvencyReserved"
      /\ run[o].todo = <<"fireCheckoutForm">> /\ run[o] \in RunType
  BY Position, ShapeOf DEF FireCheckoutForm
<1>2. CASE Step(o, [Done(run[o], "none") EXCEPT !.ctx.tok = TRUE])
  <2>. DEFINE d == Done(run[o], "none")
              n == [d EXCEPT !.ctx.tok = TRUE]
  <2>1. d.by = run[o].by /\ d.st = "SolvencyReserved" /\ d.todo = <<>> /\ d.sub = "none"
    BY <1>1, DoneIs, BatchTails
  <2>2. n.by = d.by /\ n.st = d.st /\ n.todo = d.todo /\ n.sub = d.sub
    BY <1>1 DEF Done, RunType, Ctxs
  <2>3. run'[o] = n
    BY <1>2, StepIs
  <2>. QED  BY <1>1, <2>1, <2>2, <2>3 DEF On
<1>3. CASE Step(o, Done(run[o], "checkoutInitFailed"))
  <2>1. Step(o, To(run[o], "FailedClean", <<"releaseReservation">>))
    BY <1>1, <1>3, FromSolvencyReserved DEF Done
  <2>. QED  BY <1>1, <2>1, StepIs, ToIs DEF On
<1>. QED  BY <1>2, <1>3 DEF FireCheckoutForm

LEMMA SequenceRuns ==
  ASSUME Shape, NEW o \in Orders, OrderInv(o), NEW q,
         run[o].todo \in {<<"allocateSeq", "persistInFlight", "submitPay">>, Reallocate},
         Step(o, [Done(run[o], "none") EXCEPT !.ctx.seq = q])
  PROVE  LET n == run'[o] IN
         /\ n.by = run[o].by /\ n.st = run[o].st /\ n.sub = "none"
         /\ n.todo = <<"persistInFlight", "submitPay">> /\ n.ctx.seq = q
<1>. DEFINE d == Done(run[o], "none")
            n == [d EXCEPT !.ctx.seq = q]
<1>1. /\ d.by = run[o].by /\ d.st = run[o].st /\ d.sub = "none"
      /\ d.todo = <<"persistInFlight", "submitPay">>
  BY ShapeOf, DoneIs, BatchTails DEF Reallocate
<1>2. n.by = d.by /\ n.st = d.st /\ n.todo = d.todo /\ n.sub = d.sub /\ n.ctx.seq = q
  BY ShapeOf DEF Done, RunType, Ctxs
<1>. QED  BY <1>1, <1>2, StepIs

LEMMA AllocateSeqRuns ==
  ASSUME Shape, NEW o \in Orders, OrderInv(o), AllocateSeq(o)
  PROVE  LET r == run[o]  n == run'[o] IN
         /\ On(r) /\ r.sub = "none" /\ r.st = "UsdcSubmitted"
         /\ r.todo = <<"allocateSeq", "persistInFlight", "submitPay">>
         /\ On(n) /\ n.sub = "none" /\ n.st = "UsdcSubmitted"
         /\ n.todo = <<"persistInFlight", "submitPay">> /\ n.ctx.seq = ledger'.byOrder[o]
<1>1. /\ On(run[o]) /\ run[o].sub = "none" /\ run[o].st = "UsdcSubmitted"
      /\ run[o].todo = <<"allocateSeq", "persistInFlight", "submitPay">>
  BY Position DEF AllocateSeq
<1>2. Step(o, [Done(run[o], "none") EXCEPT !.ctx.seq = ledger'.byOrder[o]])
  BY DEF AllocateSeq
<1>3. run[o].todo \in {<<"allocateSeq", "persistInFlight", "submitPay">>, Reallocate}
  BY <1>1
<1>4. /\ run'[o].by = run[o].by /\ run'[o].st = run[o].st /\ run'[o].sub = "none"
      /\ run'[o].todo = <<"persistInFlight", "submitPay">>
      /\ run'[o].ctx.seq = ledger'.byOrder[o]
  BY <1>2, <1>3, SequenceRuns
<1>. QED  BY <1>1, <1>4 DEF On

LEMMA ReallocateSeqRuns ==
  ASSUME Shape, NEW o \in Orders, OrderInv(o), ReallocateSeq(o)
  PROVE  LET r == run[o]  n == run'[o] IN
         /\ On(r) /\ r.sub = "none" /\ r.st = "UsdcSubmitted" /\ r.todo = Reallocate
         /\ On(n) /\ n.sub = "none" /\ n.st = "UsdcSubmitted"
         /\ n.todo = <<"persistInFlight", "submitPay">> /\ n.ctx.seq = ledger'.byOrder[o]
<1>1. /\ On(run[o]) /\ run[o].sub = "none" /\ run[o].st = "UsdcSubmitted"
      /\ run[o].todo = Reallocate
  BY Position DEF ReallocateSeq, Reallocate
<1>2. Step(o, [Done(run[o], "none") EXCEPT !.ctx.seq = ledger'.byOrder[o]])
  BY DEF ReallocateSeq
<1>. QED  BY <1>1, <1>2, SequenceRuns DEF On

\* persistInFlight: the row now carries the run's sequence, and the hash it had.
LEMMA PersistInFlightRuns ==
  ASSUME Shape, NEW o \in Orders, OrderInv(o), PersistInFlight(o)
  PROVE  LET r == run[o]  n == run'[o] IN
         /\ On(r) /\ r.sub = "none" /\ r.st = "UsdcSubmitted"
         /\ On(n) /\ n.sub = "none" /\ n.st = "UsdcSubmitted" /\ n.ctx = r.ctx
         /\ \/ r.todo = <<"persistInFlight", "submitPay">> /\ n.todo = <<"submitPay">>
            \/ /\ r.todo = <<"persistInFlight", "submitReplacementSameSeq">>
               /\ n.todo = <<"submitReplacementSameSeq">> /\ r.ctx.seq = row[o].seq
         /\ r.ctx.seq \in Seqs /\ row'[o].seq = r.ctx.seq /\ row'[o].hash = row[o].hash
         /\ row'[o].st = "UsdcSubmitted"
         /\ row[o].st # "UsdcSubmitted" => r.todo = <<"persistInFlight", "submitPay">>
<1>1. /\ On(run[o]) /\ run[o].sub = "none" /\ run[o].st = "UsdcSubmitted"
      /\ run[o].todo \in {<<"persistInFlight", "submitPay">>,
                          <<"persistInFlight", "submitReplacementSameSeq">>}
      /\ run[o] \in RunType /\ row[o] \in RowType
  BY Position, ShapeOf DEF PersistInFlight
<1>. DEFINE d == Done(run[o], "none")
            w == Patched(o, run[o].st, run[o].ctx)
<1>2. run'[o] = d /\ row'[o] = w
  BY StepIs DEF PersistInFlight, Shape
<1>3. d.by = run[o].by /\ d.st = run[o].st /\ d.ctx = run[o].ctx /\ d.sub = "none"
      /\ d.todo = Tail(run[o].todo)
  BY <1>1, DoneIs
<1>4. /\ run[o].ctx.hash = row[o].hash /\ run[o].ctx.seq \in Seqs
      /\ row[o].st # "UsdcSubmitted" => run[o].todo = <<"persistInFlight", "submitPay">>
      /\ run[o].todo = <<"persistInFlight", "submitReplacementSameSeq">> =>
           run[o].ctx.seq = row[o].seq
  <2>1. CASE row[o].st = "UsdcSubmitted"
    BY <1>1, <2>1 DEF OrderInv, Good, WitnessInv, FlightInv
  <2>2. CASE row[o].st # "UsdcSubmitted"
    BY <1>1, <2>2 DEF OrderInv, Good, WitnessInv, EarlyInv
  <2>. QED  BY <2>1, <2>2
<1>5. w.st = "UsdcSubmitted" /\ w.seq = run[o].ctx.seq /\ w.hash = row[o].hash
  BY <1>1, <1>4, NoSeqOutside DEF Patched
<1>. HIDE DEF d, w
<1>6. CASE run[o].todo = <<"persistInFlight", "submitPay">>
  <2>1. d.todo = <<"submitPay">>
    BY <1>3, <1>6, BatchTails
  <2>. QED  BY <1>1, <1>2, <1>3, <1>4, <1>5, <1>6, <2>1 DEF On
<1>7. CASE run[o].todo = <<"persistInFlight", "submitReplacementSameSeq">>
  <2>1. d.todo = <<"submitReplacementSameSeq">>
    BY <1>3, <1>7, BatchTails
  <2>. QED  BY <1>1, <1>2, <1>3, <1>4, <1>5, <1>7, <2>1 DEF On
<1>. QED  BY <1>1, <1>6, <1>7

LEMMA SubmitPayRuns ==
  ASSUME Shape, NEW o \in Orders, OrderInv(o), SubmitPay(o)
  PROVE  LET r == run[o]  n == run'[o] IN
         /\ On(r) /\ r.sub = "none" /\ r.st = "UsdcSubmitted" /\ r.todo \in Submits
         /\ On(n) /\ n.sub = "sent" /\ n.st = "UsdcSubmitted" /\ n.todo = r.todo /\ n.ctx = r.ctx
         /\ row[o].st = "UsdcSubmitted" /\ row[o].seq \in Seqs /\ r.ctx.seq = row[o].seq
         /\ r.todo = <<"submitReplacementSameSeq">> => OwnedActive(ledger, r.ctx.seq, o)
<1>1. /\ On(run[o]) /\ run[o].sub = "none" /\ run[o].st = "UsdcSubmitted"
      /\ run[o].todo \in Submits /\ run[o] \in RunType
  BY Position, ShapeOf DEF SubmitPay, Submitting
<1>2. run'[o] = [run[o] EXCEPT !.sub = "sent"]
  BY StepIs DEF SubmitPay
<1>3. row[o].st = "UsdcSubmitted" /\ row[o].seq \in Seqs /\ run[o].ctx.seq = row[o].seq
  BY <1>1 DEF OrderInv, Good, EarlyInv, FlightInv, WitnessInv, Submits
<1>5. run[o].todo = <<"submitReplacementSameSeq">> => OwnedActive(ledger, run[o].ctx.seq, o)
  <2>1. run[o].todo = <<"submitReplacementSameSeq">> => Doing(o, "submitReplacementSameSeq")
    BY <1>1 DEF Doing, On
  <2>. QED  BY <2>1 DEF SubmitPay, SeqStillOurs
<1>6. /\ run'[o].by = run[o].by /\ run'[o].sub = "sent" /\ run'[o].st = run[o].st
      /\ run'[o].todo = run[o].todo /\ run'[o].ctx = run[o].ctx
  BY <1>1, <1>2 DEF RunType
<1>. QED  BY <1>1, <1>3, <1>5, <1>6 DEF On

LEMMA RecordHashRuns ==
  ASSUME Shape, NEW o \in Orders, OrderInv(o), RecordHash(o)
  PROVE  LET r == run[o]  n == run'[o] IN
         /\ On(r) /\ r.sub = "sent" /\ r.st = "UsdcSubmitted" /\ r.todo \in Submits
         /\ On(n) /\ n.sub = "recorded" /\ n.st = "UsdcSubmitted" /\ n.todo = r.todo
         /\ n.ctx = r.ctx
         /\ row[o].st = "UsdcSubmitted" /\ row'[o].st = "UsdcSubmitted"
         /\ row'[o].seq = row[o].seq /\ row'[o].hash = Len(txs[o]) /\ Len(txs[o]) # 0
         /\ txs[o][Len(txs[o])].seq = row[o].seq
<1>1. /\ On(run[o]) /\ run[o].sub = "sent" /\ run[o].st = "UsdcSubmitted"
      /\ run[o].todo \in Submits /\ run[o] \in RunType
  BY Position, ShapeOf DEF RecordHash, Submitting
<1>. DEFINE c == [run[o].ctx EXCEPT !.hash = Len(txs[o])]
<1>2. run'[o] = [run[o] EXCEPT !.sub = "recorded"] /\ row'[o] = Patched(o, run[o].st, c)
  BY StepIs DEF RecordHash, Shape
<1>3. /\ row[o].st = "UsdcSubmitted" /\ row[o].seq \in Seqs /\ run[o].ctx.seq = row[o].seq
      /\ Len(txs[o]) # 0 /\ txs[o][Len(txs[o])].seq = row[o].seq
  BY <1>1, ShapeOf DEF OrderInv, Good, EarlyInv, FlightInv, WitnessInv, Submits
<1>4. c.hash = Len(txs[o]) /\ c.seq = row[o].seq
  BY <1>1, <1>3 DEF RunType, Ctxs
<1>5. /\ row'[o].st = run[o].st /\ row'[o].seq = row[o].seq /\ row'[o].hash = Len(txs[o])
  <2>. HIDE DEF c
  <2>. QED  BY <1>2, <1>3, <1>4, NoSeqOutside DEF Patched
<1>6. /\ run'[o].by = run[o].by /\ run'[o].sub = "recorded" /\ run'[o].st = run[o].st
      /\ run'[o].todo = run[o].todo /\ run'[o].ctx = run[o].ctx
  BY <1>1, <1>2 DEF RunType
<1>. QED  BY <1>1, <1>3, <1>5, <1>6 DEF On

LEMMA ObserveSubmittedRuns ==
  ASSUME Shape, NEW o \in Orders, OrderInv(o), ObserveSubmitted(o)
  PROVE  LET r == run[o]  n == run'[o] IN
         /\ On(r) /\ r.sub = "recorded" /\ r.st = "UsdcSubmitted" /\ r.todo \in Submits
         /\ On(n) /\ n.sub = "none"
         /\ \/ n.st = "UsdcConfirmed" /\ n.todo = <<"handToReconciler">>
            \/ n.st = "UsdcReverted" /\ n.todo = <<"confirmBurnedSeq">>
            \/ n.st = "UsdcPending" /\ n.todo = <<"rePollObserveOnly">>
            \/ n.st = "UsdcSubmitted" /\ n.todo = <<"escalate">>
<1>. DEFINE h == Len(txs[o])
            d == [run[o] EXCEPT !.ctx.hash = h, !.ctx.maxT = h]
            event == CoreEvent(Verdict(o, h, d.ctx.seq, h), d.st)
<1>1. /\ On(run[o]) /\ run[o].sub = "recorded" /\ run[o].st = "UsdcSubmitted"
      /\ run[o].todo \in Submits /\ run[o] \in RunType
  BY Position, ShapeOf DEF ObserveSubmitted, Submitting
<1>0. h \in Nat
  BY ShapeOf
<1>2. d \in RunType /\ d.by = run[o].by /\ d.st = "UsdcSubmitted"
  BY <1>0, <1>1 DEF RunType, Ctxs
<1>3. event \in {"evidenceSuccess", "evidenceReverted", "evidencePending", "none"}
  BY <1>2, EventSubmitted
<1>4. Step(o, IF event = "none" THEN [d EXCEPT !.todo = <<"escalate">>, !.sub = "none"]
                                ELSE Done(d, event))
  BY DEF ObserveSubmitted
<1>. HIDE DEF d, event
<1>5. CASE event = "none"
  <2>1. run'[o] = [d EXCEPT !.todo = <<"escalate">>, !.sub = "none"]
    BY <1>4, <1>5, StepIs
  <2>. QED  BY <1>1, <1>2, <2>1 DEF RunType, On
<1>6. CASE event # "none"
  <2>1. PICK n : /\ \/ n = To(d, "UsdcConfirmed", <<"handToReconciler">>)
                    \/ n = To(d, "UsdcReverted", <<"confirmBurnedSeq">>)
                    \/ n = To(d, "UsdcPending", <<"rePollObserveOnly">>)
                 /\ Step(o, n)
    BY <1>2, <1>3, <1>4, <1>6, FromSubmitted DEF Done
  <2>. QED  BY <1>1, <1>2, <2>1, StepIs, ToIs DEF On
<1>. QED  BY <1>5, <1>6

LEMMA ConfirmBurnedSeqRuns ==
  ASSUME Shape, NEW o \in Orders, OrderInv(o), ConfirmBurnedSeq(o)
  PROVE  LET r == run[o]  n == run'[o] IN
         /\ On(r) /\ r.sub = "none" /\ r.st = "UsdcReverted" /\ r.todo = <<"confirmBurnedSeq">>
         /\ On(n) /\ n.sub = "burned" /\ n.st = "UsdcReverted" /\ n.todo = <<"confirmBurnedSeq">>
         /\ row[o].st = "UsdcSubmitted" /\ r.ctx.seq = row[o].seq
         /\ row[o].hash # 0 /\ Reverted(txs[o][row[o].hash])
<1>1. /\ On(run[o]) /\ run[o].sub = "none" /\ run[o].st = "UsdcReverted"
      /\ run[o].todo = <<"confirmBurnedSeq">> /\ run[o] \in RunType
  BY Position, ShapeOf DEF ConfirmBurnedSeq
<1>2. run'[o] = [run[o] EXCEPT !.sub = "burned"]
  BY StepIs DEF ConfirmBurnedSeq
<1>3. /\ row[o].st = "UsdcSubmitted" /\ run[o].ctx.seq = row[o].seq
      /\ row[o].hash # 0 /\ Reverted(txs[o][row[o].hash])
  BY <1>1 DEF OrderInv, Good, EarlyInv, WitnessInv
<1>4. /\ run'[o].by = run[o].by /\ run'[o].sub = "burned" /\ run'[o].st = run[o].st
      /\ run'[o].todo = run[o].todo
  BY <1>1, <1>2 DEF RunType
<1>. QED  BY <1>1, <1>3, <1>4 DEF On

LEMMA ReadRevertCauseRuns ==
  ASSUME Shape, NEW o \in Orders, OrderInv(o), ReadRevertCause(o)
  PROVE  LET r == run[o]  n == run'[o] IN
         /\ On(r) /\ r.sub = "burned" /\ r.st = "UsdcReverted" /\ r.todo = <<"confirmBurnedSeq">>
         /\ On(n) /\ n.sub = "none"
         /\ \/ n.st = "UsdcConfirmed" /\ n.todo = <<>>
            \/ n.st = "ChargeReversing" /\ n.todo = <<"releaseReservation", "fireCancel">>
            \/ n.st = "UsdcSubmitted" /\ n.todo = Reallocate
            \/ n.st = "LossReview" /\ n.todo = <<"flagLoss">>
<1>1. /\ On(run[o]) /\ run[o].sub = "burned" /\ run[o].st = "UsdcReverted"
      /\ run[o].todo = <<"confirmBurnedSeq">>
  BY Position DEF ReadRevertCause
<1>2. PICK n : /\ \/ n = To(run[o], "UsdcConfirmed", <<>>)
                  \/ n = To(run[o], "ChargeReversing", <<"releaseReservation", "fireCancel">>)
                  \/ n = To(run[o], "UsdcSubmitted", Reallocate)
                  \/ n = To(run[o], "LossReview", <<"flagLoss">>)
               /\ Step(o, n)
  BY <1>1, FromReverted DEF ReadRevertCause, Done, Reallocate
<1>. QED  BY <1>1, <1>2, ShapeOf, StepIs, ToIs DEF On

LEMMA ReleaseSeqRuns ==
  ASSUME Shape, NEW o \in Orders, OrderInv(o), ReleaseSeq(o)
  PROVE  LET r == run[o]  n == run'[o] IN
         /\ On(r) /\ r.sub = "none" /\ r.st = "ChargeReversing" /\ r.todo = Release
         /\ On(n) /\ n.sub = "none" /\ n.st = "ChargeReversing"
         /\ n.todo = <<"releaseReservation", "fireCancel">>
         /\ row[o].st = "UsdcSubmitted" /\ r.ctx.seq = row[o].seq /\ evid[o].hash = 0
<1>1. /\ On(run[o]) /\ run[o].sub = "none" /\ run[o].st = "ChargeReversing"
      /\ run[o].todo = Release /\ run[o] \in RunType
  BY Position, ShapeOf DEF ReleaseSeq, Release
<1>2. run'[o] = Done(run[o], "none")
  BY StepIs DEF ReleaseSeq
<1>3. row[o].st = "UsdcSubmitted" /\ run[o].ctx.seq = row[o].seq /\ evid[o].hash = 0
  BY <1>1 DEF OrderInv, Good, EarlyInv, WitnessInv, PaidInv, Release
<1>4. /\ run'[o].by = run[o].by /\ run'[o].st = run[o].st /\ run'[o].sub = "none"
      /\ run'[o].todo = <<"releaseReservation", "fireCancel">>
  BY <1>1, <1>2, DoneIs, BatchTails DEF Release
<1>. QED  BY <1>1, <1>3, <1>4 DEF On

LEMMA ReleaseReservationRuns ==
  ASSUME Shape, NEW o \in Orders, OrderInv(o), ReleaseReservation(o)
  PROVE  LET r == run[o]  n == run'[o] IN
         /\ On(r) /\ r.sub = "none" /\ On(n) /\ n.sub = "none" /\ n.st = r.st
         /\ \/ r.st = "FailedClean" /\ r.todo = <<"releaseReservation">> /\ n.todo = <<>>
            \/ /\ r.st = "ChargeReversing" /\ r.todo = <<"releaseReservation", "fireCancel">>
               /\ n.todo = <<"fireCancel">>
<1>1. /\ On(run[o]) /\ run[o].sub = "none" /\ run[o] \in RunType
      /\ \/ run[o].todo = <<"releaseReservation">> /\ run[o].st = "FailedClean"
         \/ run[o].todo = <<"releaseReservation", "fireCancel">> /\ run[o].st = "ChargeReversing"
  BY Position, ShapeOf DEF ReleaseReservation
<1>2. run'[o] = Done(run[o], "none")
  BY StepIs DEF ReleaseReservation
<1>3. /\ run'[o].by = run[o].by /\ run'[o].st = run[o].st /\ run'[o].sub = "none"
      /\ run'[o].todo = Tail(run[o].todo)
  BY <1>1, <1>2, DoneIs
<1>4. CASE run[o].todo = <<"releaseReservation">> /\ run[o].st = "FailedClean"
  <2>1. run'[o].todo = <<>>
    BY <1>3, <1>4, BatchTails
  <2>. QED  BY <1>1, <1>3, <1>4, <2>1 DEF On
<1>5. CASE run[o].todo = <<"releaseReservation", "fireCancel">> /\ run[o].st = "ChargeReversing"
  <2>1. run'[o].todo = <<"fireCancel">>
    BY <1>3, <1>5, BatchTails
  <2>. QED  BY <1>1, <1>3, <1>5, <2>1 DEF On
<1>. QED  BY <1>1, <1>4, <1>5

LEMMA FireCancelRuns ==
  ASSUME Shape, NEW o \in Orders, OrderInv(o), FireCancel(o)
  PROVE  LET r == run[o]  n == run'[o] IN
         /\ On(r) /\ r.sub = "none" /\ r.st = "ChargeReversing" /\ r.todo = <<"fireCancel">>
         /\ On(n) /\ n.sub = "none"
         /\ \/ n.st = "ChargeReversed" /\ n.todo = <<>>
            \/ n.st = "ChargeReversing" /\ n.todo = <<"fireCancel">>
            \/ n.st = "LossReview" /\ n.todo = <<"flagLoss">>
<1>1. /\ On(run[o]) /\ run[o].sub = "none" /\ run[o].st = "ChargeReversing"
      /\ run[o].todo = <<"fireCancel">>
  BY Position DEF FireCancel
<1>2. PICK n : /\ \/ n = To(run[o], "ChargeReversed", <<>>)
                  \/ n = To(run[o], "ChargeReversing", <<"fireCancel">>)
                  \/ n = To(run[o], "LossReview", <<"flagLoss">>)
               /\ Step(o, n)
  BY <1>1, FromReversing DEF FireCancel, Done
<1>. QED  BY <1>1, <1>2, ShapeOf, StepIs, ToIs DEF On

\* The effects that end a batch of one.
LEMMA LastEffectRuns ==
  ASSUME Shape, NEW o \in Orders, OrderInv(o),
         FlagLoss(o) \/ MarkSettled(o) \/ RePollObserveOnly(o)
  PROVE  LET r == run[o]  n == run'[o] IN
         /\ On(r) /\ On(n) /\ n.sub = "none" /\ n.st = r.st /\ n.todo = <<>>
         /\ \/ r.st = "LossReview" /\ r.todo = <<"flagLoss">>
            \/ r.st = "UsdcSubmitted" /\ r.todo = <<"escalate">>
            \/ r.st = "UsdcConfirmed" /\ r.todo = <<"handToReconciler">>
            \/ r.st \in {"SolvencyReserved", "UsdcPending"} /\ r.todo = <<"rePollObserveOnly">>
<1>1. /\ On(run[o]) /\ run[o] \in RunType
      /\ \/ run[o].st = "LossReview" /\ run[o].todo = <<"flagLoss">>
         \/ run[o].st = "UsdcSubmitted" /\ run[o].todo = <<"escalate">>
         \/ run[o].st = "UsdcConfirmed" /\ run[o].todo = <<"handToReconciler">>
         \/ /\ run[o].st \in {"SolvencyReserved", "UsdcPending"}
            /\ run[o].todo = <<"rePollObserveOnly">>
  BY Position, ShapeOf DEF FlagLoss, MarkSettled, RePollObserveOnly
<1>2. run'[o] = Done(run[o], "none")
  BY StepIs DEF FlagLoss, MarkSettled, RePollObserveOnly
<1>3. Tail(run[o].todo) = <<>>
  BY <1>1, BatchTails
<1>4. run'[o].by = run[o].by /\ run'[o].st = run[o].st /\ run'[o].sub = "none" /\ run'[o].todo = <<>>
  BY <1>1, <1>2, <1>3, DoneIs
<1>. QED  BY <1>1, <1>4 DEF On

LEMMA HandToReconcilerRuns ==
  ASSUME Shape, NEW o \in Orders, OrderInv(o), HandToReconciler(o)
  PROVE  LET r == run[o]  n == run'[o] IN
         /\ On(r) /\ r.sub = "none" /\ r.st = "UsdcConfirmed" /\ r.todo = <<"handToReconciler">>
         /\ On(n) /\ n.sub = "appended" /\ n.st = r.st /\ n.todo = r.todo
<1>1. /\ On(run[o]) /\ run[o].sub = "none" /\ run[o].st = "UsdcConfirmed"
      /\ run[o].todo = <<"handToReconciler">> /\ run[o] \in RunType
  BY Position, ShapeOf DEF HandToReconciler
<1>2. run'[o] = [run[o] EXCEPT !.sub = "appended"]
  BY StepIs DEF HandToReconciler
<1>3. /\ run'[o].by = run[o].by /\ run'[o].sub = "appended" /\ run'[o].st = run[o].st
      /\ run'[o].todo = run[o].todo
  BY <1>1, <1>2 DEF RunType
<1>. QED  BY <1>1, <1>3 DEF On

LEMMA DecideDeadRuns ==
  ASSUME Shape, NEW o \in Orders, OrderInv(o), DecideDead(o)
  PROVE  LET r == run[o]  n == run'[o] IN
         /\ On(r) /\ r.sub = "none" /\ r.st = "UsdcDead" /\ r.todo = <<>>
         /\ On(n) /\ n.sub = "none"
         /\ \/ /\ n.st = "UsdcSubmitted"
               /\ n.todo = <<"persistInFlight", "submitReplacementSameSeq">>
            \/ n.st = "ChargeReversing" /\ n.todo = Release
<1>1. On(run[o]) /\ run[o].sub = "none" /\ run[o].st = "UsdcDead" /\ run[o].todo = <<>>
  BY Finished DEF DecideDead
<1>2. PICK n : /\ \/ n = To(run[o], "UsdcSubmitted",
                            <<"persistInFlight", "submitReplacementSameSeq">>)
                  \/ n = To(run[o], "ChargeReversing", Release)
               /\ Step(o, n)
  BY <1>1, FromDead DEF DecideDead, Release
<1>. QED  BY <1>1, <1>2, ShapeOf, StepIs, ToIs DEF On

LEMMA QuiesceRuns ==
  ASSUME Shape, NEW o \in Orders, OrderInv(o), Quiesce(o)
  PROVE  LET r == run[o] IN
         /\ On(r) /\ r.sub = "none" /\ r.todo = <<>> /\ run'[o] = Off /\ reg'[o].st = r.st
         /\ r.st \in {"SolvencyReserved", "FailedClean", "UsdcSubmitted", "UsdcPending",
                      "UsdcConfirmed", "ChargeReversed", "LossReview"}
<1>1. On(run[o]) /\ run[o].todo = <<>> /\ run[o].sub = "none" /\ run[o].st # "UsdcDead"
  BY Finished DEF Quiesce
<1>2. run[o].st \in {"SolvencyReserved", "FailedClean", "UsdcSubmitted", "UsdcPending",
                     "UsdcConfirmed", "ChargeReversed", "LossReview"}
  BY <1>1, Finished DEF Quiesce, Walk
<1>3. run'[o] = Off /\ reg'[o].st = run[o].st
  BY StepIs DEF Quiesce, Shape
<1>. QED  BY <1>1, <1>2, <1>3

\* A charge event starts a run of an order that is not in flight.
LEMMA RetrieveChargeRuns ==
  ASSUME Shape, NEW o \in Orders, OrderInv(o), NEW by \in {"webhook", "poll"},
         Unlocked(o), RetrieveCharge(o, by)
  PROVE  LET n == run'[o] IN
         /\ run[o] = Off /\ row[o].st # "UsdcSubmitted" /\ reg[o].st = "SolvencyReserved"
         /\ On(n) /\ n.sub = "none"
         /\ \/ n.st = "UsdcSubmitted" /\ n.todo = <<"allocateSeq", "persistInFlight", "submitPay">>
            \/ n.st = "FailedClean" /\ n.todo = <<"releaseReservation">>
            \/ n.st = "SolvencyReserved" /\ n.todo = <<"rePollObserveOnly">>
<1>1. PICK read \in ChargeReads(sale[o]) :
        LET c == [EffectiveCtx(o) EXCEPT !.pid = @ \/ (read.pid /\ read.event # "chargeUnknown")]
        IN Step(o, Enter(NewRun(by, "SolvencyReserved", c), read.event))
  BY DEF RetrieveCharge
<1>. DEFINE c == [EffectiveCtx(o) EXCEPT !.pid = @ \/ (read.pid /\ read.event # "chargeUnknown")]
            d == NewRun(by, "SolvencyReserved", c)
<1>2. reg[o].st = "SolvencyReserved" /\ row[o].st # "UsdcSubmitted" /\ run[o] = Off
  BY DEF RetrieveCharge, EffectiveState, Unlocked, OrderInv, Good, WalkInv, On
<1>3. read.event \in {"chargeOk", "chargeRejected", "chargeUnknown"} /\ read.pid \in BOOLEAN
  BY ChargeReadSound
<1>4. c \in Ctxs
  BY <1>3, EffectiveCtxIs DEF Ctxs
<1>. HIDE DEF c
<1>5. d \in RunType /\ d.st = "SolvencyReserved" /\ On(d)
  BY <1>4, NewRunTyped DEF States
<1>. HIDE DEF d
<1>6. PICK n : /\ \/ n = To(d, "UsdcSubmitted", <<"allocateSeq", "persistInFlight", "submitPay">>)
                  \/ n = To(d, "FailedClean", <<"releaseReservation">>)
                  \/ n = To(d, "SolvencyReserved", <<"rePollObserveOnly">>)
               /\ Step(o, n)
  BY <1>1, <1>3, <1>5, FromSolvencyReserved DEF c, d
<1>. QED  BY <1>2, <1>5, <1>6, StepIs, ToIs DEF On

LEMMA PollResubmitRuns ==
  ASSUME Shape, NEW o \in Orders, OrderInv(o), PollResubmit(o)
  PROVE  LET n == run'[o] IN
         /\ run[o] = Off /\ row[o].st = "UsdcSubmitted" /\ row[o].hash = 0 /\ evid[o].hash = 0
         /\ reg[o].st \in {"SolvencyReserved", "UsdcSubmitted", "UsdcPending"}
         /\ On(n) /\ n.sub = "none" /\ n.st = "UsdcSubmitted"
         /\ n.todo = <<"persistInFlight", "submitReplacementSameSeq">>
<1>. DEFINE c == EffectiveCtx(o)
            d == NewRun("poll", "UsdcSubmitted", c)
<1>1. /\ row[o].st = "UsdcSubmitted" /\ evid[o].hash = 0
      /\ reg[o].st \in {"SolvencyReserved", "UsdcSubmitted", "UsdcPending"}
  BY InFlightRows DEF PollResubmit
<1>2. run[o] = Off
  BY DEF PollResubmit, PollTurn, Unlocked, OrderInv, Good, WalkInv, On
<1>3. c \in Ctxs /\ row[o].hash = 0
  BY EffectiveCtxIs DEF PollResubmit, NeverSent
<1>. HIDE DEF c
<1>4. d \in RunType /\ d.st = "UsdcSubmitted" /\ On(d)
  BY <1>3, NewRunTyped DEF States
<1>5. Step(o, To(d, "UsdcSubmitted", <<"persistInFlight", "submitReplacementSameSeq">>))
  <2>1. Step(o, Enter(d, "recoverResubmit"))
    BY DEF PollResubmit, c
  <2>. QED  BY <1>4, <2>1, FromSubmitted
<1>. HIDE DEF d
<1>. QED  BY <1>1, <1>2, <1>3, <1>4, <1>5, StepIs, ToIs DEF On

\* A poll of a recorded transaction: what the run it starts knows of that transaction.
LEMMA PollObserveRuns ==
  ASSUME Shape, NEW o \in Orders, OrderInv(o), PollObserve(o)
  PROVE  LET n == run'[o]  t == txs[o][row[o].hash] IN
         /\ run[o] = Off /\ row[o].st = "UsdcSubmitted" /\ evid[o].hash = 0
         /\ row[o].hash # 0 /\ row[o].hash \in DOMAIN txs[o]
         /\ reg[o].st \in {"SolvencyReserved", "UsdcSubmitted", "UsdcPending"}
         /\ \/ /\ On(n) /\ n.sub = "none" /\ UNCHANGED spent
               /\ \/ n.st = "UsdcConfirmed" /\ n.todo = <<"handToReconciler">> /\ t.res = "Ok"
                  \/ n.st = "UsdcReverted" /\ n.todo = <<"confirmBurnedSeq">> /\ Reverted(t)
                  \/ n.st = "UsdcPending" /\ n.todo = <<"rePollObserveOnly">>
                  \/ /\ n.st = "UsdcDead" /\ n.todo = <<>>
                     /\ t.res = "net" /\ txs[o][reg[o].ctx.maxT].exp
            \/ UNCHANGED run
<1>. DEFINE c == EffectiveCtx(o)
            h == row[o].hash
            st == EffectiveState(o)
            d == NewRun("poll", st, c)
            v == Verdict(o, c.hash, c.seq, c.maxT)
            event == CoreEvent(v, st)
<1>1. /\ row[o].st = "UsdcSubmitted" /\ evid[o].hash = 0 /\ row[o].seq \in Seqs
      /\ reg[o].st \in {"SolvencyReserved", "UsdcSubmitted", "UsdcPending"}
      /\ st \in {"UsdcSubmitted", "UsdcPending"}
  BY InFlightRows DEF PollObserve
<1>2. run[o] = Off
  BY DEF PollObserve, PollTurn, Unlocked, OrderInv, Good, WalkInv, On
<1>3. /\ c \in Ctxs /\ c.hash = h /\ c.seq = row[o].seq /\ c.maxT = reg[o].ctx.maxT
      /\ h # 0 /\ h \in DOMAIN txs[o]
  <2>1. c.hash # 0 /\ row[o].hash \in 0 .. Len(txs[o])
    BY DEF PollObserve, OrderInv, Good, WitnessInv
  <2>. QED  BY <1>1, <2>1, EffectiveCtxIs, ShapeOf DEF RowType
<1>4. \/ event # "none" /\ Step(o, Enter(d, event)) /\ UNCHANGED spent
      \/ UNCHANGED run
  BY DEF PollObserve
<1>5. /\ v = "LANDED_SUCCESS" => txs[o][h].res = "Ok"
      /\ v = "LANDED_REVERTED" => Reverted(txs[o][h])
      /\ v = "DEAD_REPLACEABLE" => txs[o][h].res = "net" /\ txs[o][c.maxT].exp
  <2>1. c.seq \in Int
    BY <1>1, <1>3, SeqsAreInts
  <2>. QED  BY <1>3, <2>1, VerdictSound
<1>6. /\ st = "UsdcSubmitted" =>
           event \in {"evidenceSuccess", "evidenceReverted", "evidencePending", "none"}
      /\ st = "UsdcPending" => event \in {"evidenceSuccess", "evidenceReverted",
                                         "pollStillPending", "pollDead", "none"}
      /\ event = "evidenceSuccess" => v = "LANDED_SUCCESS"
      /\ event = "evidenceReverted" => v = "LANDED_REVERTED"
      /\ event = "pollDead" => v = "DEAD_REPLACEABLE"
  <2>. HIDE DEF v, st
  <2>1. CASE st = "UsdcSubmitted"
    BY <2>1, EventSubmitted
  <2>2. CASE st = "UsdcPending"
    BY <2>2, EventPending
  <2>. QED  BY <1>1, <2>1, <2>2
<1>7. d \in RunType /\ d.st = st /\ d.ctx = c /\ On(d)
  <2>1. st \in States
    BY <1>1 DEF States
  <2>. QED  BY <1>3, <2>1, NewRunTyped
<1>. HIDE DEF v, d, c, event, st
<1>8. CASE event # "none" /\ Step(o, Enter(d, event)) /\ UNCHANGED spent
  <2>1. PICK r : /\ \/ /\ r = To(d, "UsdcConfirmed", <<"handToReconciler">>)
                       /\ txs[o][h].res = "Ok"
                    \/ /\ r = To(d, "UsdcReverted", <<"confirmBurnedSeq">>)
                       /\ Reverted(txs[o][h])
                    \/ r = To(d, "UsdcPending", <<"rePollObserveOnly">>)
                    \/ /\ r = To(d, "UsdcDead", <<>>)
                       /\ txs[o][h].res = "net" /\ txs[o][c.maxT].exp
                 /\ Step(o, r)
    <3>1. CASE st = "UsdcSubmitted"
      BY <1>5, <1>6, <1>7, <1>8, <3>1, FromSubmitted
    <3>2. CASE st = "UsdcPending"
      BY <1>5, <1>6, <1>7, <1>8, <3>2, FromPending
    <3>. QED  BY <1>1, <3>1, <3>2
  <2>2. run'[o] = r
    BY <2>1, StepIs
  <2>. QED  BY <1>1, <1>2, <1>3, <1>7, <1>8, <2>1, <2>2, ToIs DEF On
<1>. QED  BY <1>1, <1>2, <1>3, <1>4, <1>8

LEMMA EffectThrowsRuns ==
  ASSUME Shape, NEW o \in Orders, OrderInv(o), EffectThrows(o)
  PROVE  LET r == run[o] IN
         /\ On(r) /\ r.sub = "none" /\ run'[o] = Off
         /\ \/ r.todo \in Submits /\ r.st = "UsdcSubmitted"
            \/ r.todo = <<"confirmBurnedSeq">> /\ r.st = "UsdcReverted"
            \/ r.todo = Release /\ r.st = "ChargeReversing"
            \/ r.todo = Reallocate /\ r.st = "UsdcSubmitted"
<1>1. run'[o] = Off
  BY StepIs DEF EffectThrows
<1>2. /\ On(run[o]) /\ run[o].sub = "none"
      /\ \/ run[o].todo \in Submits /\ run[o].st = "UsdcSubmitted"
         \/ run[o].todo = <<"confirmBurnedSeq">> /\ run[o].st = "UsdcReverted"
         \/ run[o].todo = Release /\ run[o].st = "ChargeReversing"
         \/ run[o].todo = Reallocate /\ run[o].st = "UsdcSubmitted"
  BY FlowSound, Position DEF EffectThrows, Refused, Submitting, Release, Reallocate
<1>. QED  BY <1>1, <1>2

LEMMA CallThrowsRuns ==
  ASSUME Shape, NEW o \in Orders, OrderInv(o), CallThrows(o)
  PROVE  LET r == run[o] IN
         /\ On(r) /\ run'[o] = Off /\ r.todo \in Submits /\ r.st = "UsdcSubmitted"
         /\ spent'.faults = spent.faults + 1
<1>1. run'[o] = Off
  BY StepIs DEF CallThrows
<1>2. On(run[o]) /\ run[o].todo \in Submits /\ run[o].st = "UsdcSubmitted"
  BY Position DEF CallThrows, Submitting
<1>. QED  BY <1>1, <1>2, SharedTyped DEF CallThrows

LEMMA IntentRuns ==
  ASSUME Shape, NEW o \in Orders, OrderInv(o), Intent(o)
  PROVE  LET n == run'[o] IN
         /\ run[o] = Off /\ reg[o].st = "none" /\ row[o].st = "none"
         /\ On(n) /\ n.sub = "none" /\ n.st = "Reserved" /\ n.todo = <<"fireSolvencyCheck">>
         /\ reg'[o].st = "Reserved" /\ row'[o].st = "Reserved"
         /\ row'[o].hash = row[o].hash /\ row'[o].seq = row[o].seq
<1>1. run[o] = Off /\ reg[o].st = "none" /\ row[o].st = "none"
  BY DEF Intent, Unlocked, OrderInv, Good, WalkInv, On
<1>2. run'[o] = [NewRun("intent", "Reserved", NoCtx) EXCEPT !.todo = <<"fireSolvencyCheck">>]
  BY StepIs DEF Intent
<1>3. reg'[o].st = "Reserved" /\ row'[o] = [row[o] EXCEPT !.st = "Reserved"]
  BY DEF Intent, Shape
<1>4. row[o] \in RowType
  BY ShapeOf
<1>. QED  BY <1>1, <1>2, <1>3, <1>4 DEF NewRun, On, RowType

LEMMA ReconcileRuns ==
  ASSUME Shape, NEW o \in Orders, OrderInv(o), Reconcile(o)
  PROVE  run[o] = Off /\ evid[o].hash # 0
  BY DEF Reconcile, Unlocked, OrderInv, Good, WalkInv, On

\* A step of order o keeps what the ledger records, of o and of the others.
Noted(o) ==
  /\ Recorded(o)' /\ LedgerInv(ledger') /\ Spares(ledger, ledger', o)
  /\ spent'.faults >= spent.faults

LEMMA SparesSame ==
  ASSUME NEW L, NEW o
  PROVE  Spares(L, L, o) /\ SparesActive(L, L, o)
  BY DEF Spares, SparesActive

LEMMA FaultsOf ==
  ASSUME Shape
  PROVE  spent.faults \in Nat /\ spent.faults >= spent.faults
  BY DEF Shape

\* A run that is not giving up: its sequence has a record.
LEMMA StillTracked ==
  ASSUME NEW o \in Orders, Recorded(o), spent.faults <= 1, row[o].st = "UsdcSubmitted",
         On(run[o]), ~Closing(run[o]), ~Vain(run[o])
  PROVE  Tracked(ledger, row[o].seq, o)
  BY DEF Recorded, RecordInv, Returned

LEMMA EarlyEffectsRecord ==
  ASSUME Shape, NEW o \in Orders, OrderInv(o), LedgerInv(ledger), Recorded(o),
         FireSolvencyCheck(o) \/ FireCheckoutForm(o)
  PROVE  Noted(o)
<1>1. UNCHANGED <<row, ledger, spent>>
  BY DEF FireSolvencyCheck, FireCheckoutForm, backend
<1>2. /\ On(run[o]) /\ run[o].st \in {"Reserved", "SolvencyReserved"}
      /\ run'[o].todo # <<"persistInFlight", "submitPay">> /\ run'[o].todo # Release
      /\ run'[o].st # "UsdcDead"
  <2>1. CASE FireSolvencyCheck(o)
    BY <2>1, FireSolvencyCheckRuns DEF Release
  <2>2. CASE FireCheckoutForm(o)
    BY <2>2, FireCheckoutFormRuns DEF Release
  <2>. QED  BY <2>1, <2>2
<1>3. row[o].st # "UsdcSubmitted"
  BY <1>2 DEF OrderInv, Good, FlightInv
<1>. QED  BY <1>1, <1>2, <1>3, SparesSame, FaultsOf DEF Noted, Recorded, RecordInv

LEMMA AllocateSeqRecords ==
  ASSUME Shape, NEW o \in Orders, OrderInv(o), LedgerInv(ledger), Recorded(o), AllocateSeq(o)
  PROVE  Noted(o) /\ SparesActive(ledger, ledger', o)
<1>1. UNCHANGED <<row, spent>> /\ ledger' = Allocated(ledger, o) /\ MayAllocate(ledger, o)
  BY DEF AllocateSeq
<1>2. row[o].st # "UsdcSubmitted"
  BY AllocateSeqRuns DEF OrderInv, Good, FlightInv
<1>3. LedgerInv(ledger') /\ Spares(ledger, ledger', o) /\ SparesActive(ledger, ledger', o)
  BY <1>1, GrantAdds, SparesSame, SharedTyped DEF Allocated, MayAllocate
<1>4. Recorded(o)'
  BY <1>1, <1>2, AllocateSeqRuns DEF Recorded, RecordInv, Release
<1>. QED  BY <1>1, <1>3, <1>4, FaultsOf DEF Noted

LEMMA ReallocateSeqRecords ==
  ASSUME Shape, NEW o \in Orders, OrderInv(o), LedgerInv(ledger), Recorded(o), ReallocateSeq(o)
  PROVE  Noted(o) /\ SparesActive(ledger, ledger', o)
<1>1. /\ UNCHANGED <<row, spent>> /\ ledger' = Granted(ledger, o) /\ CanTake(ledger)
      /\ ledger \in Ledgers
  BY SharedTyped DEF ReallocateSeq, Reallocated, MayReallocate
<1>2. /\ LedgerInv(ledger') /\ Spares(ledger, ledger', o) /\ SparesActive(ledger, ledger', o)
      /\ \A q \in Seqs : Tracked(ledger, q, o) => Tracked(ledger', q, o)
  <2>. DEFINE M == Granted(ledger, o)
  <2>1. /\ LedgerInv(M) /\ Spares(ledger, M, o) /\ SparesActive(ledger, M, o)
        /\ \A q \in Seqs : Tracked(ledger, q, o) => Tracked(M, q, o)
    BY <1>1, GrantAdds
  <2>. QED  BY <1>1, <2>1
<1>3. On(run[o]) /\ ~Closing(run[o]) /\ ~Vain(run[o])
  BY ReallocateSeqRuns DEF Closing, Vain, Over, Reallocate, Release, Again
<1>4. row[o].st = "UsdcSubmitted" => row[o].seq \in Seqs
  BY DEF OrderInv, Good, FlightInv
<1>5. Recorded(o)'
  BY <1>1, <1>2, <1>3, <1>4, StillTracked, ReallocateSeqRuns DEF Recorded, RecordInv, Release
<1>. QED  BY <1>1, <1>2, <1>5, FaultsOf DEF Noted

LEMMA PersistInFlightRecords ==
  ASSUME Shape, NEW o \in Orders, OrderInv(o), LedgerInv(ledger), Recorded(o), PersistInFlight(o)
  PROVE  Noted(o)
<1>1. UNCHANGED <<reg, evid, txs, ledger, spent>>
  BY DEF PersistInFlight, chain
<1>2. CASE run[o].todo = <<"persistInFlight", "submitPay">> /\ run'[o].todo = <<"submitPay">>
  <2>1. run[o].ctx.seq = ledger.byOrder[o] /\ row'[o].seq = ledger.byOrder[o]
        /\ ledger.byOrder[o] \in Seqs
    BY <1>2, PersistInFlightRuns DEF Recorded, RecordInv
  <2>2. Tracked(ledger, row'[o].seq, o)
    BY <2>1, NoSeqOutside DEF LedgerInv
  <2>3. Recorded(o)'
    BY <1>1, <1>2, <2>2, PersistInFlightRuns DEF Recorded, RecordInv, Release
  <2>. QED  BY <1>1, <2>3, SparesSame, FaultsOf DEF Noted
<1>3. CASE run[o].todo = <<"persistInFlight", "submitReplacementSameSeq">>
  <2>1. /\ row[o].st = "UsdcSubmitted" /\ row'[o].seq = row[o].seq /\ row'[o].hash = row[o].hash
        /\ On(run[o]) /\ On(run'[o]) /\ run'[o].todo = <<"submitReplacementSameSeq">>
        /\ run[o].sub = "none" /\ run'[o].sub = "none" /\ run[o].st = "UsdcSubmitted"
        /\ run'[o].st = "UsdcSubmitted"
    BY <1>3, PersistInFlightRuns
  <2>2. ~Closing(run[o]) /\ Vain(run'[o])
    BY <1>3, <2>1 DEF Closing, Vain, Over, Again
  <2>3. Recorded(o)'
    BY <1>1, <2>1, <2>2 DEF Recorded, RecordInv, Returned, Lapsed, Release
  <2>. QED  BY <1>1, <2>3, SparesSame, FaultsOf DEF Noted
<1>. QED  BY <1>2, <1>3, PersistInFlightRuns

LEMMA SubmitPayRecords ==
  ASSUME Shape, NEW o \in Orders, OrderInv(o), LedgerInv(ledger), Recorded(o), SubmitPay(o)
  PROVE  Noted(o)
<1>1. UNCHANGED <<row, ledger, spent>>
  BY DEF SubmitPay, backend
<1>2. spent.faults <= 1 => Tracked(ledger, row[o].seq, o)
  <2>1. CASE run[o].todo = <<"submitPay">>
    BY <2>1, SubmitPayRuns, StillTracked DEF Closing, Vain, Over, Release, Again
  <2>2. CASE run[o].todo = <<"submitReplacementSameSeq">>
    BY <2>2, SubmitPayRuns DEF OwnedActive, Tracked
  <2>. QED  BY <2>1, <2>2, SubmitPayRuns DEF Submits
<1>3. /\ run'[o].todo # <<"persistInFlight", "submitPay">> /\ run'[o].todo # Release
      /\ run'[o].st # "UsdcDead"
  BY SubmitPayRuns DEF Submits, Release
<1>. QED  BY <1>1, <1>2, <1>3, SparesSame, FaultsOf DEF Noted, Recorded, RecordInv

LEMMA SentRecords ==
  ASSUME Shape, NEW o \in Orders, OrderInv(o), LedgerInv(ledger), Recorded(o),
         RecordHash(o) \/ ObserveSubmitted(o)
  PROVE  Noted(o)
<1>1. UNCHANGED <<ledger, spent>> /\ row'[o].seq = row[o].seq /\ row'[o].st = row[o].st
  <2>1. CASE RecordHash(o)
    BY <2>1, RecordHashRuns DEF RecordHash
  <2>2. CASE ObserveSubmitted(o)
    BY <2>2 DEF ObserveSubmitted, backend
  <2>. QED  BY <2>1, <2>2
<1>2. /\ On(run[o]) /\ ~Closing(run[o]) /\ ~Vain(run[o])
      /\ run'[o].todo # <<"persistInFlight", "submitPay">> /\ run'[o].todo # Release
      /\ run'[o].st # "UsdcDead"
  <2>1. CASE RecordHash(o)
    BY <2>1, RecordHashRuns DEF Closing, Vain, Over, Release, Again, Submits
  <2>2. CASE ObserveSubmitted(o)
    BY <2>2, ObserveSubmittedRuns DEF Closing, Vain, Over, Release, Again, Submits
  <2>. QED  BY <2>1, <2>2
<1>3. Recorded(o)'
  BY <1>1, <1>2, StillTracked DEF Recorded, RecordInv
<1>. QED  BY <1>1, <1>3, SparesSame, FaultsOf DEF Noted

LEMMA ConfirmBurnedSeqRecords ==
  ASSUME Shape, NEW o \in Orders, OrderInv(o), LedgerInv(ledger), Recorded(o), ConfirmBurnedSeq(o)
  PROVE  Noted(o)
<1>1. /\ UNCHANGED <<row, spent>> /\ ledger' = Burned(ledger, run[o].ctx.seq)
      /\ MayBurn(ledger, run[o].ctx.seq) /\ ledger \in Ledgers
  BY SharedTyped DEF ConfirmBurnedSeq
<1>2. /\ LedgerInv(ledger') /\ Spares(ledger, ledger', o)
      /\ \A q \in Seqs : Tracked(ledger, q, o) => Tracked(ledger', q, o)
  BY <1>1, BurnAdds
<1>3. On(run[o]) /\ ~Closing(run[o]) /\ ~Vain(run[o])
  BY ConfirmBurnedSeqRuns DEF Closing, Vain, Over, Release, Again
<1>4. row[o].st = "UsdcSubmitted" => row[o].seq \in Seqs
  BY DEF OrderInv, Good, FlightInv
<1>5. Recorded(o)'
  BY <1>1, <1>2, <1>3, <1>4, StillTracked, ConfirmBurnedSeqRuns DEF Recorded, RecordInv, Release
<1>. QED  BY <1>1, <1>2, <1>5, FaultsOf DEF Noted

LEMMA ReadRevertCauseRecords ==
  ASSUME Shape, NEW o \in Orders, OrderInv(o), LedgerInv(ledger), Recorded(o), ReadRevertCause(o)
  PROVE  Noted(o)
<1>1. UNCHANGED <<row, ledger>> /\ spent'.faults >= spent.faults
  <2>1. UNCHANGED <<row, ledger>> /\ (UNCHANGED spent \/ \E f \in {0, 1} : spent' = [spent EXCEPT !.faults = @ + f])
    BY DEF ReadRevertCause
  <2>. QED  BY <2>1, SharedTyped
<1>2. On(run[o]) /\ ~Closing(run[o]) /\ ~Vain(run[o])
  BY ReadRevertCauseRuns DEF Closing, Vain, Over, Release, Again
<1>3. /\ run'[o].todo # <<"persistInFlight", "submitPay">> /\ run'[o].todo # Release
      /\ run'[o].st # "UsdcDead"
  BY ReadRevertCauseRuns DEF Reallocate, Release
<1>4. spent'.faults <= 1 => spent.faults <= 1
  <2>1. spent.faults \in Nat /\ spent'.faults \in Nat
    BY ReadRevertCauseKeeps DEF Kept, Shape
  <2>. QED  BY <1>1, <2>1
<1>. QED  BY <1>1, <1>2, <1>3, <1>4, StillTracked, SparesSame DEF Noted, Recorded, RecordInv

LEMMA ReleaseSeqRecords ==
  ASSUME Shape, NEW o \in Orders, OrderInv(o), LedgerInv(ledger), Recorded(o), ReleaseSeq(o)
  PROVE  Noted(o) /\ SparesActive(ledger, ledger', o)
<1>1. /\ UNCHANGED <<reg, row, evid, txs, spent>> /\ ledger' = Released(ledger, run[o].ctx.seq, o)
      /\ OwnedActive(ledger, run[o].ctx.seq, o) /\ ledger \in Ledgers
  BY SharedTyped DEF ReleaseSeq, chain
<1>2. LedgerInv(ledger') /\ Spares(ledger, ledger', o) /\ SparesActive(ledger, ledger', o)
  BY <1>1, ReleaseSpares
<1>3. spent.faults = 0 => Lapsed(row[o], txs[o])
  BY ReleaseSeqRuns DEF Recorded, RecordInv
<1>4. Closing(run'[o]) /\ run'[o].todo # Release /\ run'[o].st # "UsdcDead"
      /\ run'[o].todo # <<"persistInFlight", "submitPay">> /\ On(run'[o]) /\ evid[o].hash = 0
  <2>1. /\ On(run'[o]) /\ run'[o].st = "ChargeReversing" /\ evid[o].hash = 0
        /\ run'[o].todo = <<"releaseReservation", "fireCancel">>
    BY ReleaseSeqRuns
  <2>. QED  BY <2>1 DEF Closing, Release
<1>5. Recorded(o)'
  BY <1>1, <1>3, <1>4 DEF Recorded, RecordInv, Returned
<1>. QED  BY <1>1, <1>2, <1>5, FaultsOf DEF Noted

LEMMA ReleaseReservationRecords ==
  ASSUME Shape, NEW o \in Orders, OrderInv(o), LedgerInv(ledger), Recorded(o), ReleaseReservation(o)
  PROVE  Noted(o)
<1>1. UNCHANGED <<reg, row, evid, txs, ledger, spent>>
  BY DEF ReleaseReservation, chain
<1>2. CASE run[o].st = "FailedClean" /\ run[o].todo = <<"releaseReservation">> /\ run'[o].todo = <<>>
           /\ run'[o].st = run[o].st
  <2>1. row[o].st # "UsdcSubmitted"
    BY <1>2 DEF OrderInv, Good, EarlyInv
  <2>. QED  BY <1>1, <1>2, <2>1, SparesSame, FaultsOf DEF Noted, Recorded, RecordInv, Release
<1>3. CASE /\ run[o].st = "ChargeReversing" /\ run[o].todo = <<"releaseReservation", "fireCancel">>
           /\ run'[o].st = run[o].st /\ run'[o].todo = <<"fireCancel">>
           /\ On(run[o]) /\ On(run'[o])
  <2>1. Closing(run'[o]) /\ ~Vain(run[o])
    BY <1>3 DEF Closing, Vain, Release, Again
  <2>2. Recorded(o)'
    BY <1>1, <1>3, <2>1 DEF Recorded, RecordInv, Returned, Release
  <2>. QED  BY <1>1, <2>2, SparesSame, FaultsOf DEF Noted
<1>. QED  BY <1>2, <1>3, ReleaseReservationRuns

LEMMA FireCancelRecords ==
  ASSUME Shape, NEW o \in Orders, OrderInv(o), LedgerInv(ledger), Recorded(o), FireCancel(o)
  PROVE  Noted(o)
<1>1. UNCHANGED <<reg, row, evid, txs, ledger, spent>>
  BY DEF FireCancel, chain
<1>2. Recorded(o)'
  BY <1>1, FireCancelRuns DEF Recorded, RecordInv, Returned, Closing, Vain, Over, Again, Release
<1>. QED  BY <1>1, <1>2, SparesSame, FaultsOf DEF Noted

LEMMA LastEffectRecords ==
  ASSUME Shape, NEW o \in Orders, OrderInv(o), LedgerInv(ledger), Recorded(o),
         FlagLoss(o) \/ MarkSettled(o) \/ RePollObserveOnly(o)
  PROVE  Noted(o)
<1>1. UNCHANGED <<reg, row, evid, txs, ledger, spent>>
  BY DEF FlagLoss, MarkSettled, RePollObserveOnly, backend, chain
<1>2. /\ run'[o].todo = <<>> /\ run'[o].st # "UsdcDead" /\ On(run[o]) /\ On(run'[o])
      /\ run[o].st = "SolvencyReserved" \/ ((Closing(run[o]) => Closing(run'[o]))
                                           /\ (Vain(run[o]) => Vain(run'[o])))
  BY LastEffectRuns DEF Closing, Vain, Over, Again, Release
<1>3. run[o].st = "SolvencyReserved" => row[o].st # "UsdcSubmitted"
  BY <1>2 DEF OrderInv, Good, FlightInv
<1>4. Recorded(o)'
  BY <1>1, <1>2, <1>3 DEF Recorded, RecordInv, Returned, Release
<1>. QED  BY <1>1, <1>4, SparesSame, FaultsOf DEF Noted

LEMMA HandToReconcilerRecords ==
  ASSUME Shape, NEW o \in Orders, OrderInv(o), LedgerInv(ledger), Recorded(o), HandToReconciler(o)
  PROVE  Noted(o)
<1>1. UNCHANGED <<reg, row, txs, ledger, spent>>
  BY DEF HandToReconciler, chain
<1>2. On(run[o]) /\ ~Closing(run[o]) /\ ~Vain(run[o])
  BY HandToReconcilerRuns DEF Closing, Vain, Over, Again, Release
<1>3. /\ run'[o].todo # <<"persistInFlight", "submitPay">> /\ run'[o].todo # Release
      /\ run'[o].st # "UsdcDead"
  BY HandToReconcilerRuns DEF Release
<1>. QED  BY <1>1, <1>2, <1>3, StillTracked, SparesSame, FaultsOf DEF Noted, Recorded, RecordInv

LEMMA DecideDeadRecords ==
  ASSUME Shape, NEW o \in Orders, OrderInv(o), LedgerInv(ledger), Recorded(o), DecideDead(o)
  PROVE  Noted(o)
<1>1. UNCHANGED <<reg, row, evid, txs, ledger, spent>>
  BY DEF DecideDead, chain
<1>2. On(run[o]) /\ ~Closing(run[o]) /\ On(run'[o]) /\ run[o].st = "UsdcDead"
  BY DecideDeadRuns DEF Closing, Over
<1>4. Vain(run'[o]) /\ run'[o].todo # <<"persistInFlight", "submitPay">>
  <2>1. /\ run'[o].sub = "none"
        /\ \/ run'[o].todo = <<"persistInFlight", "submitReplacementSameSeq">>
           \/ run'[o].todo = <<"releaseSeq", "releaseReservation", "fireCancel">>
    BY DecideDeadRuns DEF Release
  <2>. QED  BY <2>1 DEF Vain, Again, Release
<1>3. Recorded(o)'
  BY <1>1, <1>2, <1>4 DEF Recorded, RecordInv, Returned
<1>. QED  BY <1>1, <1>3, SparesSame, FaultsOf DEF Noted

\* A run that ends leaves the state it came to in the registry, or nothing at all.
LEMMA QuiesceRecords ==
  ASSUME Shape, NEW o \in Orders, OrderInv(o), LedgerInv(ledger), Recorded(o), Quiesce(o)
  PROVE  Noted(o)
<1>1. UNCHANGED <<row, evid, txs, ledger, spent>>
  BY DEF Quiesce, chain
<1>2. On(run[o]) /\ run'[o] = Off /\ ~On(Off) /\ (Closing(run[o]) => reg'[o].st \in Over)
  BY QuiesceRuns, OffTyped DEF Closing, Over
<1>3. Recorded(o)'
  BY <1>1, <1>2 DEF Recorded, RecordInv, Returned
<1>. QED  BY <1>1, <1>3, SparesSame, FaultsOf DEF Noted

LEMMA EffectThrowsRecords ==
  ASSUME Shape, NEW o \in Orders, OrderInv(o), LedgerInv(ledger), Recorded(o), EffectThrows(o)
  PROVE  Noted(o)
<1>1. UNCHANGED <<reg, row, evid, txs, ledger, spent>>
  BY DEF EffectThrows, chain, backend
<1>2. On(run[o]) /\ run'[o] = Off /\ ~On(Off) /\ ~Closing(run[o])
  BY EffectThrowsRuns, OffTyped DEF Closing, Over, Submits, Release, Reallocate
<1>3. Recorded(o)'
  BY <1>1, <1>2 DEF Recorded, RecordInv, Returned
<1>. QED  BY <1>1, <1>3, SparesSame, FaultsOf DEF Noted

LEMMA CallThrowsRecords ==
  ASSUME Shape, NEW o \in Orders, OrderInv(o), LedgerInv(ledger), Recorded(o), CallThrows(o)
  PROVE  Noted(o)
<1>1. UNCHANGED <<reg, row, evid, txs, ledger>>
  BY DEF CallThrows, chain, backend
<1>2. On(run[o]) /\ run'[o] = Off /\ ~On(Off) /\ ~Closing(run[o])
  BY CallThrowsRuns, OffTyped DEF Closing, Over, Submits
<1>3. /\ spent'.faults >= spent.faults /\ (spent'.faults <= 1 => spent.faults <= 1)
      /\ spent'.faults # 0
  BY CallThrowsRuns, FaultsOf
<1>4. Recorded(o)'
  BY <1>1, <1>2, <1>3 DEF Recorded, RecordInv, Returned
<1>. QED  BY <1>1, <1>3, <1>4, SparesSame DEF Noted

LEMMA RetrieveChargeRecords ==
  ASSUME Shape, NEW o \in Orders, OrderInv(o), LedgerInv(ledger), Recorded(o),
         NEW by \in {"webhook", "poll"}, Unlocked(o), RetrieveCharge(o, by)
  PROVE  Noted(o)
<1>1. UNCHANGED <<reg, row, evid, txs, ledger>> /\ spent'.faults >= spent.faults
  <2>1. /\ UNCHANGED <<reg, row, evid, txs, ledger>>
        /\ \E f \in {0, 1} : spent' = [spent EXCEPT !.faults = @ + f]
    BY DEF RetrieveCharge, chain, backend
  <2>. QED  BY <2>1, SharedTyped
<1>2. /\ row[o].st # "UsdcSubmitted" /\ run'[o].st # "UsdcDead" /\ run'[o].todo # Release
      /\ run'[o].todo # <<"persistInFlight", "submitPay">>
  BY RetrieveChargeRuns DEF Release
<1>. QED  BY <1>1, <1>2, SparesSame DEF Noted, Recorded, RecordInv

LEMMA PollResubmitRecords ==
  ASSUME Shape, NEW o \in Orders, OrderInv(o), LedgerInv(ledger), Recorded(o), PollResubmit(o)
  PROVE  Noted(o)
<1>1. UNCHANGED <<reg, row, evid, txs, ledger, spent>>
  BY DEF PollResubmit, chain, backend
<1>2. /\ ~On(run[o]) /\ row[o].hash = 0 /\ reg[o].st \notin Over
      /\ run'[o].st # "UsdcDead" /\ run'[o].todo # Release
      /\ run'[o].todo # <<"persistInFlight", "submitPay">>
  BY PollResubmitRuns, OffTyped DEF Release, Over
<1>3. Recorded(o)'
  BY <1>1, <1>2 DEF Recorded, RecordInv, Returned, Lapsed
<1>. QED  BY <1>1, <1>3, SparesSame, FaultsOf DEF Noted

\* An order that gave its sequence back finds its transaction pending or dead, and before
\* the first fault "dead" is said of the recorded transaction itself.
LEMMA PollObserveRecords ==
  ASSUME Shape, NEW o \in Orders, OrderInv(o), LedgerInv(ledger), Recorded(o), PollObserve(o)
  PROVE  Noted(o)
<1>1. UNCHANGED <<reg, row, evid, txs, ledger>> /\ spent'.faults >= spent.faults
  <2>1. /\ UNCHANGED <<reg, row, evid, txs, ledger>>
        /\ UNCHANGED spent \/ spent' = [spent EXCEPT !.faults = @ + 1]
    BY DEF PollObserve, chain
  <2>. QED  BY <2>1, SharedTyped
<1>2. /\ spent'.faults <= 1 => spent.faults <= 1
      /\ spent'.faults = 0 => spent.faults = 0
  <2>1. spent.faults \in Nat /\ spent'.faults \in Nat
    BY PollObserveKeeps DEF Kept, Shape
  <2>. QED  BY <1>1, <2>1
<1>3. CASE UNCHANGED run
  <2>1. Recorded(o)'
    BY <1>1, <1>2, <1>3 DEF Recorded, RecordInv, Returned
  <2>. QED  BY <1>1, <2>1, SparesSame DEF Noted
<1>4. CASE run' # run
  <2>. DEFINE t == txs[o][row[o].hash]
  <2>1. /\ ~On(run[o]) /\ On(run'[o]) /\ reg[o].st \notin Over /\ row[o].hash # 0
        /\ run'[o].todo # <<"persistInFlight", "submitPay">> /\ run'[o].todo # Release
        /\ t.res = "net" => Vain(run'[o])
        /\ run'[o].st = "UsdcDead" => t.res = "net" /\ txs[o][reg[o].ctx.maxT].exp
    <3>1. ~On(run[o]) /\ reg[o].st \notin Over /\ row[o].hash # 0
      BY PollObserveRuns, OffTyped DEF Over
    <3>2. /\ On(run'[o]) /\ run'[o].sub = "none"
          /\ \/ run'[o].st = "UsdcConfirmed" /\ run'[o].todo = <<"handToReconciler">> /\ t.res = "Ok"
             \/ /\ run'[o].st = "UsdcReverted" /\ run'[o].todo = <<"confirmBurnedSeq">>
                /\ Reverted(t)
             \/ run'[o].st = "UsdcPending" /\ run'[o].todo = <<"rePollObserveOnly">>
             \/ /\ run'[o].st = "UsdcDead" /\ run'[o].todo = <<>>
                /\ t.res = "net" /\ txs[o][reg[o].ctx.maxT].exp
      BY <1>4, PollObserveRuns
    <3>3. run'[o].todo # <<"persistInFlight", "submitPay">> /\ run'[o].todo # Release
      BY <3>2 DEF Release
    <3>4. /\ t.res = "net" => Vain(run'[o])
          /\ run'[o].st = "UsdcDead" => t.res = "net" /\ txs[o][reg[o].ctx.maxT].exp
      BY <3>2 DEF Vain, Reverted
    <3>. QED  BY <3>1, <3>2, <3>3, <3>4
  <2>2. spent.faults = 0 /\ run'[o].st = "UsdcDead" => Lapsed(row[o], txs[o])
    <3>. SUFFICES ASSUME spent.faults = 0, run'[o].st = "UsdcDead" PROVE Lapsed(row[o], txs[o])
      OBVIOUS
    <3>1. CalmInv(run[o], reg[o], row[o], sale[o], txs[o]) /\ run[o].sub = "none"
      BY PollObserveRuns, OffTyped DEF OrderInv, Good
    <3>2. Reverted(t) \/ reg[o].ctx.maxT = row[o].hash
      BY <2>1, <3>1 DEF CalmInv
    <3>. QED  BY <2>1, <3>2 DEF Lapsed, Expired, Reverted
  <2>3. Recorded(o)'
    BY <1>1, <1>2, <2>1, <2>2 DEF Recorded, RecordInv, Returned, Lapsed, Expired
  <2>. QED  BY <1>1, <2>3, SparesSame DEF Noted
<1>. QED  BY <1>3, <1>4

LEMMA IntentRecords ==
  ASSUME Shape, NEW o \in Orders, OrderInv(o), LedgerInv(ledger), Recorded(o), Intent(o)
  PROVE  Noted(o)
<1>1. UNCHANGED <<ledger, spent>>
  BY DEF Intent
<1>2. /\ row'[o].st # "UsdcSubmitted" /\ run'[o].st # "UsdcDead" /\ run'[o].todo # Release
      /\ run'[o].todo # <<"persistInFlight", "submitPay">>
  BY IntentRuns DEF Release
<1>. QED  BY <1>1, <1>2, SparesSame, FaultsOf DEF Noted, Recorded, RecordInv

LEMMA RestRecords ==
  ASSUME Shape, NEW o \in Orders, OrderInv(o), LedgerInv(ledger), Recorded(o),
         Reconcile(o) \/ PollQuarantine(o) \/ CustomerActs(o)
  PROVE  Noted(o)
<1>1. UNCHANGED <<run, row, evid, txs, ledger, spent>>
  BY DEF Reconcile, PollQuarantine, CustomerActs, backend, chain
<1>2. UNCHANGED reg \/ evid[o].hash # 0
  BY ReconcileRuns DEF PollQuarantine, CustomerActs, backend
<1>3. Recorded(o)'
  BY <1>1, <1>2 DEF Recorded, RecordInv, Returned
<1>. QED  BY <1>1, <1>3, SparesSame, FaultsOf DEF Noted

\* An inclusion: the account moves to the transaction's sequence, its result is decided and
\* the pool pays at most its order.
LEMMA LandMoves ==
  ASSUME Shape, NEW o \in Orders, NEW n \in DOMAIN txs[o], Land(o, n)
  PROVE  LET t == txs[o][n]  u == txs'[o][n] IN
         /\ UNCHANGED <<run, reg, row, resv, base, evid, ledger>>
         /\ t.res = "net" /\ ~t.exp /\ t.seq = acctSeq + 1 /\ acctSeq' = t.seq
         /\ u.seq = t.seq /\ ~u.exp /\ Landed(u)
         /\ Len(txs'[o]) = Len(txs[o]) /\ DOMAIN txs'[o] = DOMAIN txs[o]
         /\ \A m \in DOMAIN txs[o] \ {n} : txs'[o][m] = txs[o][m]
         /\ spent'.faults = spent.faults
         /\ pool'.paused = pool.paused
         /\ \/ pool' = pool
            \/ /\ o \notin pool.processed /\ pool'.processed = pool.processed \cup {o}
               /\ pool'.balance = pool.balance - 1
<1>. DEFINE T == txs[o]
<1>1. PICK receives \in BOOLEAN, result \in PayResults :
        /\ result = PayResult(TRUE, pool.paused, 1, o \in pool.processed, pool.balance, receives)
        /\ txs' = [txs EXCEPT ![o][n].res = result]
        /\ pool' = IF result = "Ok"
                   THEN [pool EXCEPT !.balance = @ - 1, !.processed = @ \cup {o}]
                   ELSE pool
  <2>1. \A receives \in BOOLEAN :
          PayResult(TRUE, pool.paused, 1, o \in pool.processed, pool.balance, receives) \in PayResults
    BY DEF PayResult, PayResults
  <2>. QED  BY <2>1 DEF Land
<1>2. T[n].res = "net" /\ ~T[n].exp /\ T[n].seq = acctSeq + 1 /\ acctSeq' = T[n].seq
      /\ UNCHANGED <<run, reg, row, resv, base, evid, ledger>>
  BY DEF Land, backend
<1>3. T \in Seq(TxType) /\ n \in DOMAIN T /\ T[n] \in TxType /\ result # "net"
  BY ShapeOf DEF PayResults
<1>. DEFINE x == [T[n] EXCEPT !.res = result]
            U == [T EXCEPT ![n] = x]
<1>4. x \in TxType /\ x.seq = T[n].seq /\ x.res = result /\ x.exp = T[n].exp
  BY <1>3 DEF TxType
<1>5. txs'[o] = U
  BY <1>1, <1>3 DEF Shape
<1>6. /\ Len(U) = Len(T) /\ DOMAIN U = DOMAIN T
      /\ U[n] = x /\ \A m \in DOMAIN T \ {n} : U[m] = T[m]
  <2>. HIDE DEF x, T
  <2>. QED  BY <1>3, <1>4, Replaced
<1>7. spent'.faults = spent.faults
  <2>1. PICK k \in {0, 1} : spent' = [spent EXCEPT !.traps = @ + k]
    BY DEF Land
  <2>. QED  BY <2>1, SharedTyped
<1>8. pool \in [balance : Int, processed : SUBSET Orders, paused : BOOLEAN]
  BY DEF Shape
<1>9. /\ pool'.paused = pool.paused
      /\ \/ pool' = pool
         \/ /\ o \notin pool.processed /\ pool'.processed = pool.processed \cup {o}
            /\ pool'.balance = pool.balance - 1
  <2>1. CASE result = "Ok"
    <3>1. o \notin pool.processed
      BY <1>1, <2>1 DEF PayResult
    <3>. QED  BY <1>1, <1>8, <2>1, <3>1
  <2>2. CASE result # "Ok"
    BY <1>1, <2>2
  <2>. QED  BY <2>1, <2>2
<1>. HIDE DEF x, U
<1>10. txs'[o][n].seq = T[n].seq /\ ~txs'[o][n].exp /\ Landed(txs'[o][n])
  BY <1>2, <1>3, <1>4, <1>5, <1>6 DEF Landed
<1>. QED  BY <1>2, <1>5, <1>6, <1>7, <1>9, <1>10

LEMMA ExpireMoves ==
  ASSUME Shape, NEW o \in Orders, NEW n \in DOMAIN txs[o], Expire(o, n)
  PROVE  LET t == txs[o][n]  u == txs'[o][n] IN
         /\ UNCHANGED <<run, reg, row, resv, base, evid, ledger, acctSeq, pool, spent>>
         /\ u.seq = t.seq /\ u.exp /\ u.res = t.res
         /\ Len(txs'[o]) = Len(txs[o]) /\ DOMAIN txs'[o] = DOMAIN txs[o]
         /\ \A m \in DOMAIN txs[o] \ {n} : txs'[o][m] = txs[o][m]
<1>. DEFINE T == txs[o]
            x == [T[n] EXCEPT !.exp = TRUE]
            U == [T EXCEPT ![n] = x]
<1>1. T \in Seq(TxType) /\ n \in DOMAIN T /\ T[n] \in TxType
  BY ShapeOf
<1>2. x \in TxType /\ x.seq = T[n].seq /\ x.res = T[n].res /\ x.exp
  BY <1>1 DEF TxType
<1>3. txs'[o] = U
  BY <1>1 DEF Expire, Shape
<1>4. /\ Len(U) = Len(T) /\ DOMAIN U = DOMAIN T
      /\ U[n] = x /\ \A m \in DOMAIN T \ {n} : U[m] = T[m]
  <2>. HIDE DEF x, T
  <2>. QED  BY <1>1, <1>2, Replaced
<1>5. UNCHANGED <<run, reg, row, resv, base, evid, ledger, acctSeq, pool, spent>>
  BY DEF Expire, backend
<1>. HIDE DEF x, U
<1>. QED  BY <1>2, <1>3, <1>4, <1>5

LEMMA ChainRecords ==
  ASSUME Shape, NEW o \in Orders, OrderInv(o), LedgerInv(ledger), Recorded(o),
         NEW n \in DOMAIN txs[o], Land(o, n) \/ Expire(o, n)
  PROVE  Noted(o)
<1>1. UNCHANGED <<run, reg, row, evid, ledger>> /\ spent'.faults = spent.faults
  BY LandMoves, ExpireMoves
<1>2. Lapsed(row[o], txs[o]) => Lapsed(row[o], txs'[o])
  <2>. SUFFICES ASSUME Lapsed(row[o], txs[o]) PROVE Lapsed(row[o], txs'[o])
    OBVIOUS
  <2>1. row[o].hash \in DOMAIN txs[o] /\ row[o].hash # 0 /\ Expired(txs[o][row[o].hash])
    BY ShapeOf DEF OrderInv, Good, WitnessInv, Lapsed
  <2>2. Expired(txs'[o][row[o].hash])
    <3>1. CASE Land(o, n)
      <4>1. row[o].hash # n
        BY <2>1, <3>1, LandMoves DEF Expired
      <4>. QED  BY <2>1, <3>1, <4>1, LandMoves
    <3>2. CASE Expire(o, n)
      BY <2>1, <3>2, ExpireMoves DEF Expired
    <3>. QED  BY <3>1, <3>2
  <2>. QED  BY <2>1, <2>2 DEF Lapsed
<1>3. Recorded(o)'
  BY <1>1, <1>2 DEF Recorded, RecordInv, Returned
<1>. QED  BY <1>1, <1>3, SparesSame, FaultsOf DEF Noted

LEMMA OrderStepRecords ==
  ASSUME Shape, NEW o \in Orders, OrderInv(o), LedgerInv(ledger), Recorded(o),
         Backend(o) \/ CallThrows(o) \/ Environment(o)
  PROVE  Noted(o)
<1>1. CASE Effects(o)
  <2>1. CASE FireSolvencyCheck(o) \/ FireCheckoutForm(o)
    BY <2>1, EarlyEffectsRecord
  <2>2. CASE AllocateSeq(o)
    BY <2>2, AllocateSeqRecords
  <2>3. CASE ReallocateSeq(o)
    BY <2>3, ReallocateSeqRecords
  <2>4. CASE PersistInFlight(o)
    BY <2>4, PersistInFlightRecords
  <2>5. CASE SubmitPay(o)
    BY <2>5, SubmitPayRecords
  <2>6. CASE RecordHash(o) \/ ObserveSubmitted(o)
    BY <2>6, SentRecords
  <2>7. CASE ConfirmBurnedSeq(o)
    BY <2>7, ConfirmBurnedSeqRecords
  <2>8. CASE ReadRevertCause(o)
    BY <2>8, ReadRevertCauseRecords
  <2>9. CASE ReleaseSeq(o)
    BY <2>9, ReleaseSeqRecords
  <2>10. CASE ReleaseReservation(o)
    BY <2>10, ReleaseReservationRecords
  <2>11. CASE FireCancel(o)
    BY <2>11, FireCancelRecords
  <2>12. CASE FlagLoss(o) \/ MarkSettled(o) \/ RePollObserveOnly(o)
    BY <2>12, LastEffectRecords
  <2>13. CASE HandToReconciler(o)
    BY <2>13, HandToReconcilerRecords
  <2>14. CASE EffectThrows(o)
    BY <2>14, EffectThrowsRecords
  <2>. QED  BY <1>1, <2>1, <2>2, <2>3, <2>4, <2>5, <2>6, <2>7, <2>8, <2>9, <2>10, <2>11, <2>12,
              <2>13, <2>14 DEF Effects
<1>2. CASE DecideDead(o)
  BY <1>2, DecideDeadRecords
<1>3. CASE Quiesce(o)
  BY <1>3, QuiesceRecords
<1>4. CASE Intent(o)
  BY <1>4, IntentRecords
<1>5. CASE Webhook(o)
  BY <1>5, RetrieveChargeRecords DEF Webhook
<1>6. CASE PollCharge(o)
  BY <1>6, RetrieveChargeRecords DEF PollCharge, PollTurn
<1>7. CASE PollResubmit(o)
  BY <1>7, PollResubmitRecords
<1>8. CASE PollObserve(o)
  BY <1>8, PollObserveRecords
<1>9. CASE Reconcile(o) \/ PollQuarantine(o) \/ CustomerActs(o)
  BY <1>9, RestRecords
<1>10. CASE CallThrows(o)
  BY <1>10, CallThrowsRecords
<1>11. CASE \E n \in DOMAIN txs[o] : Land(o, n) \/ Expire(o, n)
  BY <1>11, ChainRecords
<1>. QED  BY <1>1, <1>2, <1>3, <1>4, <1>5, <1>6, <1>7, <1>8, <1>9, <1>10, <1>11
          DEF Backend, Drive, Poll, Environment

\* Another order's record is none of o's business.
LEMMA OthersRecorded ==
  ASSUME SettleInv, SettleInv', TrackInv, NEW o \in Orders, Kept(o), Noted(o)
  PROVE  TrackInv'
<1>1. Aside(o) /\ Recorded(o)' /\ LedgerInv(ledger') /\ Spares(ledger, ledger', o)
  BY DEF Kept, Noted
<1>2. /\ spent'.faults <= 1 => spent.faults <= 1
      /\ spent'.faults = 0 => spent.faults = 0
  <2>1. spent.faults \in Nat /\ spent'.faults \in Nat /\ spent'.faults >= spent.faults
    BY DEF SettleInv, Shape, Noted
  <2>. QED  BY <2>1
<1>3. ASSUME NEW p \in Orders \ {o} PROVE Recorded(p)'
  <2>1. /\ run'[p] = run[p] /\ reg'[p] = reg[p] /\ row'[p] = row[p] /\ evid'[p] = evid[p]
        /\ txs'[p] = txs[p] /\ ledger'.byOrder[p] = ledger.byOrder[p]
    BY <1>1 DEF Aside, Spares
  <2>2. row[p].st = "UsdcSubmitted" /\ Tracked(ledger, row[p].seq, p) => Tracked(ledger', row[p].seq, p)
    <3>1. row[p].st = "UsdcSubmitted" => row[p].seq \in Seqs
      BY DEF SettleInv, OrderInv, Good, FlightInv
    <3>. QED  BY <1>1, <3>1 DEF Spares
  <2>3. Recorded(p)
    BY DEF TrackInv
  <2>. QED  BY <1>2, <2>1, <2>2, <2>3 DEF Recorded, RecordInv, Returned
<1>. QED  BY <1>1, <1>3 DEF TrackInv

\* A crash: an order whose sale was being ended is left with a transaction that has lapsed.
LEMMA CrashRecords ==
  ASSUME SettleInv, TrackInv, Crash
  PROVE  TrackInv'
<1>1. spent'.faults = spent.faults + 1 /\ spent.faults \in Nat
  BY SharedTyped DEF Crash, SettleInv, Shape
<1>2. LedgerInv(ledger')
  BY DEF Crash, TrackInv
<1>3. ASSUME NEW o \in Orders PROVE Recorded(o)'
  <2>1. /\ run'[o] = Off /\ ~On(Off) /\ evid'[o] = evid[o] /\ txs'[o] = txs[o] /\ ledger' = ledger
        /\ row'[o].st = "UsdcSubmitted" => row'[o] = row[o]
    BY OffTyped DEF Crash, chain, NoRow
  <2>2. row[o].st = "UsdcSubmitted" => reg'[o] = reg[o]
    BY DEF Crash, Purged
  <2>3. Recorded(o)
    BY DEF TrackInv
  <2>. QED  BY <1>1, <2>1, <2>2, <2>3 DEF Recorded, RecordInv, Returned
<1>. QED  BY <1>2, <1>3 DEF TrackInv

LEMMA InitTracks == Init => TrackInv
<1>. SUFFICES ASSUME Init PROVE TrackInv
  OBVIOUS
<1>1. LedgerInv(ledger)
  BY DEF Init, FreshLedger, LedgerInv
<1>2. ASSUME NEW o \in Orders PROVE Recorded(o)
  <2>1. ~On(run[o]) /\ row[o].st # "UsdcSubmitted"
    BY OffTyped DEF Init, NoRow
  <2>. QED  BY <2>1 DEF Recorded, RecordInv
<1>. QED  BY <1>1, <1>2 DEF TrackInv

LEMMA NextTracks == SettleInv /\ SettleInv' /\ TrackInv /\ [Next]_vars => TrackInv'
<1>. SUFFICES ASSUME SettleInv, SettleInv', TrackInv, [Next]_vars PROVE TrackInv'
  OBVIOUS
<1>1. CASE \E o \in Orders : Backend(o) \/ CallThrows(o) \/ Environment(o)
  <2>1. PICK o \in Orders : Backend(o) \/ CallThrows(o) \/ Environment(o)
    BY <1>1
  <2>2. Kept(o) /\ Noted(o)
    BY <2>1, OrderStepKeeps, OrderStepRecords DEF SettleInv, TrackInv
  <2>. QED  BY <2>2, OthersRecorded
<1>2. CASE Crash
  BY <1>2, CrashRecords
<1>3. CASE PausePool \/ UnpausePool \/ DrainPool
  <2>1. UNCHANGED <<run, reg, row, evid, txs, ledger>>
    BY <1>3 DEF PausePool, UnpausePool, DrainPool, backend
  <2>2. spent'.faults = spent.faults
    <3>1. /\ spent \in [faults : Nat, pauses : Nat, traps : Nat, drains : Nat]
          /\ \/ UNCHANGED spent
             \/ spent' = [spent EXCEPT !.pauses = @ + 1]
             \/ spent' = [spent EXCEPT !.drains = @ + 1]
      BY <1>3, SharedTyped DEF PausePool, UnpausePool, DrainPool, SettleInv
    <3>. QED  BY <3>1
  <2>. QED  BY <2>1, <2>2 DEF TrackInv, Recorded
<1>4. CASE UNCHANGED vars
  BY <1>4 DEF vars, TrackInv, Recorded
<1>. QED  BY <1>1, <1>2, <1>3, <1>4 DEF Next

LEMMA AlwaysTracks == Spec => []TrackInv
<1>1. Init => TrackInv
  BY InitTracks
<1>2. SettleInv /\ SettleInv' /\ TrackInv /\ [Next]_vars => TrackInv'
  BY NextTracks
<1>. QED  BY <1>1, <1>2, AlwaysSettles, PTL DEF Spec

\* The driver meets no event its table does not list, no missing ctx field and no sequence
\* without a record, from the rows of an undisturbed run and from those one fault of any
\* kind, anywhere, leaves behind.
THEOREM NoBrokenFlowHolds == Spec => []NoBrokenFlow
<1>1. SettleInv /\ TrackInv => NoBrokenFlow
  <2>. SUFFICES ASSUME SettleInv, TrackInv, spent.faults <= 1, NEW o \in Orders, BrokenFlow(o)
                PROVE  FALSE
    BY DEF NoBrokenFlow
  <2>1. Shape /\ OrderInv(o) /\ Recorded(o)
    BY DEF SettleInv, TrackInv
  <2>2. /\ Doing(o, "confirmBurnedSeq") /\ run[o].sub = "none"
        /\ ~MayBurn(ledger, run[o].ctx.seq)
    BY <2>1, FlowSound
  <2>3. On(run[o]) /\ run[o].st = "UsdcReverted" /\ run[o].todo = <<"confirmBurnedSeq">>
    BY <2>1, <2>2, Position
  <2>4. row[o].st = "UsdcSubmitted" /\ row[o].seq \in Seqs /\ run[o].ctx.seq = row[o].seq
    BY <2>1, <2>3 DEF OrderInv, Good, EarlyInv, FlightInv, WitnessInv
  <2>5. ~Closing(run[o]) /\ ~Vain(run[o])
    BY <2>3 DEF Closing, Vain, Over, Again, Release
  <2>6. Tracked(ledger, row[o].seq, o)
    BY <2>1, <2>3, <2>4, <2>5, StillTracked
  <2>. QED  BY <2>2, <2>4, <2>6 DEF MayBurn, Tracked
<1>. QED  BY <1>1, AlwaysSettles, AlwaysTracks, PTL

-----------------------------------------------------------------------------
(* The third layer: the account's sequences while nothing fails.           *)

\* No fault, no pause, no drain so far.
Peace == spent.faults = 0 /\ spent.pauses = 0 /\ spent.drains = 0

\* The last signed transaction has consumed its sequence and the ledger knows.
LastBurned(T, L) ==
  T # <<>> => Landed(T[Len(T)]) /\ L.status[T[Len(T)].seq] = "burned"

\* What landed has a record and is behind the account; what can still land is held by its
\* order; before its first signature an order's pointer is a sequence it holds.
ChainInv(w, T, L, o, a) ==
  /\ \A n \in DOMAIN T : Landed(T[n]) => T[n].seq <= a /\ Tracked(L, T[n].seq, o)
  /\ \A n \in DOMAIN T : ~Landed(T[n]) /\ ~T[n].exp => OwnedActive(L, T[n].seq, o)
  /\ \A n \in DOMAIN T : n # Len(T) /\ Landed(T[n]) => L.status[T[n].seq] = "burned"
  /\ w.st # "UsdcSubmitted" => L.byOrder[o] = NoSeq \/ OwnedActive(L, L.byOrder[o], o)

\* A submission has a sequence of its own: fresh after a burned one, the same again only
\* after a transaction that never landed.  Rows pair a hash with its sequence, except while
\* a re-drive is under way.
SubmitInv(r, w, T, L, o) ==
  /\ On(r) /\ r.sub = "none" /\ r.todo \in Fresh => OwnedActive(L, r.ctx.seq, o)
  /\ On(r) /\ r.sub = "none" /\ r.todo \in Fresh \cup {Reallocate} => LastBurned(T, L)
  /\ r.sub = "burned" => LastBurned(T, L)
  /\ On(r) /\ r.sub = "none" /\ r.todo \in Again /\ T # <<>> => ~Landed(T[Len(T)])
  /\ w.hash # 0 => \/ T[w.hash].seq = w.seq
                   \/ On(r) /\ r.todo = <<"submitPay">> /\ r.sub \in {"none", "sent"}

\* An order without a reservation has nothing that could land, and signs nothing.
Idle == {"none", "Reserved", "FailedClean", "ChargeReversed", "LossReview"}
HoldInv(r, g, T, h) ==
  h = "none" =>
    /\ \A n \in DOMAIN T : Dead(T[n])
    /\ IF On(r) THEN r.st \in Idle \/ r.todo = <<"fireCancel">> ELSE g.st \in Idle

Placed(o) ==
  /\ ChainInv(row[o], txs[o], ledger, o, acctSeq)
  /\ SubmitInv(run[o], row[o], txs[o], ledger, o)
  /\ HoldInv(run[o], reg[o], txs[o], resv[o])

HeldOrders == {o \in Orders : resv[o] # "none"}

\* The reservations cover what the pool pays.
FundsInv ==
  /\ base = PoolFunds /\ ~pool.paused
  /\ IsFiniteSet(HeldOrders) /\ Cardinality(HeldOrders) <= PoolFunds
  /\ pool.balance = PoolFunds - Cardinality(pool.processed)

\* The account's sequence is moved by the orders' transactions only, and no sequence is
\* called burned before it has passed.
AccountInv ==
  /\ acctSeq \in Int
  /\ \A q \in Seqs : q <= acctSeq =>
       \E o \in Orders : \E n \in DOMAIN txs[o] : txs[o][n].seq = q /\ Landed(txs[o][n])
  /\ \A q \in Seqs : ledger.status[q] = "burned" => q <= acctSeq

PeaceInv == Peace => FundsInv /\ AccountInv /\ \A o \in Orders : Placed(o)

\* What a step finds before the first fault.
Calm(o) ==
  /\ Shape /\ OrderInv(o) /\ LedgerInv(ledger) /\ Recorded(o) /\ Placed(o)
  /\ spent.faults = 0

LEMMA CalmRows ==
  ASSUME NEW o \in Orders, Calm(o)
  PROVE  LET r == run[o]  w == row[o]  T == txs[o] IN
         /\ T \in Seq(TxType) /\ Len(T) \in Nat /\ DOMAIN T = 1 .. Len(T)
         /\ T # <<>> <=> Len(T) # 0
         /\ r.sub # "sent" => w.hash = Len(T)
         /\ \A n \in DOMAIN T : n # Len(T) => Dead(T[n])
         /\ w.st # "UsdcSubmitted" => T = <<>> /\ w.hash = 0
         /\ On(r) /\ r.sub = "none" /\ r.todo \in Again \cup {<<"submitPay">>} =>
              \A n \in DOMAIN T : Dead(T[n])
         /\ On(r) /\ r.st \in {"UsdcDead", "ChargeReversing"} => \A n \in DOMAIN T : Dead(T[n])
<1>1. /\ txs[o] \in Seq(TxType)
      /\ CalmInv(run[o], reg[o], row[o], sale[o], txs[o])
      /\ row[o].st # "UsdcSubmitted" => txs[o] = <<>> /\ row[o].hash = 0
  BY ShapeOf DEF Calm, OrderInv, Good, EarlyInv
<1>2. Len(txs[o]) \in Nat /\ DOMAIN txs[o] = 1 .. Len(txs[o]) /\ (txs[o] # <<>> <=> Len(txs[o]) # 0)
  BY <1>1
<1>3. \A n \in DOMAIN txs[o] : n # Len(txs[o]) => Dead(txs[o][n])
  <2>1. \A n \in DOMAIN txs[o] : n # Len(txs[o]) => n \in 1 .. (Len(txs[o]) - 1)
    BY <1>2
  <2>. QED  BY <1>1, <2>1 DEF CalmInv
<1>4. run[o].sub # "sent" => row[o].hash = Len(txs[o])
  BY <1>1 DEF CalmInv
<1>5. On(run[o]) /\ run[o].sub = "none" /\ run[o].todo \in Again \cup {<<"submitPay">>} =>
        \A n \in DOMAIN txs[o] : Dead(txs[o][n])
  <2>. SUFFICES ASSUME On(run[o]), run[o].sub = "none", run[o].todo \in Again \cup {<<"submitPay">>},
                       NEW n \in DOMAIN txs[o]
                PROVE  Dead(txs[o][n])
    OBVIOUS
  <2>1. run[o].todo \in Submits \cup {<<"persistInFlight", "submitReplacementSameSeq">>}
    BY DEF Again, Submits
  <2>2. row[o].hash = Len(txs[o]) /\ row[o].hash # 0
    BY <1>2, <1>4
  <2>3. Dead(txs[o][row[o].hash])
    BY <1>1, <2>1, <2>2 DEF CalmInv
  <2>. QED  BY <1>3, <2>2, <2>3
<1>6. On(run[o]) /\ run[o].st \in {"UsdcDead", "ChargeReversing"} =>
        \A n \in DOMAIN txs[o] : Dead(txs[o][n])
  BY <1>1 DEF CalmInv
<1>. QED  BY <1>1, <1>2, <1>3, <1>4, <1>5, <1>6

\* A run that is neither early nor ending the sale holds its reservation.
LEMMA RunHolds ==
  ASSUME NEW o \in Orders, Placed(o), On(run[o]), run[o].st \notin Idle,
         run[o].todo # <<"fireCancel">>
  PROVE  resv[o] # "none"
  BY DEF Placed, HoldInv

\* Steps that start or end elsewhere than in a submission.
Elsewhere(r) ==
  r.sub \notin {"none", "burned"} \/ (r.sub = "none" /\ r.todo \notin Fresh \cup {Reallocate} \cup Again)

LEMMA OtherBatches ==
  ASSUME NEW t \in {<<>>, <<"handToReconciler">>, <<"confirmBurnedSeq">>, <<"rePollObserveOnly">>}
  PROVE  t \notin Fresh \cup {Reallocate} \cup Again
<1>1. \A u \in Fresh \cup {Reallocate} \cup Again :
        /\ u # <<>>
        /\ Head(u) \in {"persistInFlight", "submitPay", "submitReplacementSameSeq", "reallocateSeq"}
  BY DEF Fresh, Reallocate, Again
<1>2. t = <<>> \/ Head(t) \in {"handToReconciler", "confirmBurnedSeq", "rePollObserveOnly"}
  OBVIOUS
<1>. QED  BY <1>1, <1>2

LEMMA ElsewherePlaces ==
  ASSUME NEW o \in Orders, Calm(o), Elsewhere(run'[o]),
         UNCHANGED <<row, txs, ledger, acctSeq>>,
         run[o].todo # <<"submitPay">> \/ run[o].sub = "recorded",
         HoldInv(run'[o], reg'[o], txs[o], resv'[o])
  PROVE  Placed(o)'
  BY DEF Calm, Placed, SubmitInv, Elsewhere

LEMMA FireSolvencyCheckPlaces ==
  ASSUME NEW o \in Orders, Calm(o), FireSolvencyCheck(o)
  PROVE  Placed(o)'
<1>1. UNCHANGED <<row, txs, ledger, acctSeq>>
  BY DEF FireSolvencyCheck, chain
<1>2. /\ On(run[o]) /\ run[o].sub = "none" /\ run[o].st = "Reserved"
      /\ run[o].todo = <<"fireSolvencyCheck">>
      /\ On(run'[o]) /\ run'[o].sub = "none"
      /\ \/ run'[o].todo = <<"fireCheckoutForm">> /\ resv'[o] # "none"
         \/ run'[o].todo = <<>> /\ run'[o].st = "FailedClean"
  BY FireSolvencyCheckRuns DEF Calm
<1>3. txs[o] = <<>>
  BY <1>2, CalmRows DEF Calm, OrderInv, Good, FlightInv
<1>4. Elsewhere(run'[o])
  BY <1>2 DEF Elsewhere, Fresh, Reallocate, Again
<1>5. HoldInv(run'[o], reg'[o], txs[o], resv'[o])
  BY <1>2, <1>3 DEF HoldInv, Idle
<1>. QED  BY <1>1, <1>2, <1>4, <1>5, ElsewherePlaces

LEMMA FireCheckoutFormPlaces ==
  ASSUME NEW o \in Orders, Calm(o), FireCheckoutForm(o)
  PROVE  Placed(o)'
<1>1. UNCHANGED <<row, txs, ledger, acctSeq, reg, resv>>
  BY DEF FireCheckoutForm, chain, backend
<1>2. /\ On(run[o]) /\ run[o].sub = "none" /\ run[o].st = "SolvencyReserved"
      /\ run[o].todo = <<"fireCheckoutForm">>
      /\ On(run'[o]) /\ run'[o].sub = "none"
      /\ run'[o].todo \in {<<>>, <<"releaseReservation">>}
  BY FireCheckoutFormRuns DEF Calm
<1>3. resv[o] # "none"
  BY <1>2, RunHolds DEF Calm, Idle
<1>4. Elsewhere(run'[o])
  BY <1>2 DEF Elsewhere, Fresh, Reallocate, Again
<1>5. HoldInv(run'[o], reg'[o], txs[o], resv'[o])
  BY <1>1, <1>3 DEF HoldInv
<1>. QED  BY <1>1, <1>2, <1>4, <1>5, ElsewherePlaces

LEMMA AllocateSeqPlaces ==
  ASSUME NEW o \in Orders, Calm(o), AllocateSeq(o)
  PROVE  Placed(o)'
<1>1. /\ UNCHANGED <<row, txs, acctSeq, reg, resv>> /\ ledger' = Allocated(ledger, o)
      /\ MayAllocate(ledger, o) /\ ledger \in Ledgers /\ LedgerInv(ledger)
  BY SharedTyped DEF AllocateSeq, chain, Calm
<1>2. /\ On(run[o]) /\ run[o].st = "UsdcSubmitted"
      /\ run[o].todo = <<"allocateSeq", "persistInFlight", "submitPay">>
      /\ On(run'[o]) /\ run'[o].sub = "none" /\ run'[o].todo = <<"persistInFlight", "submitPay">>
      /\ run'[o].ctx.seq = ledger'.byOrder[o]
  BY AllocateSeqRuns DEF Calm
<1>3. resv[o] # "none"
  BY <1>2, RunHolds DEF Calm, Idle
<1>4. row[o].st # "UsdcSubmitted" /\ txs[o] = <<>> /\ row[o].hash = 0
  <2>1. row[o].st # "UsdcSubmitted"
    BY <1>2 DEF Calm, OrderInv, Good, FlightInv
  <2>. QED  BY <2>1, CalmRows
<1>5. OwnedActive(ledger', ledger'.byOrder[o], o)
  <2>1. CASE ledger.byOrder[o] # NoSeq
    <3>1. OwnedActive(ledger, ledger.byOrder[o], o)
      BY <1>4, <2>1 DEF Calm, Placed, ChainInv
    <3>. QED  BY <1>1, <2>1, <3>1 DEF Allocated
  <2>2. CASE ledger.byOrder[o] = NoSeq
    <3>. DEFINE M == Granted(ledger, o)
    <3>1. ledger' = M /\ CanTake(ledger)
      BY <1>1, <2>2 DEF Allocated, MayAllocate
    <3>2. OwnedActive(M, M.byOrder[o], o)
      BY <1>1, <3>1, GrantAdds
    <3>. QED  BY <3>1, <3>2
  <2>. QED  BY <2>1, <2>2
<1>6. ChainInv(row[o], txs[o], ledger', o, acctSeq)
  BY <1>4, <1>5 DEF ChainInv
<1>7. SubmitInv(run'[o], row[o], txs[o], ledger', o)
  BY <1>2, <1>4, <1>5 DEF SubmitInv, LastBurned, Again
<1>8. HoldInv(run'[o], reg'[o], txs[o], resv'[o])
  BY <1>1, <1>3 DEF HoldInv
<1>. QED  BY <1>1, <1>6, <1>7, <1>8 DEF Placed

LEMMA ReallocateSeqPlaces ==
  ASSUME NEW o \in Orders, Calm(o), ReallocateSeq(o)
  PROVE  Placed(o)'
<1>1. /\ UNCHANGED <<row, txs, acctSeq, reg, resv>> /\ ledger' = Granted(ledger, o)
      /\ CanTake(ledger) /\ ledger \in Ledgers /\ LedgerInv(ledger)
  BY SharedTyped DEF ReallocateSeq, Reallocated, MayReallocate, chain, Calm
<1>2. /\ On(run[o]) /\ run[o].st = "UsdcSubmitted" /\ run[o].sub = "none"
      /\ run[o].todo = Reallocate
      /\ On(run'[o]) /\ run'[o].sub = "none" /\ run'[o].todo = <<"persistInFlight", "submitPay">>
      /\ run'[o].ctx.seq = ledger'.byOrder[o]
  BY ReallocateSeqRuns DEF Calm
<1>3. resv[o] # "none"
  BY <1>2, RunHolds DEF Calm, Idle, Reallocate
<1>4. row[o].st = "UsdcSubmitted" /\ \A n \in DOMAIN txs[o] : txs[o][n].seq \in Seqs
  <2>1. \A n \in DOMAIN txs[o] : txs[o][n] \in TxType
    BY CalmRows
  <2>. QED  BY <1>2, <2>1 DEF Calm, OrderInv, Good, EarlyInv, Reallocate, TxType
<1>5. /\ OwnedActive(ledger', ledger'.byOrder[o], o)
      /\ \A q \in Seqs : Tracked(ledger, q, o) => Tracked(ledger', q, o)
      /\ \A q \in Seqs : OwnedActive(ledger, q, o) => OwnedActive(ledger', q, o)
      /\ \A q \in Seqs : ledger.status[q] = "burned" => ledger'.status[q] = "burned"
  <2>. DEFINE M == Granted(ledger, o)
  <2>1. /\ OwnedActive(M, M.byOrder[o], o) /\ Spares(ledger, M, o)
        /\ \A q \in Seqs : Tracked(ledger, q, o) => Tracked(M, q, o)
        /\ \A q \in Seqs : OwnedActive(ledger, q, o) => OwnedActive(M, q, o)
    BY <1>1, GrantAdds
  <2>. HIDE DEF M
  <2>2. \A q \in Seqs : ledger.status[q] = "burned" => M.status[q] = "burned"
    BY <2>1 DEF Spares
  <2>. QED  BY <1>1, <2>1, <2>2 DEF M
<1>6. ChainInv(row[o], txs[o], ledger', o, acctSeq)
  <2>1. ChainInv(row[o], txs[o], ledger, o, acctSeq)
    BY DEF Calm, Placed
  <2>. QED  BY <1>4, <1>5, <2>1 DEF ChainInv
<1>7. SubmitInv(run'[o], row[o], txs[o], ledger', o)
  <2>1. SubmitInv(run[o], row[o], txs[o], ledger, o)
    BY DEF Calm, Placed
  <2>2. LastBurned(txs[o], ledger')
    <3>1. LastBurned(txs[o], ledger)
      BY <1>2, <2>1 DEF SubmitInv
    <3>. QED  BY <1>4, <1>5, <3>1, CalmRows DEF LastBurned
  <2>3. row[o].hash # 0 => txs[o][row[o].hash].seq = row[o].seq
    BY <1>2, <2>1 DEF SubmitInv, Reallocate
  <2>. QED  BY <1>2, <1>5, <2>2, <2>3 DEF SubmitInv, Again
<1>8. HoldInv(run'[o], reg'[o], txs[o], resv'[o])
  BY <1>1, <1>3 DEF HoldInv
<1>. QED  BY <1>1, <1>6, <1>7, <1>8 DEF Placed

LEMMA PersistInFlightPlaces ==
  ASSUME NEW o \in Orders, Calm(o), PersistInFlight(o)
  PROVE  Placed(o)'
<1>1. UNCHANGED <<txs, ledger, acctSeq, reg, resv>>
  BY DEF PersistInFlight, chain
<1>2. /\ On(run[o]) /\ run[o].sub = "none" /\ run[o].st = "UsdcSubmitted"
      /\ On(run'[o]) /\ run'[o].sub = "none" /\ run'[o].ctx = run[o].ctx
      /\ \/ run[o].todo = <<"persistInFlight", "submitPay">> /\ run'[o].todo = <<"submitPay">>
         \/ /\ run[o].todo = <<"persistInFlight", "submitReplacementSameSeq">>
            /\ run'[o].todo = <<"submitReplacementSameSeq">> /\ row'[o].seq = row[o].seq
      /\ row'[o].hash = row[o].hash /\ row'[o].st = "UsdcSubmitted"
  BY PersistInFlightRuns DEF Calm
<1>3. resv[o] # "none"
  BY <1>2, RunHolds DEF Calm, Idle
<1>4. /\ ChainInv(row[o], txs[o], ledger, o, acctSeq)
      /\ SubmitInv(run[o], row[o], txs[o], ledger, o)
  BY DEF Calm, Placed
<1>5. ChainInv(row'[o], txs[o], ledger, o, acctSeq)
  BY <1>2, <1>4 DEF ChainInv
<1>6. SubmitInv(run'[o], row'[o], txs[o], ledger, o)
  <2>1. CASE run[o].todo = <<"persistInFlight", "submitPay">> /\ run'[o].todo = <<"submitPay">>
    <3>1. OwnedActive(ledger, run[o].ctx.seq, o) /\ LastBurned(txs[o], ledger)
      BY <1>2, <1>4, <2>1 DEF SubmitInv, Fresh
    <3>2. run'[o].todo \notin Again
      BY <2>1 DEF Again
    <3>. QED  BY <1>2, <2>1, <3>1, <3>2 DEF SubmitInv
  <2>2. CASE /\ run[o].todo = <<"persistInFlight", "submitReplacementSameSeq">>
             /\ run'[o].todo = <<"submitReplacementSameSeq">> /\ row'[o].seq = row[o].seq
    <3>1. txs[o] # <<>> => ~Landed(txs[o][Len(txs[o])])
      BY <1>2, <1>4, <2>2 DEF SubmitInv, Again
    <3>2. row[o].hash # 0 => txs[o][row[o].hash].seq = row[o].seq
      BY <1>4, <2>2 DEF SubmitInv
    <3>3. run'[o].todo \notin Fresh \cup {Reallocate}
      BY <2>2 DEF Fresh, Reallocate
    <3>. QED  BY <1>2, <2>2, <3>1, <3>2, <3>3 DEF SubmitInv
  <2>. QED  BY <1>2, <2>1, <2>2
<1>7. HoldInv(run'[o], reg[o], txs[o], resv[o])
  BY <1>3 DEF HoldInv
<1>. QED  BY <1>1, <1>5, <1>6, <1>7 DEF Placed

\* Nothing an order signed before can still move a sequence once it signs again.
LEMMA SubmitPayPlaces ==
  ASSUME NEW o \in Orders, Calm(o), SubmitPay(o)
  PROVE  Placed(o)'
<1>. DEFINE T == txs[o]
            x == [seq |-> run[o].ctx.seq, res |-> "net", exp |-> FALSE]
            U == Append(T, x)
<1>1. UNCHANGED <<row, ledger, acctSeq, reg, resv>>
  BY DEF SubmitPay, backend
<1>2. /\ On(run[o]) /\ run[o].sub = "none" /\ run[o].st = "UsdcSubmitted"
      /\ run[o].todo \in Submits
      /\ On(run'[o]) /\ run'[o].sub = "sent" /\ run'[o].todo = run[o].todo
      /\ row[o].st = "UsdcSubmitted" /\ row[o].seq \in Seqs /\ run[o].ctx.seq = row[o].seq
      /\ run[o].todo = <<"submitReplacementSameSeq">> => OwnedActive(ledger, run[o].ctx.seq, o)
  BY SubmitPayRuns DEF Calm
<1>3. txs'[o] = U
  BY DEF SubmitPay, Calm, Shape
<1>4. resv[o] # "none"
  BY <1>2, RunHolds DEF Calm, Idle, Submits
<1>5. /\ ChainInv(row[o], T, ledger, o, acctSeq)
      /\ SubmitInv(run[o], row[o], T, ledger, o)
  BY DEF Calm, Placed
<1>6. T \in Seq(TxType) /\ Len(T) \in Nat /\ DOMAIN T = 1 .. Len(T) /\ (T # <<>> <=> Len(T) # 0)
  BY CalmRows
<1>7. x.seq = row[o].seq /\ ~Landed(x)
  BY <1>2 DEF Landed
<1>8. x \in TxType
  BY <1>2 DEF TxType
<1>. HIDE DEF T, x
<1>9. /\ Len(U) = Len(T) + 1 /\ DOMAIN U = 1 .. (Len(T) + 1)
      /\ U[Len(T) + 1] = x /\ \A n \in DOMAIN T : U[n] = T[n]
  BY <1>6, <1>8
<1>. HIDE DEF U
<1>10. /\ \A n \in DOMAIN U : n # Len(U) => n \in DOMAIN T /\ U[n] = T[n]
       /\ U[Len(U)] = x
  BY <1>6, <1>9
<1>11. OwnedActive(ledger, x.seq, o)
  <2>1. CASE run[o].todo = <<"submitPay">>
    BY <1>2, <1>5, <1>7, <2>1 DEF SubmitInv, Fresh
  <2>2. CASE run[o].todo = <<"submitReplacementSameSeq">>
    BY <1>2, <1>7, <2>2
  <2>. QED  BY <1>2, <2>1, <2>2 DEF Submits
<1>12. \A n \in DOMAIN T : Landed(T[n]) => ledger.status[T[n].seq] = "burned"
  <2>. SUFFICES ASSUME NEW n \in DOMAIN T, Landed(T[n]) PROVE ledger.status[T[n].seq] = "burned"
    OBVIOUS
  <2>1. CASE n # Len(T)
    BY <1>5, <2>1 DEF ChainInv
  <2>2. CASE n = Len(T)
    <3>1. T # <<>>
      BY <1>6, <2>2
    <3>2. run[o].todo \in Fresh
      <4>1. run[o].todo # <<"submitReplacementSameSeq">>
        BY <1>2, <1>5, <2>2, <3>1 DEF SubmitInv, Again
      <4>. QED  BY <1>2, <4>1 DEF Submits, Fresh
    <3>. QED  BY <1>2, <1>5, <2>2, <3>1, <3>2 DEF SubmitInv, LastBurned
  <2>. QED  BY <2>1, <2>2
<1>13. ChainInv(row[o], U, ledger, o, acctSeq)
  <2>1. \A n \in DOMAIN U : Landed(U[n]) =>
          /\ U[n].seq <= acctSeq /\ Tracked(ledger, U[n].seq, o)
          /\ ledger.status[U[n].seq] = "burned"
    BY <1>5, <1>7, <1>10, <1>12 DEF ChainInv
  <2>2. \A n \in DOMAIN U : ~Landed(U[n]) /\ ~U[n].exp => OwnedActive(ledger, U[n].seq, o)
    BY <1>5, <1>10, <1>11 DEF ChainInv
  <2>. QED  BY <1>2, <2>1, <2>2 DEF ChainInv
<1>14. SubmitInv(run'[o], row[o], U, ledger, o)
  <2>1. row[o].hash # 0 => row[o].hash \in DOMAIN T
    BY <1>2, <1>6, CalmRows DEF T
  <2>2. row[o].hash # 0 => U[row[o].hash].seq = row[o].seq \/ run[o].todo = <<"submitPay">>
    BY <1>5, <1>9, <2>1 DEF SubmitInv
  <2>. QED  BY <1>2, <2>2 DEF SubmitInv
<1>15. HoldInv(run'[o], reg[o], U, resv[o])
  BY <1>4 DEF HoldInv
<1>. QED  BY <1>1, <1>3, <1>13, <1>14, <1>15 DEF Placed

LEMMA RecordHashPlaces ==
  ASSUME NEW o \in Orders, Calm(o), RecordHash(o)
  PROVE  Placed(o)'
<1>1. UNCHANGED <<txs, ledger, acctSeq, reg, resv>>
  BY DEF RecordHash, chain
<1>2. /\ On(run[o]) /\ run[o].st = "UsdcSubmitted" /\ run[o].todo \in Submits
      /\ On(run'[o]) /\ run'[o].sub = "recorded" /\ row'[o].st = "UsdcSubmitted"
      /\ row'[o].seq = row[o].seq /\ row'[o].hash = Len(txs[o])
      /\ txs[o][Len(txs[o])].seq = row[o].seq
  BY RecordHashRuns DEF Calm
<1>3. resv[o] # "none"
  BY <1>2, RunHolds DEF Calm, Idle, Submits
<1>4. ChainInv(row'[o], txs[o], ledger, o, acctSeq)
  BY <1>2 DEF Calm, Placed, ChainInv
<1>5. SubmitInv(run'[o], row'[o], txs[o], ledger, o)
  BY <1>2 DEF SubmitInv
<1>6. HoldInv(run'[o], reg[o], txs[o], resv[o])
  BY <1>3 DEF HoldInv
<1>. QED  BY <1>1, <1>4, <1>5, <1>6 DEF Placed

LEMMA ObserveSubmittedPlaces ==
  ASSUME NEW o \in Orders, Calm(o), ObserveSubmitted(o)
  PROVE  Placed(o)'
<1>1. UNCHANGED <<row, txs, ledger, acctSeq, reg, resv>>
  BY DEF ObserveSubmitted, chain, backend
<1>2. /\ On(run[o]) /\ run[o].sub = "recorded" /\ run[o].st = "UsdcSubmitted"
      /\ run[o].todo \in Submits /\ On(run'[o]) /\ run'[o].sub = "none"
      /\ run'[o].todo \in {<<"handToReconciler">>, <<"confirmBurnedSeq">>, <<"rePollObserveOnly">>,
                           <<"escalate">>}
  BY ObserveSubmittedRuns DEF Calm
<1>3. resv[o] # "none"
  BY <1>2, RunHolds DEF Calm, Idle, Submits
<1>4. Elsewhere(run'[o])
  BY <1>2 DEF Elsewhere, Fresh, Reallocate, Again
<1>5. HoldInv(run'[o], reg'[o], txs[o], resv'[o])
  BY <1>1, <1>3 DEF HoldInv
<1>. QED  BY <1>1, <1>2, <1>4, <1>5, ElsewherePlaces

\* The sequence a revert burns is the one its transaction consumed.
LEMMA BurnsConsumed ==
  ASSUME NEW o \in Orders, Calm(o), ConfirmBurnedSeq(o)
  PROVE  LET s == run[o].ctx.seq  T == txs[o] IN
         /\ T # <<>> /\ Reverted(T[Len(T)]) /\ T[Len(T)].seq = s
         /\ s \in Seqs /\ s <= acctSeq /\ Tracked(ledger, s, o)
<1>1. /\ On(run[o]) /\ run[o].sub = "none" /\ run[o].st = "UsdcReverted"
      /\ run[o].todo = <<"confirmBurnedSeq">> /\ row[o].st = "UsdcSubmitted"
      /\ run[o].ctx.seq = row[o].seq /\ row[o].hash # 0 /\ Reverted(txs[o][row[o].hash])
  BY ConfirmBurnedSeqRuns DEF Calm
<1>2. row[o].hash = Len(txs[o]) /\ txs[o] # <<>> /\ row[o].hash \in DOMAIN txs[o]
  BY <1>1, CalmRows
<1>3. txs[o][row[o].hash].seq = row[o].seq
  BY <1>1 DEF Calm, Placed, SubmitInv
<1>4. txs[o][row[o].hash].seq <= acctSeq /\ Tracked(ledger, txs[o][row[o].hash].seq, o)
  BY <1>1, <1>2 DEF Calm, Placed, ChainInv, Landed, Reverted
<1>5. row[o].seq \in Seqs
  BY <1>1 DEF Calm, OrderInv, Good, FlightInv
<1>. QED  BY <1>1, <1>2, <1>3, <1>4, <1>5

LEMMA ConfirmBurnedSeqPlaces ==
  ASSUME NEW o \in Orders, Calm(o), ConfirmBurnedSeq(o)
  PROVE  Placed(o)'
<1>. DEFINE T == txs[o]
            s == run[o].ctx.seq
<1>1. /\ UNCHANGED <<row, txs, acctSeq, reg, resv>> /\ ledger' = Burned(ledger, s)
      /\ MayBurn(ledger, s) /\ ledger \in Ledgers /\ LedgerInv(ledger)
  BY SharedTyped DEF ConfirmBurnedSeq, chain, Calm
<1>2. /\ On(run[o]) /\ run[o].st = "UsdcReverted" /\ run[o].todo = <<"confirmBurnedSeq">>
      /\ On(run'[o]) /\ run'[o].sub = "burned" /\ row[o].st = "UsdcSubmitted"
  BY ConfirmBurnedSeqRuns DEF Calm
<1>3. /\ T # <<>> /\ Reverted(T[Len(T)]) /\ T[Len(T)].seq = s
  BY BurnsConsumed
<1>4. resv[o] # "none"
  BY <1>2, RunHolds DEF Calm, Idle
<1>5. /\ \A q \in Seqs : Tracked(ledger, q, o) => Tracked(ledger', q, o)
      /\ \A q \in Seqs : ledger.status[q] = "burned" => ledger'.status[q] = "burned"
      /\ ledger'.status[s] = "burned"
  <2>. DEFINE M == Burned(ledger, s)
  <2>1. /\ Spares(ledger, M, o) /\ M.status[s] = "burned"
        /\ \A q \in Seqs : Tracked(ledger, q, o) => Tracked(M, q, o)
    BY <1>1, BurnAdds
  <2>. HIDE DEF M
  <2>. QED  BY <1>1, <2>1 DEF Spares, M
<1>6. \A n \in DOMAIN T : T[n].seq \in Seqs /\ Dead(T[n])
  <2>1. /\ \A n \in DOMAIN T : T[n] \in TxType
        /\ \A n \in DOMAIN T : n # Len(T) => Dead(T[n])
    BY CalmRows
  <2>. QED  BY <1>3, <2>1 DEF TxType, Dead
<1>7. ChainInv(row[o], T, ledger', o, acctSeq)
  <2>1. ChainInv(row[o], T, ledger, o, acctSeq)
    BY DEF Calm, Placed
  <2>2. \A n \in DOMAIN T : Landed(T[n]) \/ T[n].exp
    BY <1>6 DEF Dead, Reverted, Landed
  <2>. QED  BY <1>2, <1>5, <1>6, <2>1, <2>2 DEF ChainInv
<1>8. SubmitInv(run'[o], row[o], T, ledger', o)
  <2>1. row[o].hash # 0 => T[row[o].hash].seq = row[o].seq
    BY <1>2 DEF Calm, Placed, SubmitInv
  <2>2. LastBurned(T, ledger')
    BY <1>3, <1>5 DEF LastBurned, Landed, Reverted
  <2>. QED  BY <1>2, <2>1, <2>2 DEF SubmitInv
<1>9. HoldInv(run'[o], reg'[o], T, resv'[o])
  BY <1>1, <1>4 DEF HoldInv
<1>. QED  BY <1>1, <1>7, <1>8, <1>9 DEF Placed

LEMMA ReadRevertCausePlaces ==
  ASSUME NEW o \in Orders, Calm(o), ReadRevertCause(o)
  PROVE  Placed(o)'
<1>1. UNCHANGED <<row, txs, ledger, acctSeq, reg, resv>>
  BY DEF ReadRevertCause, chain
<1>2. /\ On(run[o]) /\ run[o].sub = "burned" /\ run[o].st = "UsdcReverted"
      /\ run[o].todo = <<"confirmBurnedSeq">> /\ On(run'[o]) /\ run'[o].sub = "none"
      /\ run'[o].todo \in {<<>>, <<"releaseReservation", "fireCancel">>, Reallocate, <<"flagLoss">>}
  BY ReadRevertCauseRuns DEF Calm
<1>3. resv[o] # "none"
  BY <1>2, RunHolds DEF Calm, Idle
<1>4. SubmitInv(run'[o], row[o], txs[o], ledger, o)
  <2>1. SubmitInv(run[o], row[o], txs[o], ledger, o)
    BY DEF Calm, Placed
  <2>2. LastBurned(txs[o], ledger) /\ (row[o].hash # 0 => txs[o][row[o].hash].seq = row[o].seq)
    BY <1>2, <2>1 DEF SubmitInv
  <2>3. run'[o].todo \notin Fresh \cup Again
    BY <1>2 DEF Fresh, Again, Reallocate
  <2>. QED  BY <1>2, <2>2, <2>3 DEF SubmitInv
<1>5. HoldInv(run'[o], reg[o], txs[o], resv[o])
  BY <1>3 DEF HoldInv
<1>6. ChainInv(row[o], txs[o], ledger, o, acctSeq)
  BY DEF Calm, Placed
<1>. QED  BY <1>1, <1>4, <1>5, <1>6 DEF Placed

\* The sequence that is given back was never consumed.
LEMMA ReleaseSeqPlaces ==
  ASSUME NEW o \in Orders, Calm(o), ReleaseSeq(o)
  PROVE  Placed(o)'
<1>. DEFINE T == txs[o]
            s == run[o].ctx.seq
<1>1. /\ UNCHANGED <<row, txs, acctSeq, reg, resv>> /\ ledger' = Released(ledger, s, o)
      /\ OwnedActive(ledger, s, o) /\ ledger \in Ledgers /\ LedgerInv(ledger)
  BY SharedTyped DEF ReleaseSeq, chain, Calm
<1>2. /\ On(run[o]) /\ run[o].sub = "none" /\ run[o].st = "ChargeReversing"
      /\ run[o].todo = Release /\ row[o].st = "UsdcSubmitted"
      /\ On(run'[o]) /\ run'[o].sub = "none"
      /\ run'[o].todo = <<"releaseReservation", "fireCancel">>
  BY ReleaseSeqRuns DEF Calm
<1>3. resv[o] # "none"
  BY <1>2, RunHolds DEF Calm, Idle, Release
<1>4. /\ \A q \in Seqs : ledger.status[q] = "burned" => ledger'.status[q] = "burned"
      /\ \A q \in Seqs : q # s /\ Tracked(ledger, q, o) => Tracked(ledger', q, o)
  <2>. DEFINE M == Released(ledger, s, o)
  <2>1. /\ Spares(ledger, M, o)
        /\ \A q \in Seqs \ {s} : M.status[q] = ledger.status[q] /\ M.owner[q] = ledger.owner[q]
    BY <1>1, ReleaseSpares
  <2>. HIDE DEF M
  <2>. QED  BY <1>1, <2>1 DEF Spares, M, Tracked
<1>5. \A n \in DOMAIN T : T[n].seq \in Seqs /\ (Landed(T[n]) \/ T[n].exp)
  <2>1. \A n \in DOMAIN T : T[n] \in TxType /\ Dead(T[n])
    BY <1>2, CalmRows
  <2>. QED  BY <2>1 DEF TxType, Dead, Reverted, Landed
<1>6. ChainInv(row[o], T, ledger, o, acctSeq)
  BY DEF Calm, Placed
<1>7. \A n \in DOMAIN T : Landed(T[n]) => ledger.status[T[n].seq] = "burned"
  <2>1. Lapsed(row[o], T) /\ row[o].hash = Len(T)
    BY <1>2, CalmRows DEF Calm, Recorded, RecordInv
  <2>2. ~Landed(T[Len(T)])
    BY <2>1 DEF Lapsed, Expired, Landed
  <2>. QED  BY <1>6, <2>2 DEF ChainInv
<1>8. ChainInv(row[o], T, ledger', o, acctSeq)
  <2>1. \A n \in DOMAIN T : Landed(T[n]) => T[n].seq # s
    BY <1>1, <1>7 DEF OwnedActive
  <2>. QED  BY <1>2, <1>4, <1>5, <1>6, <1>7, <2>1 DEF ChainInv
<1>9. SubmitInv(run'[o], row[o], T, ledger', o)
  <2>1. row[o].hash # 0 => T[row[o].hash].seq = row[o].seq
    BY <1>2 DEF Calm, Placed, SubmitInv, Release
  <2>. QED  BY <1>2, <2>1 DEF SubmitInv, Fresh, Again, Reallocate
<1>10. HoldInv(run'[o], reg'[o], T, resv'[o])
  BY <1>1, <1>3 DEF HoldInv
<1>. QED  BY <1>1, <1>8, <1>9, <1>10 DEF Placed

LEMMA ReleaseReservationPlaces ==
  ASSUME NEW o \in Orders, Calm(o), ReleaseReservation(o)
  PROVE  Placed(o)'
<1>1. UNCHANGED <<row, txs, ledger, acctSeq, reg>>
  BY DEF ReleaseReservation, chain
<1>2. /\ On(run[o]) /\ run[o].sub = "none" /\ On(run'[o]) /\ run'[o].sub = "none"
      /\ run'[o].st = run[o].st
      /\ \/ run[o].st = "FailedClean" /\ run[o].todo = <<"releaseReservation">> /\ run'[o].todo = <<>>
         \/ /\ run[o].st = "ChargeReversing" /\ run[o].todo = <<"releaseReservation", "fireCancel">>
            /\ run'[o].todo = <<"fireCancel">>
  BY ReleaseReservationRuns DEF Calm
<1>3. \A n \in DOMAIN txs[o] : Dead(txs[o][n])
  <2>1. CASE run[o].st = "FailedClean"
    <3>1. row[o].st # "UsdcSubmitted"
      BY <2>1 DEF Calm, OrderInv, Good, EarlyInv
    <3>. QED  BY <3>1, CalmRows
  <2>2. CASE run[o].st = "ChargeReversing"
    BY <1>2, <2>2, CalmRows
  <2>. QED  BY <1>2, <2>1, <2>2
<1>4. Elsewhere(run'[o])
  BY <1>2 DEF Elsewhere, Fresh, Reallocate, Again
<1>5. HoldInv(run'[o], reg'[o], txs[o], resv'[o])
  BY <1>2, <1>3 DEF HoldInv, Idle
<1>6. run[o].todo # <<"submitPay">>
  BY <1>2
<1>. QED  BY <1>1, <1>4, <1>5, <1>6, ElsewherePlaces

LEMMA FireCancelPlaces ==
  ASSUME NEW o \in Orders, Calm(o), FireCancel(o)
  PROVE  Placed(o)'
<1>1. UNCHANGED <<row, txs, ledger, acctSeq, reg, resv>>
  BY DEF FireCancel, chain
<1>2. /\ On(run[o]) /\ run[o].st = "ChargeReversing" /\ run[o].todo = <<"fireCancel">>
      /\ On(run'[o]) /\ run'[o].sub = "none"
      /\ \/ run'[o].st = "ChargeReversed" /\ run'[o].todo = <<>>
         \/ run'[o].todo = <<"fireCancel">>
         \/ run'[o].st = "LossReview" /\ run'[o].todo = <<"flagLoss">>
  BY FireCancelRuns DEF Calm
<1>3. \A n \in DOMAIN txs[o] : Dead(txs[o][n])
  BY <1>2, CalmRows
<1>4. Elsewhere(run'[o])
  BY <1>2 DEF Elsewhere, Fresh, Reallocate, Again
<1>5. HoldInv(run'[o], reg'[o], txs[o], resv'[o])
  BY <1>2, <1>3 DEF HoldInv, Idle
<1>. QED  BY <1>1, <1>2, <1>4, <1>5, ElsewherePlaces

LEMMA LastEffectPlaces ==
  ASSUME NEW o \in Orders, Calm(o), FlagLoss(o) \/ MarkSettled(o) \/ RePollObserveOnly(o)
  PROVE  Placed(o)'
<1>1. UNCHANGED <<row, txs, ledger, acctSeq, reg>> /\ (resv'[o] = "none" => resv[o] = "none")
  BY DEF FlagLoss, MarkSettled, RePollObserveOnly, chain, backend, Calm, Shape
<1>2. /\ On(run[o]) /\ On(run'[o]) /\ run'[o].sub = "none" /\ run'[o].todo = <<>>
      /\ run'[o].st = run[o].st
      /\ run[o].todo \in {<<"flagLoss">>, <<"escalate">>, <<"handToReconciler">>,
                          <<"rePollObserveOnly">>}
  BY LastEffectRuns DEF Calm
<1>3. Elsewhere(run'[o])
  BY <1>2 DEF Elsewhere, Fresh, Reallocate, Again
<1>4. run[o].todo # <<"submitPay">> /\ run[o].todo # <<"fireCancel">>
  BY <1>2
<1>5. HoldInv(run'[o], reg'[o], txs[o], resv'[o])
  <2>1. HoldInv(run[o], reg[o], txs[o], resv[o])
    BY DEF Calm, Placed
  <2>. QED  BY <1>1, <1>2, <1>4, <2>1 DEF HoldInv
<1>. QED  BY <1>1, <1>3, <1>4, <1>5, ElsewherePlaces

LEMMA HandToReconcilerPlaces ==
  ASSUME NEW o \in Orders, Calm(o), HandToReconciler(o)
  PROVE  Placed(o)'
<1>1. UNCHANGED <<row, txs, ledger, acctSeq, reg, resv>>
  BY DEF HandToReconciler, chain
<1>2. /\ On(run[o]) /\ run[o].st = "UsdcConfirmed" /\ run[o].todo = <<"handToReconciler">>
      /\ On(run'[o]) /\ run'[o].sub = "appended"
  BY HandToReconcilerRuns DEF Calm
<1>3. resv[o] # "none"
  BY <1>2, RunHolds DEF Calm, Idle
<1>4. HoldInv(run'[o], reg'[o], txs[o], resv'[o])
  BY <1>1, <1>3 DEF HoldInv
<1>. QED  BY <1>1, <1>2, <1>4, ElsewherePlaces DEF Elsewhere

LEMMA DecideDeadPlaces ==
  ASSUME NEW o \in Orders, Calm(o), DecideDead(o)
  PROVE  Placed(o)'
<1>1. UNCHANGED <<row, txs, ledger, acctSeq, reg, resv>>
  BY DEF DecideDead, chain
<1>2. /\ On(run[o]) /\ run[o].sub = "none" /\ run[o].st = "UsdcDead" /\ run[o].todo = <<>>
      /\ On(run'[o]) /\ run'[o].sub = "none"
      /\ run'[o].todo \in {<<"persistInFlight", "submitReplacementSameSeq">>,
                           <<"releaseSeq", "releaseReservation", "fireCancel">>}
  BY DecideDeadRuns DEF Calm, Release
<1>3. resv[o] # "none"
  <2>1. run[o].st \notin Idle /\ run[o].todo # <<"fireCancel">>
    BY <1>2 DEF Idle
  <2>. QED  BY <1>2, <2>1, RunHolds DEF Calm
<1>4. ~Landed(txs[o][Len(txs[o])])
  <2>1. Lapsed(row[o], txs[o]) /\ row[o].hash = Len(txs[o])
    BY <1>2, CalmRows DEF Calm, Recorded, RecordInv
  <2>. QED  BY <2>1 DEF Lapsed, Expired, Landed
<1>5. SubmitInv(run'[o], row[o], txs[o], ledger, o)
  <2>1. row[o].hash # 0 => txs[o][row[o].hash].seq = row[o].seq
    BY <1>2 DEF Calm, Placed, SubmitInv
  <2>2. run'[o].todo \notin Fresh \cup {Reallocate}
    BY <1>2 DEF Fresh, Reallocate
  <2>. QED  BY <1>2, <1>4, <2>1, <2>2 DEF SubmitInv
<1>6. HoldInv(run'[o], reg[o], txs[o], resv[o])
  BY <1>3 DEF HoldInv
<1>7. ChainInv(row[o], txs[o], ledger, o, acctSeq)
  BY DEF Calm, Placed
<1>. QED  BY <1>1, <1>5, <1>6, <1>7 DEF Placed

LEMMA QuiescePlaces ==
  ASSUME NEW o \in Orders, Calm(o), Quiesce(o)
  PROVE  Placed(o)'
<1>1. UNCHANGED <<row, txs, ledger, acctSeq, resv>>
  BY DEF Quiesce, chain
<1>2. On(run[o]) /\ run[o].todo = <<>> /\ run'[o] = Off /\ reg'[o].st = run[o].st
  BY QuiesceRuns DEF Calm
<1>3. Elsewhere(run'[o]) /\ ~On(run'[o])
  BY <1>2, OffTyped DEF Elsewhere, Fresh, Reallocate, Again, Off
<1>4. HoldInv(run'[o], reg'[o], txs[o], resv'[o])
  <2>1. HoldInv(run[o], reg[o], txs[o], resv[o])
    BY DEF Calm, Placed
  <2>. QED  BY <1>1, <1>2, <1>3, <2>1 DEF HoldInv
<1>. QED  BY <1>1, <1>2, <1>3, <1>4, ElsewherePlaces

LEMMA IntentPlaces ==
  ASSUME NEW o \in Orders, Calm(o), Intent(o)
  PROVE  Placed(o)'
<1>1. UNCHANGED <<txs, ledger, acctSeq, resv>>
  BY DEF Intent, chain
<1>2. /\ row[o].st = "none" /\ On(run'[o]) /\ run'[o].sub = "none" /\ run'[o].st = "Reserved"
      /\ run'[o].todo = <<"fireSolvencyCheck">> /\ row'[o].hash = row[o].hash
  BY IntentRuns DEF Calm
<1>3. txs[o] = <<>> /\ row[o].hash = 0
  BY <1>2, CalmRows
<1>4. ChainInv(row'[o], txs[o], ledger, o, acctSeq)
  BY <1>2, <1>3 DEF Calm, Placed, ChainInv
<1>5. SubmitInv(run'[o], row'[o], txs[o], ledger, o)
  BY <1>2, <1>3 DEF SubmitInv, Fresh, Reallocate, Again
<1>6. HoldInv(run'[o], reg'[o], txs[o], resv[o])
  BY <1>2, <1>3 DEF HoldInv, Idle
<1>. QED  BY <1>1, <1>4, <1>5, <1>6 DEF Placed

\* A run that starts from rows in flight holds its reservation.
LEMMA RetrieveChargePlaces ==
  ASSUME NEW o \in Orders, Calm(o), NEW by \in {"webhook", "poll"}, Unlocked(o),
         RetrieveCharge(o, by)
  PROVE  Placed(o)'
<1>1. UNCHANGED <<row, txs, ledger, acctSeq, reg, resv>>
  BY DEF RetrieveCharge, chain, backend
<1>2. /\ run[o] = Off /\ reg[o].st = "SolvencyReserved" /\ On(run'[o]) /\ run'[o].sub = "none"
      /\ run'[o].todo \in {<<"allocateSeq", "persistInFlight", "submitPay">>,
                           <<"releaseReservation">>, <<"rePollObserveOnly">>}
  BY RetrieveChargeRuns DEF Calm
<1>3. resv[o] # "none"
  BY <1>2, OffTyped DEF Calm, Placed, HoldInv, Idle
<1>4. Elsewhere(run'[o])
  BY <1>2 DEF Elsewhere, Fresh, Reallocate, Again
<1>5. HoldInv(run'[o], reg'[o], txs[o], resv'[o])
  BY <1>1, <1>3 DEF HoldInv
<1>6. run[o].todo # <<"submitPay">>
  BY <1>2 DEF Off
<1>. QED  BY <1>1, <1>4, <1>5, <1>6, ElsewherePlaces

LEMMA PollResubmitPlaces ==
  ASSUME NEW o \in Orders, Calm(o), PollResubmit(o)
  PROVE  Placed(o)'
<1>1. UNCHANGED <<row, txs, ledger, acctSeq, reg, resv>>
  BY DEF PollResubmit, chain, backend
<1>2. /\ run[o] = Off /\ row[o].hash = 0
      /\ reg[o].st \in {"SolvencyReserved", "UsdcSubmitted", "UsdcPending"}
      /\ On(run'[o]) /\ run'[o].sub = "none"
      /\ run'[o].todo = <<"persistInFlight", "submitReplacementSameSeq">>
  BY PollResubmitRuns DEF Calm
<1>3. resv[o] # "none"
  BY <1>2, OffTyped DEF Calm, Placed, HoldInv, Idle
<1>4. txs[o] = <<>>
  BY <1>2, OffTyped, CalmRows
<1>5. SubmitInv(run'[o], row[o], txs[o], ledger, o)
  BY <1>2, <1>4 DEF SubmitInv, Fresh, Reallocate
<1>6. HoldInv(run'[o], reg[o], txs[o], resv[o])
  BY <1>3 DEF HoldInv
<1>7. ChainInv(row[o], txs[o], ledger, o, acctSeq)
  BY DEF Calm, Placed
<1>. QED  BY <1>1, <1>5, <1>6, <1>7 DEF Placed

LEMMA PollObservePlaces ==
  ASSUME NEW o \in Orders, Calm(o), PollObserve(o)
  PROVE  Placed(o)'
<1>1. UNCHANGED <<row, txs, ledger, acctSeq, reg, resv>>
  BY DEF PollObserve, chain
<1>2. CASE UNCHANGED run
  BY <1>1, <1>2 DEF Calm, Placed
<1>3. CASE run' # run
  <2>1. /\ run[o] = Off /\ reg[o].st \in {"SolvencyReserved", "UsdcSubmitted", "UsdcPending"}
        /\ On(run'[o]) /\ run'[o].sub = "none"
        /\ run'[o].todo \in {<<"handToReconciler">>, <<"confirmBurnedSeq">>,
                             <<"rePollObserveOnly">>, <<>>}
    BY <1>3, PollObserveRuns DEF Calm
  <2>2. resv[o] # "none"
    BY <2>1, OffTyped DEF Calm, Placed, HoldInv, Idle
  <2>3. Elsewhere(run'[o])
    BY <2>1, OtherBatches DEF Elsewhere
  <2>4. HoldInv(run'[o], reg'[o], txs[o], resv'[o])
    BY <1>1, <2>2 DEF HoldInv
  <2>5. run[o].todo # <<"submitPay">>
    BY <2>1 DEF Off
  <2>. QED  BY <1>1, <2>3, <2>4, <2>5, ElsewherePlaces
<1>. QED  BY <1>2, <1>3

LEMMA RestPlaces ==
  ASSUME NEW o \in Orders, Calm(o), Reconcile(o) \/ PollQuarantine(o) \/ CustomerActs(o)
  PROVE  Placed(o)'
<1>1. UNCHANGED <<run, row, txs, ledger, acctSeq, resv>>
  BY DEF Reconcile, PollQuarantine, CustomerActs, chain, backend
<1>2. CASE UNCHANGED reg
  BY <1>1, <1>2 DEF Calm, Placed
<1>3. CASE Reconcile(o)
  <2>1. evid[o].hash # 0
    BY <1>3, ReconcileRuns DEF Calm
  <2>2. evid[o].hash \in DOMAIN txs[o] /\ txs[o][evid[o].hash].res = "Ok"
    BY <2>1 DEF Calm, OrderInv, Good, PaidInv
  <2>3. resv[o] # "none"
    BY <2>2 DEF Calm, Placed, HoldInv, Dead, Reverted
  <2>. QED  BY <1>1, <2>3 DEF Calm, Placed, HoldInv
<1>. QED  BY <1>2, <1>3 DEF PollQuarantine, CustomerActs, backend

\* What lands is the order's last transaction, under the account's next sequence.
LEMMA LandPlaces ==
  ASSUME NEW o \in Orders, Calm(o), acctSeq \in Int, NEW n \in DOMAIN txs[o], Land(o, n)
  PROVE  Placed(o)'
<1>. DEFINE T == txs[o]
            U == txs'[o]
<1>1. /\ UNCHANGED <<run, reg, row, resv, ledger>>
      /\ T[n].res = "net" /\ ~T[n].exp /\ acctSeq' = T[n].seq /\ T[n].seq = acctSeq + 1
      /\ U[n].seq = T[n].seq /\ Landed(U[n]) /\ Len(U) = Len(T) /\ DOMAIN U = DOMAIN T
      /\ \A m \in DOMAIN T \ {n} : U[m] = T[m]
  BY LandMoves DEF Calm
<1>2. ~Dead(T[n]) /\ ~Landed(T[n])
  BY <1>1 DEF Dead, Reverted, Landed
<1>3. n = Len(T) /\ T # <<>> /\ (run[o].sub # "sent" => row[o].hash = n)
      /\ \A m \in DOMAIN T : T[m].seq \in Int
  <2>1. \A m \in DOMAIN T : T[m] \in TxType
    BY CalmRows
  <2>2. \A m \in DOMAIN T : T[m].seq \in Int
    BY <2>1, SeqsAreInts DEF TxType
  <2>. QED  BY <1>2, <2>2, CalmRows
<1>4. /\ ChainInv(row[o], T, ledger, o, acctSeq)
      /\ SubmitInv(run[o], row[o], T, ledger, o)
      /\ HoldInv(run[o], reg[o], T, resv[o])
  BY DEF Calm, Placed
<1>5. resv[o] # "none"
  BY <1>2, <1>4 DEF HoldInv
<1>6. OwnedActive(ledger, T[n].seq, o) /\ Tracked(ledger, T[n].seq, o)
  BY <1>1, <1>2, <1>4 DEF ChainInv, OwnedActive, Tracked
<1>. HIDE DEF T, U
<1>7. ChainInv(row[o], U, ledger, o, acctSeq')
  <2>1. \A m \in DOMAIN U : Landed(U[m]) => U[m].seq <= acctSeq' /\ Tracked(ledger, U[m].seq, o)
    <3>1. ASSUME NEW m \in DOMAIN T, m # n, Landed(U[m])
          PROVE  U[m].seq <= acctSeq' /\ Tracked(ledger, U[m].seq, o)
      <4>1. U[m] = T[m] /\ T[m].seq <= acctSeq /\ Tracked(ledger, T[m].seq, o)
        BY <1>1, <1>4, <3>1 DEF ChainInv
      <4>. QED  BY <1>1, <1>3, <4>1
    <3>2. U[n].seq <= acctSeq' /\ Tracked(ledger, U[n].seq, o)
      BY <1>1, <1>3, <1>6 DEF T
    <3>. QED  BY <1>1, <3>1, <3>2
  <2>2. \A m \in DOMAIN U : ~Landed(U[m]) /\ ~U[m].exp => OwnedActive(ledger, U[m].seq, o)
    BY <1>1, <1>4 DEF ChainInv
  <2>3. \A m \in DOMAIN U : m # Len(U) /\ Landed(U[m]) => ledger.status[U[m].seq] = "burned"
    BY <1>1, <1>3, <1>4 DEF ChainInv
  <2>. QED  BY <1>4, <2>1, <2>2, <2>3 DEF ChainInv
<1>8. SubmitInv(run[o], row[o], U, ledger, o)
  <2>1. ~LastBurned(T, ledger)
    BY <1>2, <1>3 DEF LastBurned
  <2>2. ~(On(run[o]) /\ run[o].sub = "none" /\ run[o].todo \in Again)
    BY <1>2, CalmRows DEF T
  <2>3. row[o].hash # 0 => U[row[o].hash].seq = T[row[o].hash].seq
    <3>1. row[o].hash # 0 => row[o].hash \in DOMAIN T
      BY ShapeOf DEF Calm, OrderInv, Good, WitnessInv, T
    <3>. QED  BY <1>1, <3>1
  <2>. QED  BY <1>4, <2>1, <2>2, <2>3 DEF SubmitInv
<1>9. HoldInv(run[o], reg[o], U, resv[o])
  BY <1>5 DEF HoldInv
<1>. QED  BY <1>1, <1>7, <1>8, <1>9 DEF Placed, U

LEMMA ExpirePlaces ==
  ASSUME NEW o \in Orders, Calm(o), NEW n \in DOMAIN txs[o], Expire(o, n)
  PROVE  Placed(o)'
<1>. DEFINE T == txs[o]
            U == txs'[o]
<1>1. /\ UNCHANGED <<run, reg, row, resv, ledger, acctSeq>>
      /\ U[n].seq = T[n].seq /\ U[n].exp /\ U[n].res = T[n].res
      /\ Len(U) = Len(T) /\ DOMAIN U = DOMAIN T
      /\ \A m \in DOMAIN T \ {n} : U[m] = T[m]
  BY ExpireMoves DEF Calm
<1>2. \A m \in DOMAIN T : /\ U[m].seq = T[m].seq /\ (Landed(U[m]) <=> Landed(T[m]))
                          /\ Dead(T[m]) => Dead(U[m])
                          /\ T[m].exp => U[m].exp
  BY <1>1 DEF Landed, Dead, Reverted
<1>3. /\ ChainInv(row[o], T, ledger, o, acctSeq)
      /\ SubmitInv(run[o], row[o], T, ledger, o)
      /\ HoldInv(run[o], reg[o], T, resv[o])
  BY DEF Calm, Placed
<1>4. /\ row[o].hash # 0 => row[o].hash \in DOMAIN T
      /\ T # <<>> => Len(T) \in DOMAIN T
      /\ U = <<>> <=> T = <<>>
  <2>1. T \in Seq(TxType) /\ U \in Seq(TxType)
    BY ExpireKeeps, ShapeOf DEF Calm, Kept, Shape
  <2>2. row[o].hash \in 0 .. Len(T)
    BY DEF Calm, OrderInv, Good, WitnessInv
  <2>. HIDE DEF T, U
  <2>. QED  BY <1>1, <2>1, <2>2
<1>. HIDE DEF T, U
<1>5. ChainInv(row[o], U, ledger, o, acctSeq)
  BY <1>1, <1>2, <1>3 DEF ChainInv
<1>6. LastBurned(T, ledger) => LastBurned(U, ledger)
  BY <1>1, <1>2, <1>4 DEF LastBurned
<1>7. SubmitInv(run[o], row[o], U, ledger, o)
  BY <1>1, <1>2, <1>3, <1>4, <1>6 DEF SubmitInv
<1>8. HoldInv(run[o], reg[o], U, resv[o])
  BY <1>1, <1>2, <1>3 DEF HoldInv
<1>. QED  BY <1>1, <1>5, <1>7, <1>8 DEF Placed, U

-----------------------------------------------------------------------------
(* The pool's funds.                                                       *)

\* What was paid was reserved.
LEMMA PaidHeld ==
  ASSUME SettleInv, \A o \in Orders : Placed(o)
  PROVE  pool.processed \subseteq HeldOrders
<1>. SUFFICES ASSUME NEW o \in pool.processed PROVE o \in HeldOrders
  OBVIOUS
<1>1. o \in Orders /\ OrderInv(o) /\ HoldInv(run[o], reg[o], txs[o], resv[o])
  BY DEF SettleInv, Shape, Placed
<1>2. PICK n \in DOMAIN txs[o] : txs[o][n].res = "Ok"
  BY <1>1 DEF OrderInv, Good, PaidInv
<1>. QED  BY <1>1, <1>2 DEF HoldInv, Dead, Reverted, HeldOrders

LEMMA HeldBounds ==
  ASSUME NEW S, NEW P \in SUBSET S, IsFiniteSet(S), NEW x \in S \ P
  PROVE  /\ Cardinality(P) \in Nat /\ Cardinality(S) \in Nat
         /\ Cardinality(P) + 1 <= Cardinality(S)
<1>1. P \cup {x} \in SUBSET S
  OBVIOUS
<1>2. IsFiniteSet(P) /\ IsFiniteSet(P \cup {x}) /\ Cardinality(P \cup {x}) <= Cardinality(S)
  BY <1>1, FS_Subset
<1>3. Cardinality(P \cup {x}) = Cardinality(P) + 1
  BY <1>2, FS_AddElement
<1>. QED  BY <1>2, <1>3, FS_CardinalityType

\* In peace a fresh submission is never refused, so no re-drive is cut off half way.
LEMMA SubmitAccepted ==
  ASSUME SettleInv, \A o \in Orders : Placed(o), FundsInv, spent.faults = 0,
         NEW o \in Orders, Calm(o), On(run[o]), run[o].sub = "none", run[o].todo = <<"submitPay">>
  PROVE  Simulation(o) = "Ok"
<1>1. \A n \in DOMAIN txs[o] : Dead(txs[o][n])
  BY CalmRows
<1>2. o \notin pool.processed
  BY <1>1 DEF Calm, OrderInv, Good, PaidInv, Dead, Reverted
<1>3. run[o].st = "UsdcSubmitted"
  BY DEF Calm, OrderInv, Good, WalkInv, Walk
<1>4. o \in HeldOrders
  BY <1>3, RunHolds DEF Idle, HeldOrders
<1>5. Cardinality(pool.processed) + 1 <= Cardinality(HeldOrders)
      /\ Cardinality(pool.processed) \in Nat /\ Cardinality(HeldOrders) \in Nat
  BY <1>2, <1>4, PaidHeld, HeldBounds DEF FundsInv
<1>6. pool.balance >= 1 /\ ~pool.paused
  BY <1>5, SettlementAssumption DEF FundsInv
<1>7. pool.balance \in Int /\ pool.balance >= 1 /\ ~(pool.balance < 1) /\ pool.paused = FALSE
      /\ (o \in pool.processed) = FALSE
  BY <1>2, <1>6 DEF SettleInv, Shape
<1>8. PayResult(TRUE, FALSE, 1, FALSE, pool.balance, TRUE) = "Ok"
  BY <1>7 DEF PayResult
<1>. QED  BY <1>7, <1>8 DEF Simulation

LEMMA EffectThrowsPlaces ==
  ASSUME SettleInv, \A o \in Orders : Placed(o), FundsInv, spent.faults = 0,
         NEW o \in Orders, Calm(o), EffectThrows(o)
  PROVE  Placed(o)'
<1>1. UNCHANGED <<row, txs, ledger, acctSeq, reg, resv>>
  BY DEF EffectThrows, chain, backend
<1>2. /\ On(run[o]) /\ run[o].sub = "none" /\ run'[o] = Off
      /\ run[o].st \in {"UsdcSubmitted", "UsdcReverted", "ChargeReversing"}
      /\ run[o].todo # <<"fireCancel">>
  BY EffectThrowsRuns DEF Calm, Submits, Release, Reallocate
<1>3. resv[o] # "none"
  BY <1>2, RunHolds DEF Calm, Idle
<1>4. run[o].todo # <<"submitPay">>
  <2>. SUFFICES ASSUME run[o].todo = <<"submitPay">> PROVE FALSE
    OBVIOUS
  <2>1. Simulation(o) = "Ok"
    BY <1>2, SubmitAccepted
  <2>2. Head(run[o].todo) = "submitPay"
    OBVIOUS
  <2>3. ~BrokenFlow(o) /\ ~Refused(o)
    BY <2>1, <2>2 DEF BrokenFlow, Refused, Doing, SeqStillOurs
  <2>. QED  BY <2>3 DEF EffectThrows
<1>5. Elsewhere(run'[o])
  BY <1>2 DEF Elsewhere, Fresh, Reallocate, Again, Off
<1>6. HoldInv(run'[o], reg'[o], txs[o], resv'[o])
  BY <1>1, <1>3 DEF HoldInv
<1>. QED  BY <1>1, <1>4, <1>5, <1>6, ElsewherePlaces

\* What a step of order o owes the rest while nothing fails.
Steady(o) ==
  /\ Placed(o)' /\ SparesActive(ledger, ledger', o)
  /\ FundsInv' /\ AccountInv' /\ acctSeq' >= acctSeq
  /\ \A p \in Orders \ {o} : resv'[p] = resv[p]

LEMMA FundsSame ==
  ASSUME FundsInv, UNCHANGED <<resv, base, pool>>
  PROVE  FundsInv'
<1>1. HeldOrders' = HeldOrders
  BY DEF HeldOrders
<1>. QED  BY <1>1 DEF FundsInv

LEMMA AccountKeeps ==
  ASSUME AccountInv, acctSeq' = acctSeq,
         \A q \in Seqs : ledger'.status[q] = "burned" => q <= acctSeq,
         \A o \in Orders : \A n \in DOMAIN txs[o] :
           /\ n \in DOMAIN txs'[o] /\ txs'[o][n].seq = txs[o][n].seq
           /\ Landed(txs[o][n]) => Landed(txs'[o][n])
  PROVE  AccountInv'
<1>1. ASSUME NEW q \in Seqs, q <= acctSeq
      PROVE  \E o \in Orders : \E n \in DOMAIN txs'[o] : txs'[o][n].seq = q /\ Landed(txs'[o][n])
  BY <1>1 DEF AccountInv
<1>. QED  BY <1>1 DEF AccountInv

\* A step that leaves the account, the pool, the reservations and the ledger alone.
LEMMA QuietSteady ==
  ASSUME NEW o \in Orders, FundsInv, AccountInv, Placed(o)',
         UNCHANGED <<ledger, resv, base, txs, acctSeq, pool>>
  PROVE  Steady(o)
<1>1. FundsInv'
  BY FundsSame
<1>2. AccountInv'
  BY DEF AccountInv
<1>3. acctSeq' >= acctSeq
  BY DEF AccountInv
<1>. QED  BY <1>1, <1>2, <1>3, SparesSame DEF Steady

LEMMA LedgerSteady ==
  ASSUME NEW o \in Orders, FundsInv, AccountInv, Placed(o)', SparesActive(ledger, ledger', o),
         UNCHANGED <<resv, base, txs, acctSeq, pool>>,
         \A q \in Seqs : ledger'.status[q] = "burned" => q <= acctSeq
  PROVE  Steady(o)
<1>1. FundsInv'
  BY FundsSame
<1>2. AccountInv'
  BY DEF AccountInv
<1>3. acctSeq' >= acctSeq
  BY DEF AccountInv
<1>. QED  BY <1>1, <1>2, <1>3 DEF Steady

LEMMA AllocateSeqSteady ==
  ASSUME NEW o \in Orders, Calm(o), FundsInv, AccountInv, AllocateSeq(o)
  PROVE  Steady(o)
<1>1. UNCHANGED <<resv, base, txs, acctSeq, pool>> /\ ledger' = Allocated(ledger, o)
      /\ MayAllocate(ledger, o) /\ ledger \in Ledgers /\ LedgerInv(ledger)
  BY SharedTyped DEF AllocateSeq, chain, Calm
<1>2. \A q \in Seqs : ledger'.status[q] = "burned" => ledger.status[q] = "burned"
  <2>1. CASE ledger.byOrder[o] # NoSeq
    BY <1>1, <2>1 DEF Allocated
  <2>2. CASE ledger.byOrder[o] = NoSeq
    <3>. DEFINE M == Granted(ledger, o)
    <3>1. ledger' = M /\ CanTake(ledger)
      BY <1>1, <2>2 DEF Allocated, MayAllocate
    <3>2. \A q \in Seqs : M.status[q] = "burned" => ledger.status[q] = "burned"
      BY <1>1, <3>1, GrantAdds
    <3>. QED  BY <3>1, <3>2
  <2>. QED  BY <2>1, <2>2
<1>3. \A q \in Seqs : ledger'.status[q] = "burned" => q <= acctSeq
  BY <1>2 DEF AccountInv
<1>4. Placed(o)' /\ SparesActive(ledger, ledger', o)
  BY AllocateSeqPlaces, AllocateSeqRecords DEF Calm
<1>. QED  BY <1>1, <1>3, <1>4, LedgerSteady

LEMMA ReallocateSeqSteady ==
  ASSUME NEW o \in Orders, Calm(o), FundsInv, AccountInv, ReallocateSeq(o)
  PROVE  Steady(o)
<1>1. UNCHANGED <<resv, base, txs, acctSeq, pool>> /\ ledger' = Granted(ledger, o)
      /\ CanTake(ledger) /\ ledger \in Ledgers /\ LedgerInv(ledger)
  BY SharedTyped DEF ReallocateSeq, Reallocated, MayReallocate, chain, Calm
<1>2. \A q \in Seqs : ledger'.status[q] = "burned" => ledger.status[q] = "burned"
  <2>. DEFINE M == Granted(ledger, o)
  <2>1. \A q \in Seqs : M.status[q] = "burned" => ledger.status[q] = "burned"
    BY <1>1, GrantAdds
  <2>. QED  BY <1>1, <2>1
<1>3. \A q \in Seqs : ledger'.status[q] = "burned" => q <= acctSeq
  BY <1>2 DEF AccountInv
<1>4. Placed(o)' /\ SparesActive(ledger, ledger', o)
  BY ReallocateSeqPlaces, ReallocateSeqRecords DEF Calm
<1>. QED  BY <1>1, <1>3, <1>4, LedgerSteady

LEMMA ConfirmBurnedSeqSteady ==
  ASSUME NEW o \in Orders, Calm(o), FundsInv, AccountInv, ConfirmBurnedSeq(o)
  PROVE  Steady(o)
<1>. DEFINE s == run[o].ctx.seq
            M == Burned(ledger, s)
<1>1. UNCHANGED <<resv, base, txs, acctSeq, pool>> /\ ledger' = M
      /\ MayBurn(ledger, s) /\ ledger \in Ledgers /\ LedgerInv(ledger)
  BY SharedTyped DEF ConfirmBurnedSeq, chain, Calm
<1>2. s <= acctSeq /\ Tracked(ledger, s, o)
  BY BurnsConsumed
<1>3. SparesActive(ledger, M, o) /\ \A q \in Seqs \ {s} : M.status[q] = ledger.status[q]
  BY <1>1, <1>2, BurnAdds
<1>. HIDE DEF M, s
<1>4. \A q \in Seqs : ledger'.status[q] = "burned" => q <= acctSeq
  BY <1>1, <1>2, <1>3 DEF AccountInv
<1>5. Placed(o)'
  BY ConfirmBurnedSeqPlaces
<1>. QED  BY <1>1, <1>3, <1>4, <1>5, LedgerSteady

LEMMA ReleaseSeqSteady ==
  ASSUME NEW o \in Orders, Calm(o), FundsInv, AccountInv, ReleaseSeq(o)
  PROVE  Steady(o)
<1>. DEFINE s == run[o].ctx.seq
<1>1. UNCHANGED <<resv, base, txs, acctSeq, pool>> /\ ledger' = Released(ledger, s, o)
      /\ s \in Seqs /\ ledger \in Ledgers
  BY SharedTyped DEF ReleaseSeq, OwnedActive, chain, Calm
<1>2. ledger'.status = [ledger.status EXCEPT ![s] = "untracked"]
  BY <1>1 DEF Released, Ledgers
<1>3. \A q \in Seqs : ledger'.status[q] = "burned" => ledger.status[q] = "burned"
  BY <1>1, <1>2 DEF Ledgers
<1>4. \A q \in Seqs : ledger'.status[q] = "burned" => q <= acctSeq
  BY <1>3 DEF AccountInv
<1>5. Placed(o)' /\ SparesActive(ledger, ledger', o)
  BY ReleaseSeqPlaces, ReleaseSeqRecords DEF Calm
<1>. QED  BY <1>1, <1>4, <1>5, LedgerSteady

\* The reservations: one is taken only while the pool's balance covers them all.
LEMMA HoldSteady ==
  ASSUME NEW o \in Orders, Calm(o), FundsInv, AccountInv, Placed(o)',
         UNCHANGED <<ledger, base, txs, acctSeq, pool>>,
         \A p \in Orders \ {o} : resv'[p] = resv[p],
         resv[o] = "none" /\ resv'[o] # "none" => Available >= 1
  PROVE  Steady(o)
<1>1. AccountInv' /\ acctSeq' >= acctSeq
  BY DEF AccountInv
<1>2. IsFiniteSet(HeldOrders') /\ Cardinality(HeldOrders') <= PoolFunds
  <2>. DEFINE H == HeldOrders
  <2>0. IsFiniteSet(H) /\ Cardinality(H) <= PoolFunds /\ Cardinality(H) \in Nat /\ PoolFunds \in Nat
    BY SettlementAssumption, FS_CardinalityType DEF FundsInv
  <2>1. CASE resv[o] = "none" /\ resv'[o] # "none"
    <3>1. HeldOrders' = H \cup {o} /\ o \notin H
      BY <2>1 DEF HeldOrders
    <3>2. PoolFunds - Cardinality(H) >= 1
      BY <2>1 DEF Available, FundsInv, HeldOrders
    <3>. HIDE DEF H
    <3>3. IsFiniteSet(H \cup {o}) /\ Cardinality(H \cup {o}) = Cardinality(H) + 1
      BY <2>0, <3>1, FS_AddElement
    <3>. QED  BY <2>0, <3>1, <3>2, <3>3
  <2>2. CASE ~(resv[o] = "none" /\ resv'[o] # "none")
    <3>1. HeldOrders' \in SUBSET H
      BY <2>2 DEF HeldOrders
    <3>. DEFINE K == HeldOrders'
    <3>. HIDE DEF H, K
    <3>2. IsFiniteSet(K) /\ Cardinality(K) <= Cardinality(H)
      BY <2>0, <3>1, FS_Subset DEF K
    <3>3. Cardinality(K) \in Nat
      BY <3>2, FS_CardinalityType
    <3>. QED  BY <2>0, <3>2, <3>3 DEF K
  <2>. QED  BY <2>1, <2>2
<1>3. FundsInv'
  BY <1>2 DEF FundsInv
<1>. QED  BY <1>1, <1>3, SparesSame DEF Steady

LEMMA ReservationSteady ==
  ASSUME NEW o \in Orders, Calm(o), FundsInv, AccountInv,
         FireSolvencyCheck(o) \/ ReleaseReservation(o) \/ MarkSettled(o)
  PROVE  Steady(o)
<1>1. UNCHANGED <<ledger, base, txs, acctSeq, pool>>
  BY DEF FireSolvencyCheck, ReleaseReservation, MarkSettled, chain
<1>2. resv \in [Orders -> {"none", "held", "settled"}]
  BY SharedTyped DEF Calm
<1>3. /\ \A p \in Orders \ {o} : resv'[p] = resv[p]
      /\ resv[o] = "none" /\ resv'[o] # "none" => Available >= 1
  BY <1>2 DEF FireSolvencyCheck, ReleaseReservation, MarkSettled
<1>4. Placed(o)'
  BY FireSolvencyCheckPlaces, ReleaseReservationPlaces, LastEffectPlaces
<1>. QED  BY <1>1, <1>3, <1>4, HoldSteady

LEMMA SubmitPaySteady ==
  ASSUME NEW o \in Orders, Calm(o), FundsInv, AccountInv, SubmitPay(o)
  PROVE  Steady(o)
<1>1. UNCHANGED <<ledger, resv, base, acctSeq, pool>>
  BY DEF SubmitPay, backend
<1>2. \A p \in Orders : \A n \in DOMAIN txs[p] :
        /\ n \in DOMAIN txs'[p] /\ txs'[p][n].seq = txs[p][n].seq
        /\ Landed(txs[p][n]) => Landed(txs'[p][n])
  <2>1. \A p \in Orders : \A n \in DOMAIN txs[p] : n \in DOMAIN txs'[p] /\ txs'[p][n] = txs[p][n]
    <3>. SUFFICES ASSUME NEW p \in Orders, NEW n \in DOMAIN txs[p]
                  PROVE  n \in DOMAIN txs'[p] /\ txs'[p][n] = txs[p][n]
      OBVIOUS
    <3>. DEFINE x == [seq |-> run[o].ctx.seq, res |-> "net", exp |-> FALSE]
    <3>1. txs \in [Orders -> Seq(TxType)] /\ txs' = [txs EXCEPT ![o] = Append(@, x)]
      BY DEF SubmitPay, Calm, Shape
    <3>2. txs[o] \in Seq(TxType)
      BY <3>1
    <3>. HIDE DEF x
    <3>3. CASE p = o
      BY <3>1, <3>2, <3>3
    <3>4. CASE p # o
      BY <3>1, <3>4
    <3>. QED  BY <3>3, <3>4
  <2>. QED  BY <2>1
<1>3. AccountInv'
  <2>1. \A q \in Seqs : ledger'.status[q] = "burned" => q <= acctSeq
    BY <1>1 DEF AccountInv
  <2>. QED  BY <1>1, <1>2, <2>1, AccountKeeps
<1>4. FundsInv'
  BY <1>1, FundsSame
<1>5. acctSeq' >= acctSeq
  BY <1>1 DEF AccountInv
<1>6. Placed(o)'
  BY SubmitPayPlaces
<1>. QED  BY <1>1, <1>3, <1>4, <1>5, <1>6, SparesSame DEF Steady

LEMMA OthersStay ==
  ASSUME NEW o \in Orders, NEW n \in DOMAIN txs[o], Shape, Land(o, n) \/ Expire(o, n)
  PROVE  \A p \in Orders \ {o} : txs'[p] = txs[p]
<1>1. txs \in [Orders -> Seq(TxType)]
  BY DEF Shape
<1>2. CASE Land(o, n)
  BY <1>1, <1>2 DEF Land
<1>3. CASE Expire(o, n)
  BY <1>1, <1>3 DEF Expire
<1>. QED  BY <1>2, <1>3

\* What a payment takes from the pool was reserved for it.
LEMMA LandFunds ==
  ASSUME FundsInv, SettleInv, \A p \in Orders : Placed(p),
         NEW o \in Orders, NEW n \in DOMAIN txs[o], Land(o, n)
  PROVE  FundsInv'
<1>1. /\ UNCHANGED <<resv, base>> /\ pool'.paused = pool.paused
      /\ \/ pool' = pool
         \/ /\ o \notin pool.processed /\ pool'.processed = pool.processed \cup {o}
            /\ pool'.balance = pool.balance - 1
  BY LandMoves DEF SettleInv
<1>2. HeldOrders' = HeldOrders
  BY <1>1 DEF HeldOrders
<1>3. pool.processed \in SUBSET HeldOrders /\ IsFiniteSet(HeldOrders)
  BY PaidHeld DEF FundsInv
<1>4. IsFiniteSet(pool.processed) /\ Cardinality(pool.processed) \in Nat
  BY <1>3, FS_Subset, FS_CardinalityType
<1>5. pool'.balance = PoolFunds - Cardinality(pool'.processed)
  <2>1. CASE pool' = pool
    BY <2>1 DEF FundsInv
  <2>2. CASE /\ o \notin pool.processed /\ pool'.processed = pool.processed \cup {o}
             /\ pool'.balance = pool.balance - 1
    <3>1. Cardinality(pool.processed \cup {o}) = Cardinality(pool.processed) + 1
      BY <1>4, <2>2, FS_AddElement
    <3>. QED  BY <1>4, <2>2, <3>1, SettlementAssumption DEF FundsInv
  <2>. QED  BY <1>1, <2>1, <2>2
<1>. QED  BY <1>1, <1>2, <1>5 DEF FundsInv

LEMMA LandSteady ==
  ASSUME SettleInv, \A p \in Orders : Placed(p), FundsInv, AccountInv,
         NEW o \in Orders, Calm(o), NEW n \in DOMAIN txs[o], Land(o, n)
  PROVE  Steady(o)
<1>1. /\ UNCHANGED <<resv, ledger>> /\ txs[o][n].seq = acctSeq + 1 /\ acctSeq' = txs[o][n].seq
      /\ txs[o][n].res = "net" /\ txs'[o][n].seq = txs[o][n].seq /\ Landed(txs'[o][n])
      /\ DOMAIN txs'[o] = DOMAIN txs[o]
      /\ \A m \in DOMAIN txs[o] \ {n} : txs'[o][m] = txs[o][m]
  BY LandMoves DEF SettleInv
<1>2. acctSeq \in Int /\ acctSeq' \in Int /\ acctSeq' = acctSeq + 1 /\ acctSeq' >= acctSeq
  BY <1>1 DEF AccountInv
<1>3. AccountInv'
  <2>1. ASSUME NEW q \in Seqs, q <= acctSeq'
        PROVE  \E p \in Orders : \E m \in DOMAIN txs'[p] : txs'[p][m].seq = q /\ Landed(txs'[p][m])
    <3>1. CASE q = acctSeq'
      BY <1>1, <3>1
    <3>2. CASE q # acctSeq'
      <4>1. q <= acctSeq
        BY <1>2, <2>1, <3>2, SeqsAreInts
      <4>2. PICK p \in Orders : \E m \in DOMAIN txs[p] : txs[p][m].seq = q /\ Landed(txs[p][m])
        BY <4>1 DEF AccountInv
      <4>3. PICK m \in DOMAIN txs[p] : txs[p][m].seq = q /\ Landed(txs[p][m])
        BY <4>2
      <4>4. p # o => txs'[p] = txs[p]
        BY OthersStay DEF SettleInv
      <4>5. m \in DOMAIN txs'[p] /\ txs'[p][m].seq = q /\ Landed(txs'[p][m])
        BY <1>1, <4>3, <4>4 DEF Landed
      <4>. QED  BY <4>5
    <3>. QED  BY <3>1, <3>2
  <2>2. \A q \in Seqs : ledger'.status[q] = "burned" => q <= acctSeq'
    <3>1. \A q \in Seqs : ledger.status[q] = "burned" => q <= acctSeq
      BY DEF AccountInv
    <3>. QED  BY <1>1, <1>2, <3>1, SeqsAreInts
  <2>. QED  BY <1>2, <2>1, <2>2 DEF AccountInv
<1>4. FundsInv'
  BY LandFunds
<1>5. Placed(o)'
  BY <1>2, LandPlaces
<1>. QED  BY <1>1, <1>2, <1>3, <1>4, <1>5, SparesSame DEF Steady

LEMMA ExpireSteady ==
  ASSUME FundsInv, AccountInv,
         NEW o \in Orders, Calm(o), NEW n \in DOMAIN txs[o], Expire(o, n)
  PROVE  Steady(o)
<1>1. /\ UNCHANGED <<resv, base, ledger, acctSeq, pool>>
      /\ txs'[o][n].seq = txs[o][n].seq /\ txs'[o][n].res = txs[o][n].res
      /\ DOMAIN txs'[o] = DOMAIN txs[o]
      /\ \A m \in DOMAIN txs[o] \ {n} : txs'[o][m] = txs[o][m]
  BY ExpireMoves DEF Calm
<1>2. \A p \in Orders \ {o} : txs'[p] = txs[p]
  BY OthersStay DEF Calm
<1>3. \A p \in Orders : \A m \in DOMAIN txs[p] :
        /\ m \in DOMAIN txs'[p] /\ txs'[p][m].seq = txs[p][m].seq
        /\ Landed(txs[p][m]) => Landed(txs'[p][m])
  <2>. SUFFICES ASSUME NEW p \in Orders, NEW m \in DOMAIN txs[p]
                PROVE  /\ m \in DOMAIN txs'[p] /\ txs'[p][m].seq = txs[p][m].seq
                       /\ Landed(txs[p][m]) => Landed(txs'[p][m])
    OBVIOUS
  <2>1. CASE p # o
    BY <1>2, <2>1
  <2>2. CASE p = o /\ m = n
    BY <1>1, <2>2 DEF Landed
  <2>3. CASE p = o /\ m # n
    BY <1>1, <2>3
  <2>. QED  BY <2>1, <2>2, <2>3
<1>4. AccountInv'
  <2>1. \A q \in Seqs : ledger'.status[q] = "burned" => q <= acctSeq
    BY <1>1 DEF AccountInv
  <2>. QED  BY <1>1, <1>3, <2>1, AccountKeeps
<1>5. FundsInv' /\ acctSeq' >= acctSeq
  BY <1>1, FundsSame DEF AccountInv
<1>6. Placed(o)'
  BY ExpirePlaces
<1>. QED  BY <1>1, <1>4, <1>5, <1>6, SparesSame DEF Steady

LEMMA OrderStepSteady ==
  ASSUME SettleInv, \A p \in Orders : Placed(p), FundsInv, AccountInv,
         NEW o \in Orders, Calm(o), Backend(o) \/ Environment(o)
  PROVE  Steady(o)
<1>1. CASE Effects(o)
  <2>1. CASE FireSolvencyCheck(o) \/ ReleaseReservation(o) \/ MarkSettled(o)
    BY <2>1, ReservationSteady
  <2>2. CASE AllocateSeq(o)
    BY <2>2, AllocateSeqSteady
  <2>3. CASE ReallocateSeq(o)
    BY <2>3, ReallocateSeqSteady
  <2>4. CASE ConfirmBurnedSeq(o)
    BY <2>4, ConfirmBurnedSeqSteady
  <2>5. CASE ReleaseSeq(o)
    BY <2>5, ReleaseSeqSteady
  <2>6. CASE SubmitPay(o)
    BY <2>6, SubmitPaySteady
  <2>7. CASE FireCheckoutForm(o) \/ PersistInFlight(o) \/ RecordHash(o) \/ ObserveSubmitted(o)
    <3>1. UNCHANGED <<ledger, resv, base, txs, acctSeq, pool>>
      BY <2>7 DEF FireCheckoutForm, PersistInFlight, RecordHash, ObserveSubmitted, backend, chain
    <3>2. Placed(o)'
      BY <2>7, FireCheckoutFormPlaces, PersistInFlightPlaces, RecordHashPlaces,
         ObserveSubmittedPlaces
    <3>. QED  BY <3>1, <3>2, QuietSteady
  <2>8. CASE ReadRevertCause(o) \/ FireCancel(o) \/ HandToReconciler(o)
    <3>1. UNCHANGED <<ledger, resv, base, txs, acctSeq, pool>>
      BY <2>8 DEF ReadRevertCause, FireCancel, HandToReconciler, backend, chain
    <3>2. Placed(o)'
      BY <2>8, ReadRevertCausePlaces, FireCancelPlaces, HandToReconcilerPlaces
    <3>. QED  BY <3>1, <3>2, QuietSteady
  <2>9. CASE FlagLoss(o) \/ RePollObserveOnly(o)
    <3>1. UNCHANGED <<ledger, resv, base, txs, acctSeq, pool>>
      BY <2>9 DEF FlagLoss, RePollObserveOnly, backend, chain
    <3>2. Placed(o)'
      BY <2>9, LastEffectPlaces
    <3>. QED  BY <3>1, <3>2, QuietSteady
  <2>10. CASE EffectThrows(o)
    <3>1. UNCHANGED <<ledger, resv, base, txs, acctSeq, pool>>
      BY <2>10 DEF EffectThrows, backend, chain
    <3>2. Placed(o)'
      BY <2>10, EffectThrowsPlaces DEF Calm
    <3>. QED  BY <3>1, <3>2, QuietSteady
  <2>. QED  BY <1>1, <2>1, <2>2, <2>3, <2>4, <2>5, <2>6, <2>7, <2>8, <2>9, <2>10 DEF Effects
<1>2. CASE DecideDead(o) \/ Quiesce(o) \/ Intent(o)
  <2>1. UNCHANGED <<ledger, resv, base, txs, acctSeq, pool>>
    BY <1>2 DEF DecideDead, Quiesce, Intent, chain
  <2>2. Placed(o)'
    BY <1>2, DecideDeadPlaces, QuiescePlaces, IntentPlaces
  <2>. QED  BY <2>1, <2>2, QuietSteady
<1>3. CASE Webhook(o) \/ PollCharge(o)
  <2>1. PICK by \in {"webhook", "poll"} : Unlocked(o) /\ RetrieveCharge(o, by)
    BY <1>3 DEF Webhook, PollCharge, PollTurn
  <2>2. UNCHANGED <<ledger, resv, base, txs, acctSeq, pool>>
    BY <2>1 DEF RetrieveCharge, backend, chain
  <2>3. Placed(o)'
    BY <2>1, RetrieveChargePlaces
  <2>. QED  BY <2>2, <2>3, QuietSteady
<1>4. CASE PollResubmit(o) \/ PollObserve(o)
  <2>1. UNCHANGED <<ledger, resv, base, txs, acctSeq, pool>>
    BY <1>4 DEF PollResubmit, PollObserve, backend, chain
  <2>2. Placed(o)'
    BY <1>4, PollResubmitPlaces, PollObservePlaces
  <2>. QED  BY <2>1, <2>2, QuietSteady
<1>5. CASE Reconcile(o) \/ PollQuarantine(o) \/ CustomerActs(o)
  <2>1. UNCHANGED <<ledger, resv, base, txs, acctSeq, pool>>
    BY <1>5 DEF Reconcile, PollQuarantine, CustomerActs, backend, chain
  <2>2. Placed(o)'
    BY <1>5, RestPlaces
  <2>. QED  BY <2>1, <2>2, QuietSteady
<1>6. CASE \E n \in DOMAIN txs[o] : Land(o, n) \/ Expire(o, n)
  BY <1>6, LandSteady, ExpireSteady
<1>. QED  BY <1>1, <1>2, <1>3, <1>4, <1>5, <1>6 DEF Backend, Drive, Poll, Environment

\* Another order's sequences are none of o's business.
LEMMA OthersPlaced ==
  ASSUME SettleInv, LedgerInv(ledger), AccountInv, NEW o \in Orders, NEW p \in Orders \ {o},
         Placed(p), Kept(o), Noted(o), Steady(o)
  PROVE  Placed(p)'
<1>. DEFINE T == txs[p]
<1>1. /\ run'[p] = run[p] /\ reg'[p] = reg[p] /\ row'[p] = row[p] /\ txs'[p] = T
      /\ resv'[p] = resv[p] /\ ledger'.byOrder[p] = ledger.byOrder[p]
  BY DEF Kept, Aside, Noted, Spares, Steady
<1>2. /\ \A q \in Seqs : Tracked(ledger, q, p) => Tracked(ledger', q, p)
      /\ \A q \in Seqs : ledger.status[q] = "burned" => ledger'.status[q] = "burned"
  BY DEF Noted, Spares
<1>3. \A q \in Seqs : OwnedActive(ledger, q, p) => OwnedActive(ledger', q, p)
  BY DEF Steady, SparesActive
<1>4. /\ \A n \in DOMAIN T : T[n].seq \in Seqs
      /\ T # <<>> => Len(T) \in DOMAIN T
  <2>1. T \in Seq(TxType)
    BY DEF SettleInv, Shape
  <2>2. \A n \in DOMAIN T : T[n] \in TxType
    BY <2>1
  <2>. HIDE DEF T
  <2>. QED  BY <2>1, <2>2 DEF TxType
<1>5. acctSeq \in Int /\ acctSeq' \in Int /\ acctSeq' >= acctSeq
  BY DEF AccountInv, Steady
<1>6. /\ ChainInv(row[p], T, ledger, p, acctSeq)
      /\ SubmitInv(run[p], row[p], T, ledger, p)
      /\ HoldInv(run[p], reg[p], T, resv[p])
  BY DEF Placed
<1>. HIDE DEF T
<1>7. ChainInv(row[p], T, ledger', p, acctSeq')
  <2>1. ASSUME NEW n \in DOMAIN T, Landed(T[n])
        PROVE  T[n].seq <= acctSeq' /\ Tracked(ledger', T[n].seq, p)
    <3>1. T[n].seq <= acctSeq /\ Tracked(ledger, T[n].seq, p) /\ T[n].seq \in Int
      BY <1>4, <1>6, <2>1, SeqsAreInts DEF ChainInv
    <3>. QED  BY <1>2, <1>4, <1>5, <3>1
  <2>2. ASSUME NEW n \in DOMAIN T, ~Landed(T[n]), ~T[n].exp PROVE OwnedActive(ledger', T[n].seq, p)
    BY <1>3, <1>4, <1>6, <2>2 DEF ChainInv
  <2>3. ASSUME NEW n \in DOMAIN T, n # Len(T), Landed(T[n]) PROVE ledger'.status[T[n].seq] = "burned"
    BY <1>2, <1>4, <1>6, <2>3 DEF ChainInv
  <2>4. ASSUME row[p].st # "UsdcSubmitted"
        PROVE  ledger'.byOrder[p] = NoSeq \/ OwnedActive(ledger', ledger'.byOrder[p], p)
    <3>1. ledger.byOrder[p] = NoSeq \/ OwnedActive(ledger, ledger.byOrder[p], p)
      BY <1>6, <2>4 DEF ChainInv
    <3>. QED  BY <1>1, <1>3, <3>1 DEF OwnedActive
  <2>. QED  BY <2>1, <2>2, <2>3, <2>4 DEF ChainInv
<1>8. SubmitInv(run[p], row[p], T, ledger', p)
  <2>1. LastBurned(T, ledger) => LastBurned(T, ledger')
    BY <1>2, <1>4 DEF LastBurned
  <2>2. OwnedActive(ledger, run[p].ctx.seq, p) => OwnedActive(ledger', run[p].ctx.seq, p)
    BY <1>3 DEF OwnedActive
  <2>. QED  BY <1>6, <2>1, <2>2 DEF SubmitInv
<1>. QED  BY <1>1, <1>6, <1>7, <1>8 DEF Placed, T

\* What is used up is not given back.
LEMMA PeaceFromStart ==
  ASSUME Shape, [Next]_vars, Peace'
  PROVE  Peace
<1>1. spent \in [faults : Nat, pauses : Nat, traps : Nat, drains : Nat]
  BY DEF Shape
<1>2. \/ UNCHANGED spent
      \/ \E f \in Nat : spent' = [spent EXCEPT !.faults = @ + f]
      \/ \E f \in Nat : spent' = [spent EXCEPT !.traps = @ + f]
      \/ spent' = [spent EXCEPT !.pauses = @ + 1]
      \/ spent' = [spent EXCEPT !.drains = @ + 1]
  <2>1. CASE \E o \in Orders : Effects(o)
    <3>1. PICK o \in Orders : Effects(o)
      BY <2>1
    <3>2. CASE ReadRevertCause(o)
      BY <3>2 DEF ReadRevertCause
    <3>3. CASE ~ReadRevertCause(o)
      BY <3>1, <3>3 DEF Effects, FireSolvencyCheck, FireCheckoutForm, AllocateSeq, ReallocateSeq,
         PersistInFlight, SubmitPay, RecordHash, ObserveSubmitted, ConfirmBurnedSeq, ReleaseSeq,
         ReleaseReservation, FireCancel, FlagLoss, HandToReconciler, MarkSettled,
         RePollObserveOnly, EffectThrows
    <3>. QED  BY <3>2, <3>3
  <2>2. CASE \E o \in Orders : DecideDead(o) \/ Quiesce(o) \/ Intent(o) \/ PollResubmit(o)
               \/ Reconcile(o) \/ PollQuarantine(o) \/ CustomerActs(o)
    BY <2>2 DEF DecideDead, Quiesce, Intent, PollResubmit, Reconcile, PollQuarantine, CustomerActs
  <2>3. CASE \E o \in Orders : Webhook(o) \/ PollCharge(o)
    BY <2>3 DEF Webhook, PollCharge, RetrieveCharge
  <2>4. CASE \E o \in Orders : PollObserve(o) \/ CallThrows(o)
    BY <2>4 DEF PollObserve, CallThrows
  <2>5. CASE \E o \in Orders : \E n \in DOMAIN txs[o] : Land(o, n) \/ Expire(o, n)
    BY <2>5 DEF Land, Expire
  <2>6. CASE Crash
    BY <2>6 DEF Crash
  <2>7. CASE PausePool \/ UnpausePool \/ DrainPool
    BY <2>7 DEF PausePool, UnpausePool, DrainPool
  <2>8. CASE UNCHANGED vars
    BY <2>8 DEF vars
  <2>. QED  BY <2>1, <2>2, <2>3, <2>4, <2>5, <2>6, <2>7, <2>8
            DEF Next, Backend, Drive, Poll, Environment
<1>. QED  BY <1>1, <1>2 DEF Peace

LEMMA InitPeace == Init => PeaceInv
<1>. SUFFICES ASSUME Init PROVE PeaceInv
  OBVIOUS
<1>1. HeldOrders = {}
  BY DEF Init, HeldOrders
<1>2. IsFiniteSet({}) /\ Cardinality({}) = 0
  BY FS_EmptySet
<1>3. FundsInv
  <2>1. /\ base = PoolFunds /\ ~pool.paused /\ pool.processed = {} /\ pool.balance = PoolFunds
        /\ PoolFunds \in Nat
    BY SettlementAssumption DEF Init
  <2>. QED  BY <1>1, <1>2, <2>1 DEF FundsInv
<1>4. AccountInv
  <2>1. acctSeq = BaseSeq /\ \A q \in Seqs : ledger.status[q] = "untracked"
    BY DEF Init, FreshLedger
  <2>2. BaseSeq \in Int /\ \A q \in Seqs : ~(q <= BaseSeq)
    BY SeqAssumption DEF Seqs
  <2>. QED  BY <2>1, <2>2 DEF AccountInv
<1>5. ASSUME NEW o \in Orders PROVE Placed(o)
  <2>1. /\ run[o] = Off /\ ~On(Off) /\ row[o] = NoRow /\ txs[o] = <<>> /\ resv[o] = "none"
        /\ reg[o].st = "none" /\ ledger.byOrder[o] = NoSeq
    BY OffTyped DEF Init, FreshLedger, NoReg
  <2>2. ChainInv(row[o], <<>>, ledger, o, acctSeq)
    BY <2>1 DEF ChainInv
  <2>3. SubmitInv(Off, NoRow, <<>>, ledger, o)
    BY <2>1 DEF SubmitInv, NoRow, Off
  <2>4. HoldInv(Off, reg[o], <<>>, resv[o])
    BY <2>1 DEF HoldInv, Idle
  <2>. QED  BY <2>1, <2>2, <2>3, <2>4 DEF Placed
<1>. QED  BY <1>3, <1>4, <1>5 DEF PeaceInv

LEMMA NextPeace ==
  SettleInv /\ SettleInv' /\ TrackInv /\ PeaceInv /\ [Next]_vars => PeaceInv'
<1>. SUFFICES ASSUME SettleInv, SettleInv', TrackInv, PeaceInv, [Next]_vars, Peace'
              PROVE  (FundsInv /\ AccountInv /\ \A o \in Orders : Placed(o))'
  BY DEF PeaceInv
<1>1. Peace
  BY PeaceFromStart DEF SettleInv
<1>2. FundsInv /\ AccountInv /\ \A o \in Orders : Placed(o)
  BY <1>1 DEF PeaceInv
<1>3. spent \in [faults : Nat, pauses : Nat, traps : Nat, drains : Nat]
  BY SharedTyped DEF SettleInv
<1>4. CASE \E o \in Orders : Backend(o) \/ Environment(o)
  <2>1. PICK o \in Orders : Backend(o) \/ Environment(o)
    BY <1>4
  <2>2. Kept(o) /\ Noted(o)
    BY <2>1, OrderStepKeeps, OrderStepRecords DEF SettleInv, TrackInv
  <2>3. Calm(o)
    BY <1>1, <1>2 DEF Calm, SettleInv, TrackInv, Peace
  <2>4. Steady(o)
    BY <1>2, <2>1, <2>3, OrderStepSteady
  <2>5. \A p \in Orders \ {o} : Placed(p)'
    BY <1>2, <2>2, <2>4, OthersPlaced DEF TrackInv
  <2>. QED  BY <2>4, <2>5 DEF Steady
<1>5. CASE (\E o \in Orders : CallThrows(o)) \/ Crash
  <2>1. spent' = [spent EXCEPT !.faults = @ + 1]
    BY <1>5 DEF CallThrows, Crash
  <2>. QED  BY <1>3, <2>1 DEF Peace
<1>6. CASE PausePool
  <2>1. spent' = [spent EXCEPT !.pauses = @ + 1]
    BY <1>6 DEF PausePool
  <2>. QED  BY <1>3, <2>1 DEF Peace
<1>7. CASE DrainPool
  <2>1. spent' = [spent EXCEPT !.drains = @ + 1]
    BY <1>7 DEF DrainPool
  <2>. QED  BY <1>3, <2>1 DEF Peace
<1>8. CASE UnpausePool
  BY <1>2, <1>8 DEF UnpausePool, FundsInv
<1>9. CASE UNCHANGED vars
  <2>1. UNCHANGED <<run, reg, row, resv, base, ledger, txs, acctSeq, pool>>
    BY <1>9 DEF vars
  <2>2. FundsInv'
    BY <1>2, <2>1, FundsSame
  <2>3. AccountInv'
    BY <1>2, <2>1 DEF AccountInv
  <2>4. \A o \in Orders : Placed(o)'
    BY <1>2, <2>1 DEF Placed
  <2>. QED  BY <2>2, <2>3, <2>4
<1>. QED  BY <1>4, <1>5, <1>6, <1>7, <1>8, <1>9 DEF Next

LEMMA AlwaysPeace == Spec => []PeaceInv
<1>1. Init => PeaceInv
  BY InitPeace
<1>2. SettleInv /\ SettleInv' /\ TrackInv /\ PeaceInv /\ [Next]_vars => PeaceInv'
  BY NextPeace
<1>. QED  BY <1>1, <1>2, AlwaysSettles, AlwaysTracks, PTL DEF Spec

\* As long as nothing throws and the pool is neither paused nor drained, what the ledger
\* calls burned was consumed on chain, and what it calls free was not.
THEOREM BurnedReallyBurnedHolds == Spec => []BurnedReallyBurned
<1>1. SettleInv /\ TrackInv /\ PeaceInv => BurnedReallyBurned
  <2>. SUFFICES ASSUME SettleInv, TrackInv, PeaceInv, Peace
                PROVE  /\ \A s \in Seqs : ledger.status[s] = "burned" => s <= acctSeq
                       /\ \A s \in ledger.free : s > acctSeq
    BY DEF BurnedReallyBurned, Peace
  <2>1. AccountInv /\ \A o \in Orders : Placed(o)
    BY DEF PeaceInv
  <2>2. ASSUME NEW s \in ledger.free PROVE s > acctSeq
    <3>1. s \in Seqs /\ s \in Int /\ acctSeq \in Int /\ ledger.status[s] = "untracked"
      BY <2>1, SharedTyped, SeqsAreInts DEF SettleInv, Ledgers, TrackInv, LedgerInv, AccountInv
    <3>2. ASSUME s <= acctSeq PROVE FALSE
      <4>1. PICK o \in Orders : \E n \in DOMAIN txs[o] : txs[o][n].seq = s /\ Landed(txs[o][n])
        BY <2>1, <3>1, <3>2 DEF AccountInv
      <4>2. Tracked(ledger, s, o)
        BY <2>1, <4>1 DEF Placed, ChainInv
      <4>. QED  BY <3>1, <4>2 DEF Tracked
    <3>. QED  BY <3>1, <3>2
  <2>. QED  BY <2>1, <2>2 DEF AccountInv
<1>. QED  BY <1>1, AlwaysSettles, AlwaysTracks, AlwaysPeace, PTL
=============================================================================
