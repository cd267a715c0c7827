---------------------------- MODULE OrderMachine ----------------------------
(***************************************************************************)
(* The settlement state machine of packages/core/src/state-machine.ts: a   *)
(* pure table from (state, event) to (state, effects), and the backend's   *)
(* guard that no uncertain observation drives a money-moving effect.       *)
(*                                                                         *)
(* The three events that carry retriesRemaining appear once per value of   *)
(* the flag: deadRetry / deadExhausted, revertRetry / revertExhausted,     *)
(* reversalRetry / reversalExhausted.                                      *)
(***************************************************************************)
EXTENDS Sequences, Naturals

States ==
  {"Reserved", "SolvencyReserved", "UsdcSubmitted", "UsdcConfirmed", "UsdcPending",
   "UsdcDead", "UsdcReverted", "ChargeReversing", "ChargeReversed", "Reconciled",
   "LossReview", "FailedClean"}

AbsoluteTerminals == {"Reconciled", "FailedClean", "ChargeReversed"}

\* Effects that move money or place or void a charge.
MutationEffects ==
  {"fireCheckoutForm", "allocateSeq", "submitPay", "submitReplacementSameSeq",
   "reallocateSeq", "fireCancel"}

Edge(from, event, to, effects) ==
  [from |-> from, event |-> event, to |-> to, effects |-> effects]

\* The edges `transition` lists, state by state.
Table == {
  Edge("Reserved", "solvencyOk", "SolvencyReserved", <<"fireCheckoutForm">>),
  Edge("Reserved", "solvencyFail", "FailedClean", <<>>),
  Edge("Reserved", "solvencyUnknown", "Reserved", <<"rePollObserveOnly">>),

  Edge("SolvencyReserved", "chargeOk", "UsdcSubmitted",
       <<"allocateSeq", "persistInFlight", "submitPay">>),
  Edge("SolvencyReserved", "chargeRejected", "FailedClean", <<"releaseReservation">>),
  Edge("SolvencyReserved", "chargeUnknown", "SolvencyReserved", <<"rePollObserveOnly">>),
  Edge("SolvencyReserved", "checkoutInitFailed", "FailedClean", <<"releaseReservation">>),

  Edge("UsdcSubmitted", "recover", "UsdcSubmitted", <<"rePollObserveOnly">>),
  Edge("UsdcSubmitted", "recoverResubmit", "UsdcSubmitted",
       <<"persistInFlight", "submitReplacementSameSeq">>),
  Edge("UsdcSubmitted", "evidenceSuccess", "UsdcConfirmed", <<"handToReconciler">>),
  Edge("UsdcSubmitted", "evidenceReverted", "UsdcReverted", <<"confirmBurnedSeq">>),
  Edge("UsdcSubmitted", "evidencePending", "UsdcPending", <<"rePollObserveOnly">>),

  Edge("UsdcPending", "pollStillPending", "UsdcPending", <<"rePollObserveOnly">>),
  Edge("UsdcPending", "pollDead", "UsdcDead", <<>>),
  Edge("UsdcPending", "evidenceSuccess", "UsdcConfirmed", <<"handToReconciler">>),
  Edge("UsdcPending", "evidenceReverted", "UsdcReverted", <<"confirmBurnedSeq">>),

  Edge("UsdcDead", "deadRetry", "UsdcSubmitted",
       <<"persistInFlight", "submitReplacementSameSeq">>),
  Edge("UsdcDead", "deadExhausted", "ChargeReversing",
       <<"releaseSeq", "releaseReservation", "fireCancel">>),

  Edge("UsdcReverted", "revertAlreadyProcessed", "UsdcConfirmed", <<>>),
  Edge("UsdcReverted", "revertBalanceGuard", "ChargeReversing",
       <<"releaseReservation", "fireCancel">>),
  Edge("UsdcReverted", "revertRetry", "UsdcSubmitted",
       <<"reallocateSeq", "persistInFlight", "submitPay">>),
  Edge("UsdcReverted", "revertExhausted", "LossReview", <<"flagLoss">>),

  Edge("UsdcConfirmed", "reconciled", "Reconciled", <<>>),

  Edge("ChargeReversing", "reversalConfirmed", "ChargeReversed", <<>>),
  Edge("ChargeReversing", "reversalUnknown", "ChargeReversing", <<"rePollObserveOnly">>),
  Edge("ChargeReversing", "reversalRetry", "ChargeReversing", <<"fireCancel">>),
  Edge("ChargeReversing", "reversalExhausted", "LossReview", <<"flagLoss">>)}

\* Redeliveries absorbed without a change.
Ignores(state, event) ==
  \/ state \in AbsoluteTerminals \cup {"LossReview"}
  \/ state = "UsdcConfirmed" /\ event # "reconciled"

Accepts(state, event) == \E e \in Table : e.from = state /\ e.event = event

Transition(state, event) == CHOOSE e \in Table : e.from = state /\ e.event = event

\* isObserveOnlyEvent: the uncertain observations.
ObserveOnlyEvents ==
  {"solvencyUnknown", "chargeUnknown", "reversalUnknown", "recover",
   "pollStillPending", "evidencePending"}

ContainsMutation(effects) == \E i \in DOMAIN effects : effects[i] \in MutationEffects

\* assertNoMutationOnUnknown lets the edge through.
GuardPasses(event, effects) ==
  ~(event \in ObserveOnlyEvents /\ ContainsMutation(effects))
=============================================================================
