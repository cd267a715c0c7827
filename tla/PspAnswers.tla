----------------------------- MODULE PspAnswers -----------------------------
(***************************************************************************)
(* How the backend reads an answer of the card provider (packages/psp):    *)
(* the transport's markers, the three-valued classifier, the projectors    *)
(* that carry the payment id forward, and the charge event that comes out. *)
(*                                                                         *)
(* Of a body only the fields the code tests are kept.  A string field is   *)
(* one of its decisive values, "other", or "absent"; `echo` says that the  *)
(* token and the conversation id are present, `form` that the form's       *)
(* content is.                                                             *)
(***************************************************************************)

\* How a request ends.
Endings == {"noAnswer", "httpError", "bodyLost", "notJson", "notObject", "parsed"}

Bodies ==
  [status        : {"success", "failure", "other"},
   errorCode     : {"decline", "other"},
   paymentStatus : {"SUCCESS", "other", "absent"},
   fraudOk       : BOOLEAN,
   preAuth       : BOOLEAN,
   paymentId     : BOOLEAN,
   echo          : BOOLEAN,
   form          : BOOLEAN]

\* post(): no success-looking value comes out of a failed request.
Post(ending, b) ==
  CASE ending \in {"noAnswer", "bodyLost"} -> [kind |-> "timeout"]
    [] ending \in {"httpError", "notJson", "notObject"} -> [kind |-> "malformed"]
    [] ending = "parsed" -> [kind |-> "body", body |-> b]

\* Mutant: a hold that was never captured passes for a sale.
SaleCapturedAnyPhase(b) ==
  /\ b.paymentId
  /\ b.paymentStatus = "SUCCESS"
  /\ b.fraudOk

\* The terminal shape of a direct sale.
SaleCaptured(b) ==
  /\ b.paymentId
  /\ b.paymentStatus = "SUCCESS"
  /\ b.fraudOk
  /\ ~b.preAuth

\* Mutant: every failed charge counts as declined, not only those on the list.
ClassifyIyzicoResultAnyFailure(raw, op) ==
  IF raw.kind # "body" THEN "UNKNOWN" ELSE
  CASE raw.body.status = "failure" -> "FAILURE"
    [] raw.body.status = "success" /\ (op = "void" \/ SaleCaptured(raw.body)) -> "SUCCESS"
    [] OTHER -> "UNKNOWN"

\* The classifier for the two operations the backend asks about.
ClassifyIyzicoResult(raw, op) ==
  IF raw.kind # "body" THEN "UNKNOWN" ELSE
  CASE raw.body.status = "failure" ->
         IF op = "void" \/ raw.body.errorCode = "decline" THEN "FAILURE" ELSE "UNKNOWN"
    [] raw.body.status = "success" /\ (op = "void" \/ SaleCaptured(raw.body)) -> "SUCCESS"
    [] OTHER -> "UNKNOWN"

ProjectCheckoutFormInit(raw) ==
  raw.kind = "body" /\ raw.body.echo /\ raw.body.form

ProjectCheckoutFormResult(raw) ==
  /\ raw.kind = "body"
  /\ raw.body.echo
  /\ raw.body.paymentId
  /\ raw.body.paymentStatus # "absent"

ChargeEvent(raw) ==
  CASE ClassifyIyzicoResult(raw, "sale") = "SUCCESS" -> "chargeOk"
    [] ClassifyIyzicoResult(raw, "sale") = "FAILURE" -> "chargeRejected"
    [] OTHER -> "chargeUnknown"

\* What a retrieve makes of one answer: the event, and whether a payment id was
\* carried into the ctx.  Without one there is no event but "unknown".
ChargeRead(raw) ==
  [pid   |-> ProjectCheckoutFormResult(raw),
   event |-> IF ProjectCheckoutFormResult(raw) THEN ChargeEvent(raw) ELSE "chargeUnknown"]

-----------------------------------------------------------------------------
(* What the provider answers (external).                                   *)

\* The money has been taken: the whole record of the sale.
IsCaptured(b) ==
  /\ b.status = "success"
  /\ b.paymentStatus = "SUCCESS"
  /\ b.fraudOk
  /\ ~b.preAuth
  /\ b.paymentId

\* The bank's last word on the card.
IsDeclined(b) ==
  /\ b.status = "failure"
  /\ b.errorCode = "decline"

\* What the backend may read of a sale: a paid one answers with its record, a
\* declined one with its refusal (with or without the other fields), an open form
\* with anything short of either; and any request may be lost.
ReadsOf(bodies) == {ChargeRead(Post(e, b)) : e \in Endings, b \in bodies}

PaidReads     == ReadsOf({b \in Bodies : IsCaptured(b) /\ b.echo})
DeclinedReads == ReadsOf({b \in Bodies : IsDeclined(b)})
OpenReads     == ReadsOf({b \in Bodies : ~IsCaptured(b) /\ ~IsDeclined(b)})

ChargeReads(sale) ==
  CASE sale = "paid" -> PaidReads
    [] sale = "declined" -> DeclinedReads
    [] OTHER -> OpenReads

VoidReads == {ClassifyIyzicoResult(Post(e, b), "void") : e \in Endings, b \in Bodies}

FormReads == {ProjectCheckoutFormInit(Post(e, b)) : e \in Endings, b \in Bodies}
=============================================================================
