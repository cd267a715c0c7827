------------------------------ MODULE BankDesk ------------------------------
(***************************************************************************)
(* The bank side of a bank-transfer checkout: the durable journal of       *)
(* TrMockAnchorProvider, the anchor that holds the transfers (external),   *)
(* and the exact match that turns an observed transfer into a charge.      *)
(*                                                                         *)
(* An order has one firm quote, so a transfer at the anchor is known by    *)
(* the order whose quote it carries.  A transfer's id is its position in   *)
(* the anchor's list; the chain credit that pays it out has the same       *)
(* number.  Amounts, IBAN and references are equal or the match fails, so  *)
(* they are not represented.                                               *)
(***************************************************************************)
EXTENDS Naturals, Sequences, FiniteSets

CONSTANTS
  Orders,    \* order references
  NoOrder,   \* no order
  MaxSlips   \* bound: how often the anchor answers with another credit

ASSUME BankAssumption == NoOrder \notin Orders /\ MaxSlips \in Nat

VARIABLES
  desk,      \* anchor_transfers: the journal row of each order
  creating,  \* the createOnce in progress for an order, by the call it awaits
  afloat,    \* deposit requests sent and not yet taken by the anchor (external)
  transfers, \* the anchor's transfers, oldest first (external)
  receipts,  \* anchor_receipts: the order each chain credit was used for
  overdue,   \* orders whose payment deadline has passed
  slips      \* how much of MaxSlips is used up

bankVars == <<desk, creating, afloat, transfers, receipts, overdue, slips>>

NoRow == [quoted |-> FALSE, dispatched |-> FALSE, instr |-> 0]

BankInit ==
  /\ desk = [o \in Orders |-> NoRow]
  /\ creating = [o \in Orders |-> "no"]
  /\ afloat = [o \in Orders |-> 0]
  /\ transfers = <<>>
  /\ receipts = [t \in 1 .. 0 |-> NoOrder]
  /\ overdue = {}
  /\ slips = 0

-----------------------------------------------------------------------------
(* createOnce, one step per await.                                         *)

\* Mutant: the deposit request is not claimed in the journal before it is sent.
ClaimedUnrecorded(row) == row

\* "UPDATE ... SET dispatched=1 WHERE dispatched=0": the claim that is written
\* before the deposit request leaves.
Claimed(row) == [row EXCEPT !.dispatched = TRUE]

\* From a quoted row: send the deposit request, unless one was ever sent, in
\* which case only the anchor's history may answer.
Dispatch(o, row) ==
  IF row.dispatched
  THEN /\ desk' = [desk EXCEPT ![o] = row]
       /\ creating' = [creating EXCEPT ![o] = "history"]
       /\ UNCHANGED afloat
  ELSE /\ desk' = [desk EXCEPT ![o] = Claimed(row)]
       /\ creating' = [creating EXCEPT ![o] = "deposit"]
       /\ afloat' = [afloat EXCEPT ![o] = @ + 1]

\* A create that does not find stored instructions and is not past the deadline.
CreateBegin(o) ==
  /\ creating[o] = "no"
  /\ o \notin overdue
  /\ desk[o].instr = 0
  /\ IF desk[o].quoted
     THEN Dispatch(o, desk[o])
     ELSE /\ creating' = [creating EXCEPT ![o] = "quote"]
          /\ UNCHANGED <<desk, afloat>>
  /\ UNCHANGED <<transfers, receipts, overdue, slips>>

\* The firm quote arrives, covers the merchant and outlives the deadline.
QuoteAnswered(o) ==
  /\ creating[o] = "quote"
  /\ Dispatch(o, [desk[o] EXCEPT !.quoted = TRUE])
  /\ UNCHANGED <<transfers, receipts, overdue, slips>>

CarryingQuote(o) == {t \in DOMAIN transfers : transfers[t].o = o}

\* The history names exactly one transfer under the durable quote id.
Recovered(o) == Cardinality(CarryingQuote(o)) = 1

\* The deposit's answer, or the history, names the transfer; the instructions
\* are stored once.
InstructionsStored(o) ==
  /\ \/ creating[o] = "deposit" /\ CarryingQuote(o) # {}
     \/ creating[o] = "history" /\ Recovered(o)
  /\ \E t \in CarryingQuote(o) : desk' = [desk EXCEPT ![o].instr = t]
  /\ creating' = [creating EXCEPT ![o] = "no"]
  /\ UNCHANGED <<afloat, transfers, receipts, overdue, slips>>

\* The awaited call fails, is refused, or its answer is lost: createOnce throws
\* and initializeBankTransfer turns that into "not yet".
CreateThrows(o) ==
  /\ creating[o] # "no"
  /\ creating' = [creating EXCEPT ![o] = "no"]
  /\ UNCHANGED <<desk, afloat, transfers, receipts, overdue, slips>>

-----------------------------------------------------------------------------
(* The anchor and the customer's bank (external).                          *)

\* A deposit request reaches the anchor, however late; SEP-6 promises no
\* idempotency, so every request makes a transfer.
AnchorTakes(o) ==
  /\ afloat[o] > 0
  /\ afloat' = [afloat EXCEPT ![o] = @ - 1]
  /\ transfers' = Append(transfers, [o |-> o, st |-> "waiting", late |-> FALSE])
  /\ receipts' = [t \in 1 .. (Len(transfers) + 1) |->
                    IF t \in DOMAIN receipts THEN receipts[t] ELSE NoOrder]
  /\ UNCHANGED <<desk, creating, overdue, slips>>

\* The customer's lira arrives on transfer t and is paid out on chain.
Funded(t) ==
  /\ transfers[t].st = "waiting"
  /\ transfers' = [transfers EXCEPT ![t].st = "completed",
                                    ![t].late = transfers[t].o \in overdue]
  /\ UNCHANGED <<desk, creating, afloat, receipts, overdue, slips>>

\* simulate: the sandbox's own transfer for the instructions of order o.
Simulated(o) == desk[o].instr # 0 /\ Funded(desk[o].instr)

Overdue(o) ==
  /\ o \notin overdue
  /\ overdue' = overdue \cup {o}
  /\ UNCHANGED <<desk, creating, afloat, transfers, receipts, slips>>

-----------------------------------------------------------------------------
(* retrieve and bankTransferEvent.                                         *)

\* The credits the anchor may name for transfer t: its own once completed, or,
\* as a slip, that of any completed transfer.
Named(t) == {c \in DOMAIN transfers :
               /\ transfers[c].st = "completed"
               /\ c = t \/ slips < MaxSlips}

\* Mutant: a receipt is not bound to the order it was used for.
ReceiptsUnbound(o, c) == [receipts EXCEPT ![c] = o]

\* INSERT OR IGNORE with both columns unique.
Receipts(o, c) ==
  IF receipts[c] = NoOrder /\ \A d \in DOMAIN receipts : receipts[d] # o
  THEN [receipts EXCEPT ![c] = o] ELSE receipts

\* What the poll worker makes of the order's transfer when the anchor names
\* credit c (0: not completed yet): the core event and the review flag.
BankEvent(o, c) ==
  CASE c = 0 -> [event |-> "chargeUnknown", review |-> FALSE]
    [] c > 0 /\ ~transfers[c].late /\ Receipts(o, c)[c] = o ->
         [event |-> "chargeOk", review |-> FALSE]
    [] OTHER -> [event |-> "chargeUnknown", review |-> TRUE]

\* The credit is read from the anchor and the chain, then the receipt written.
Observed(o, c) ==
  LET t == desk[o].instr IN
  /\ t # 0
  /\ c \in Named(t) \cup (IF transfers[t].st = "waiting" THEN {0} ELSE {})
  /\ slips' = IF c \in {0, t} THEN slips ELSE slips + 1
  /\ receipts' = IF c = 0 \/ transfers[c].late THEN receipts ELSE Receipts(o, c)
  /\ UNCHANGED <<desk, creating, afloat, transfers, overdue>>

-----------------------------------------------------------------------------

BankTypeOK ==
  /\ desk \in [Orders -> [quoted : BOOLEAN, dispatched : BOOLEAN, instr : Nat]]
  /\ creating \in [Orders -> {"no", "quote", "deposit", "history"}]
  /\ afloat \in [Orders -> Nat]
  /\ \A t \in DOMAIN transfers :
       transfers[t] \in [o : Orders, st : {"waiting", "completed"}, late : BOOLEAN]
  /\ DOMAIN receipts = DOMAIN transfers
  /\ overdue \subseteq Orders
  /\ slips \in 0 .. MaxSlips

\* One order never has two transfers at the anchor, in being or on their way,
\* whatever is lost and however often the create is retried or the process
\* restarted (createOnce: the claim is durable before the request leaves).
OneTransfer ==
  \A o \in Orders : Cardinality(CarryingQuote(o)) + afloat[o] <= 1
=============================================================================
