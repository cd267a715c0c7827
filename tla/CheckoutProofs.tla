--------------------------- MODULE CheckoutProofs ---------------------------
(***************************************************************************)
(* Theorems about the checkout, for any orders, shoppers, poll budgets and *)
(* numbers of banners, replies, slips and mishaps.                         *)
(*                                                                         *)
(* The inductive invariant says, beside the types: an order reference is   *)
(* in no message before it is minted (FreshInv); what a message of the     *)
(* banner at hand is about (HandleInv); what is true of an order whose     *)
(* status somebody was told (OrderInv); what the bank's desk and the       *)
(* anchor hold of an order (BankInv); and where the wizard stands while a  *)
(* set of instructions is open (WizardInv).                                *)
(***************************************************************************)
EXTENDS Checkout, FiniteSetTheorems, SequenceTheorems, TLAPS

Refs == Orders \cup {NoOrder}
UiStates == {"none", "pay", "busy", "polling", "retry", "info", "gaveUp"}
CallStates == {"sent", "resent", "creating", "form", "opening", "bank", "clean", "other"}
Transfers == [o : Orders, st : {"waiting", "completed"}, late : BOOLEAN]

UiType == [h : 0 .. MaxHandles, o : Refs, at : UiStates, uri : Refs,
           retrying : BOOLEAN, active : Refs]
TimerType == [h : 0 .. MaxHandles, o : Refs, saw : BOOLEAN, n : 0 .. (PendingPolls + ConfirmPolls)]
CallType == [h : 0 .. MaxHandles, o : Orders, m : Methods, st : CallStates]
ReplyType == [h : 0 .. MaxHandles, o : Orders, n : Nat, st : Statuses]
RecordType == [st : Statuses, m : Methods, tok : BOOLEAN, review : BOOLEAN]

UiTyped == ui \in UiType /\ timer \in TimerType /\ (timer.h # 0 => timer.o \in Orders)

PageTyped ==
  /\ shop \in [memo : Refs, shown : BOOLEAN, cart : BOOLEAN]
  /\ placed \in [Orders -> Nat] /\ notes \in [Orders -> Nat]
  /\ retired \subseteq Orders /\ seen \subseteq Orders /\ forms \subseteq Orders /\ stored \in Refs

WireTyped ==
  /\ replies \subseteq ReplyType
  /\ ord \in [Orders -> RecordType]
  /\ sales \in [Orders -> {"none", "charged", "declined"}]

\* One intent is under way for a handle; instructions are those of an order that exists,
\* forms are for cards.
CallInv ==
  /\ calls \subseteq CallType
  /\ \A c, d \in calls : c.h # 0 /\ d.h = c.h => d = c
  /\ \A c \in calls : /\ c.st \in {"bank", "creating"} => ord[c.o].st # "none"
                      /\ c.st \in {"form", "opening"} => c.m = "card"

\* An order reference shows up nowhere before it is minted.
FreshInv ==
  /\ \E s \in Shoppers : surface = s.at /\ pays = s.pays /\ fresh \subseteq s.refs
  /\ {shop.memo, ui.o, stored} \cap fresh = {}
  /\ (forms \cup seen \cup retired) \cap fresh = {}
  /\ \A c \in calls : c.o \notin fresh

\* No message has a handle to come; one of the storefront's banner is about its order.
HandleInv ==
  /\ ui.at # "none" => ui.h # 0
  /\ ui.retrying => ui.at # "none"
  /\ ui.at = "pay" => \A c \in calls : c.h # ui.h
  /\ timer.h <= ui.h
  /\ \A m \in calls \cup replies : m.h <= ui.h
  /\ \A r \in replies : r.h # 0
  /\ surface = "store" /\ ui.at # "none" =>
       /\ ui.o \in Orders
       /\ timer.h = ui.h => timer.o = ui.o
       /\ \A m \in calls \cup replies : m.h = ui.h => m.o = ui.o
  /\ ui.at = "retry" \/ ui.retrying => /\ surface = "store"
                                       /\ ui.o \in Orders
                                       /\ ord[ui.o].st = "failed"

\* What was told of an order stays true of it; an order that failed was never charged.
OrderInv ==
  /\ \A r \in replies : r.st \in {"failed", "completed"} => ord[r.o].st = r.st
  /\ \A o \in retired : ord[o].st = "failed"
  /\ \A o \in Orders :
       /\ notes[o] > 0 \/ placed[o] > 0 => ord[o].st = "completed"
       /\ ord[o].st = "none" => ord[o] = NoRecord /\ sales[o] = "none"
       /\ ord[o].st = "failed" => ord[o].m = "card" /\ sales[o] # "charged"

BankTyped ==
  /\ desk \in [Orders -> [quoted : BOOLEAN, dispatched : BOOLEAN, instr : Nat]]
  /\ creating \in [Orders -> {"no", "quote", "deposit", "history"}]
  /\ afloat \in [Orders -> Nat]
  /\ transfers \in Seq(Transfers)
  /\ receipts \in [1 .. Len(transfers) -> Refs]
  /\ overdue \subseteq Orders
  /\ slips \in 0 .. MaxSlips

\* At most one deposit request of an order was ever sent: it is on its way, or it is the
\* one transfer that carries the order's quote.
AtMostOne(o) ==
  \/ CarryingQuote(o) = {} /\ afloat[o] \in {0, 1}
  \/ afloat[o] = 0 /\ \E t \in DOMAIN transfers : CarryingQuote(o) = {t}

\* A credit that came in time is bound to the order.
Backed(o) ==
  \E t \in DOMAIN transfers : /\ receipts[t] = o
                              /\ transfers[t].st = "completed" /\ ~transfers[t].late

\* What was sent to the anchor for an order, and what came of it.
DeskInv(o) ==
  /\ AtMostOne(o)
  /\ ~desk[o].dispatched => CarryingQuote(o) = {} /\ afloat[o] = 0
  /\ desk[o].instr # 0 => desk[o].instr \in CarryingQuote(o)

\* The order record and the desk agree.
LinkInv(o) ==
  /\ ord[o].m = "card" => desk[o] = NoRow /\ creating[o] = "no"
  /\ ord[o].m = "bank_transfer" /\ ord[o].tok => desk[o].instr # 0
  /\ ord[o].m = "bank_transfer" /\ ord[o].st \in {"processing", "completed"} => Backed(o)

BankInv == \A o \in Orders : DeskInv(o) /\ LinkInv(o)

Open(o) == ord[o].st = "pending" /\ o \notin overdue

\* While instructions the wizard has shown are open it stays with them, across reloads.
WizardInv ==
  surface = "wizard" =>
    /\ \A o \in seen : ord[o].st # "none" /\ (Open(o) => stored = o /\ ui.active = o)
    /\ stored # NoOrder => stored \in seen
    /\ ui.at \in {"none", "busy", "pay"} => ui.active = NoOrder /\ timer = NoTimer
    /\ ui.at \in {"busy", "pay"} => \A r \in replies : r.h # ui.h
    /\ timer.h # 0 => timer.h = ui.h /\ ui.active \in {NoOrder, timer.o}
    /\ \A r \in replies : r.h = ui.h => ui.active \in {NoOrder, r.o}
    /\ \A c \in calls : c.h = ui.h /\ c.h # 0 => ui.at = "busy"

CheckoutInv ==
  /\ UiTyped /\ PageTyped /\ WireTyped /\ BankTyped
  /\ CallInv /\ FreshInv /\ HandleInv /\ OrderInv /\ BankInv /\ WizardInv

-----------------------------------------------------------------------------
(* What leaves a part of the invariant alone.                              *)

LEMMA UiFrame == ASSUME UiTyped, UNCHANGED <<ui, timer>> PROVE UiTyped'
BY DEF UiTyped

LEMMA PageFrame ==
  ASSUME PageTyped, UNCHANGED <<shop, placed, notes, retired, seen, forms, stored>>
  PROVE  PageTyped'
BY DEF PageTyped

LEMMA WireFrame == ASSUME WireTyped, UNCHANGED <<replies, ord, sales>> PROVE WireTyped'
BY DEF WireTyped

LEMMA CallFrame == ASSUME CallInv, UNCHANGED <<calls, ord>> PROVE CallInv'
BY DEF CallInv

LEMMA FreshFrame ==
  ASSUME FreshInv, UNCHANGED <<surface, pays, fresh, shop, ui, stored, forms, seen, retired, calls>>
  PROVE  FreshInv'
BY DEF FreshInv

LEMMA HandleFrame ==
  ASSUME HandleInv, UNCHANGED <<surface, ui, timer, calls, replies, ord>>
  PROVE  HandleInv'
BY DEF HandleInv

LEMMA OrderFrame ==
  ASSUME OrderInv, UNCHANGED <<replies, retired, notes, placed, ord, sales>>
  PROVE  OrderInv'
BY DEF OrderInv

LEMMA BankFrame ==
  ASSUME BankTyped, BankInv, UNCHANGED <<bankVars, ord>>
  PROVE  BankTyped' /\ BankInv'
BY DEF BankTyped, BankInv, DeskInv, LinkInv, bankVars, AtMostOne, Backed, CarryingQuote

LEMMA WizardFrame ==
  ASSUME WizardInv, UNCHANGED <<surface, seen, stored, ord, overdue, ui, timer, replies, calls>>
  PROVE  WizardInv'
BY DEF WizardInv, Open

\* Constants and sets the steps draw from.
LEMMA Basics ==
  ASSUME CheckoutInv
  PROVE  /\ fresh \subseteq Orders /\ pays \subseteq Methods /\ (fresh # {} => Fresh \in fresh)
         /\ surface \in {"store", "wizard"} /\ NoOrder \notin Orders
         /\ MaxHandles \in Nat /\ PendingPolls \in Nat /\ ConfirmPolls \in Nat
         /\ NoTimer \in TimerType /\ NoTimer.h = 0
BY CheckoutAssumption, BankAssumption DEF CheckoutInv, FreshInv, Fresh, NoTimer, TimerType, Refs

\* Fields of the client's records.
LEMMA UiFields ==
  ASSUME CheckoutInv
  PROVE  /\ ui.h \in 0 .. MaxHandles /\ ui.h \in Nat /\ ui.o \in Refs /\ ui.at \in UiStates
         /\ ui.uri \in Refs /\ ui.retrying \in BOOLEAN /\ ui.active \in Refs
         /\ timer.h \in 0 .. MaxHandles /\ timer.h \in Nat /\ timer.o \in Refs /\ timer.n \in Nat
         /\ shop.memo \in Refs
BY Basics DEF CheckoutInv, UiTyped, PageTyped, UiType, TimerType

\* Fields of the messages.
LEMMA WireFields ==
  ASSUME CheckoutInv
  PROVE  /\ \A c \in calls : /\ c.h \in Nat /\ c.h \in 0 .. MaxHandles /\ c.o \in Orders
                             /\ c.m \in Methods /\ c.st \in CallStates
         /\ \A r \in replies : /\ r.h \in Nat /\ r.h \in 0 .. MaxHandles /\ r.o \in Orders
                               /\ r.st \in Statuses
         /\ \A o \in Orders : ord[o].st \in Statuses /\ ord[o].m \in Methods
BY Basics DEF CheckoutInv, CallInv, WireTyped, CallType, ReplyType, RecordType

-----------------------------------------------------------------------------
(* The storefront's page.                                                  *)

LEMMA FillCartKeeps == ASSUME CheckoutInv, FillCart PROVE CheckoutInv'
<1>. USE DEF CheckoutInv
<1>1. /\ UNCHANGED <<surface, pays, fresh, placed, retired, ui, timer, notes, seen, stored>>
      /\ UNCHANGED <<calls, replies, forms, ord, sales, bankVars, overdue>>
  BY DEF FillCart, wireVars, bankVars
<1>2. /\ shop' \in [memo : Refs, shown : BOOLEAN, cart : BOOLEAN] /\ shop'.memo = shop.memo
  BY DEF FillCart, PageTyped
<1>3. PageTyped'
  BY <1>1, <1>2 DEF PageTyped
<1>4. FreshInv'
  BY <1>1, <1>2 DEF FreshInv
<1>. QED
  BY <1>1, <1>3, <1>4, UiFrame, WireFrame, CallFrame, HandleFrame, OrderFrame, BankFrame, WizardFrame

LEMMA OpenCheckoutKeeps == ASSUME CheckoutInv, OpenCheckout PROVE CheckoutInv'
<1>. USE DEF CheckoutInv
<1>1. /\ UNCHANGED <<surface, pays, placed, retired, ui, timer, notes, seen, stored>>
      /\ UNCHANGED <<calls, replies, forms, ord, sales, bankVars, overdue>>
  BY DEF OpenCheckout, wireVars, bankVars
<1>2. /\ shop' \in [memo : Refs, shown : BOOLEAN, cart : BOOLEAN] /\ shop'.memo = Fresh
      /\ fresh' = fresh \ {Fresh} /\ Fresh \in fresh
  BY Basics DEF OpenCheckout, PageTyped, Refs
<1>3. PageTyped'
  BY <1>1, <1>2 DEF PageTyped
<1>4. FreshInv'
  BY <1>1, <1>2 DEF FreshInv
<1>. QED
  BY <1>1, <1>3, <1>4, UiFrame, WireFrame, CallFrame, HandleFrame, OrderFrame, BankFrame, WizardFrame

LEMMA LeavePayStepKeeps == ASSUME CheckoutInv, LeavePayStep PROVE CheckoutInv'
<1>. USE DEF CheckoutInv
<1>1. /\ UNCHANGED <<surface, pays, fresh, placed, retired, ui, timer, notes, seen, stored>>
      /\ UNCHANGED <<calls, replies, forms, ord, sales, bankVars, overdue>>
  BY DEF LeavePayStep, wireVars, bankVars
<1>2. /\ shop' \in [memo : Refs, shown : BOOLEAN, cart : BOOLEAN]
      /\ shop'.memo \in {shop.memo, NoOrder}
  <2>1. CASE shop' = [shop EXCEPT !.shown = ~@]
    BY <2>1 DEF PageTyped
  <2>2. CASE shop' = [shop EXCEPT !.memo = NoOrder, !.shown = FALSE]
    BY <2>2 DEF PageTyped, Refs
  <2>. QED  BY <2>1, <2>2 DEF LeavePayStep
<1>3. PageTyped'
  BY <1>1, <1>2 DEF PageTyped
<1>4. FreshInv'
  BY <1>1, <1>2, Basics DEF FreshInv
<1>. QED
  BY <1>1, <1>3, <1>4, UiFrame, WireFrame, CallFrame, HandleFrame, OrderFrame, BankFrame, WizardFrame

\* Only a completed order has a note, and completed is for good.
LEMMA NoteArrivesKeeps ==
  ASSUME CheckoutInv, NEW o \in Orders, NoteArrives(o)
  PROVE  CheckoutInv'
<1>. USE DEF CheckoutInv
<1>1. /\ UNCHANGED <<surface, pays, fresh, retired, ui, timer, seen, stored>>
      /\ UNCHANGED <<calls, replies, forms, ord, sales, bankVars, overdue>>
  BY DEF NoteArrives, wireVars, bankVars
<1>2. shop' \in [memo : Refs, shown : BOOLEAN, cart : BOOLEAN] /\ shop'.memo \in {shop.memo, NoOrder}
  <2>1. CASE shop.cart
    <3>1. shop' = [memo |-> NoOrder, shown |-> FALSE, cart |-> FALSE]
      BY <2>1 DEF NoteArrives
    <3>. QED  BY <3>1 DEF Refs
  <2>2. CASE ~shop.cart
    BY <2>2 DEF NoteArrives, PageTyped
  <2>. QED  BY <2>1, <2>2
<1>3. /\ placed' \in [Orders -> Nat] /\ notes' \in [Orders -> Nat]
      /\ \A p \in Orders : notes'[p] > 0 \/ placed'[p] > 0 => notes[p] > 0 \/ placed[p] > 0
  BY DEF NoteArrives, PageTyped
<1>4. PageTyped'
  BY <1>1, <1>2, <1>3 DEF PageTyped
<1>5. FreshInv'
  BY <1>1, <1>2, Basics DEF FreshInv
<1>6. OrderInv'
  BY <1>1, <1>3 DEF OrderInv
<1>. QED
  BY <1>1, <1>4, <1>5, <1>6, UiFrame, WireFrame, CallFrame, HandleFrame, BankFrame, WizardFrame

-----------------------------------------------------------------------------
(* The content script and the wizard.                                      *)

\* A new intent has a handle of its own.
LEMMA CallAdded ==
  ASSUME CheckoutInv, NEW h \in 1 .. MaxHandles, NEW o \in Orders, NEW m \in Methods,
         calls' = calls \cup {Intent(h, o, m)}, \A c \in calls : c.h # h, ord' = ord
  PROVE  CallInv'
<1>. DEFINE i == Intent(h, o, m)
<1>1. i \in CallType /\ i.h = h /\ i.st = "sent"
  BY Basics DEF Intent, CallType, CallStates
<1>. HIDE DEF i
<1>. QED  BY <1>1 DEF CheckoutInv, CallInv, i

\* The page changed: another banner, or none.
LEMMA ScanKeeps == ASSUME CheckoutInv, Scan PROVE CheckoutInv'
<1>. USE DEF CheckoutInv
<1>1. /\ UNCHANGED <<surface, pays, shop, fresh, placed, retired, notes, seen, stored>>
      /\ UNCHANGED <<replies, forms, ord, sales, bankVars, overdue>>
      /\ surface = "store" /\ timer' = NoTimer
  BY DEF Scan, bankVars
<1>2. \A c \in calls : c.h <= ui.h
  BY DEF HandleInv
<1>3. CASE Uri = NoOrder
  <2>1. ui' = [NoUi EXCEPT !.h = ui.h] /\ calls' = calls
    BY <1>3 DEF Scan
  <2>2. /\ ui' \in UiType /\ ui'.h = ui.h /\ ui'.at = "none" /\ ui'.o = NoOrder /\ ~ui'.retrying
    BY <2>1, UiFields DEF NoUi, UiType, Refs, UiStates
  <2>3. UiTyped' /\ FreshInv'
    BY <1>1, <2>1, <2>2, Basics DEF UiTyped, FreshInv
  <2>4. HandleInv'
    BY <1>1, <2>1, <2>2, Basics, UiFields DEF HandleInv
  <2>5. WizardInv'
    BY <1>1 DEF WizardInv
  <2>. QED  BY <1>1, <2>1, <2>3, <2>4, <2>5, PageFrame, WireFrame, CallFrame, OrderFrame, BankFrame
<1>4. CASE Uri # NoOrder
  <2>1. Uri \in Orders /\ Uri = shop.memo /\ ui.h + 1 \in 1 .. MaxHandles
    BY <1>4, Basics, UiFields DEF Uri, Scan, Refs
  <2>2. /\ ui' \in UiType /\ ui'.h = ui.h + 1 /\ ui'.o = Uri /\ ~ui'.retrying
        /\ ui'.at = IF ui.retrying THEN "busy" ELSE "pay"
    <3>1. PICK a \in UiStates :
            /\ a = IF ui.retrying THEN "busy" ELSE "pay"
            /\ ui' = [NoUi EXCEPT !.h = ui.h + 1, !.o = Uri, !.uri = Uri, !.at = a]
      <4>1. CASE ui.retrying
        <5>1. ui' = [NoUi EXCEPT !.h = ui.h + 1, !.o = Uri, !.uri = Uri, !.at = "busy"]
          BY <1>4, <4>1, Zenon DEF Scan
        <5>. QED  BY <4>1, <5>1, Zenon DEF UiStates
      <4>2. CASE ~ui.retrying
        <5>1. ui' = [NoUi EXCEPT !.h = ui.h + 1, !.o = Uri, !.uri = Uri, !.at = "pay"]
          BY <1>4, <4>2, Zenon DEF Scan
        <5>. QED  BY <4>2, <5>1, Zenon DEF UiStates
      <4>. QED  BY <4>1, <4>2
    <3>2. ui' = [h |-> ui.h + 1, o |-> Uri, at |-> a, uri |-> Uri, retrying |-> FALSE,
                 active |-> NoOrder]
      BY <3>1 DEF NoUi
    <3>3. /\ ui' \in UiType /\ ui'.h = ui.h + 1 /\ ui'.o = Uri /\ ~ui'.retrying /\ ui'.at = a
      BY <2>1, <3>2 DEF UiType, Refs
    <3>. QED  BY <3>1, <3>3
  <2>3. \/ ui'.at = "pay" /\ calls' = calls
        \/ ui'.at = "busy" /\ \E m \in Methods : calls' = calls \cup {Intent(ui.h + 1, Uri, m)}
    <3>1. CASE ui.retrying
      <4>1. ord[ui.o].m \in Methods
        BY <3>1, WireFields DEF HandleInv
      <4>2. calls' = calls \cup {Intent(ui.h + 1, Uri, ord[ui.o].m)}
        BY <1>4, <3>1 DEF Scan
      <4>. QED  BY <2>2, <3>1, <4>1, <4>2
    <3>2. CASE ~ui.retrying
      BY <1>4, <2>2, <3>2 DEF Scan
    <3>. QED  BY <3>1, <3>2
  <2>4. CallInv'
    <3>1. \A c \in calls : c.h # ui.h + 1
      BY <1>2, UiFields, WireFields
    <3>. QED  BY <1>1, <2>1, <2>3, <3>1, CallAdded, CallFrame
  <2>5. UiTyped'
    BY <1>1, <2>2, Basics DEF UiTyped
  <2>6. \A c \in calls' : c \in calls \/ (c.h = ui.h + 1 /\ c.o = Uri)
    BY <2>3 DEF Intent
  <2>7. FreshInv'
    BY <1>1, <2>1, <2>2, <2>6 DEF FreshInv
  <2>8. HandleInv'
    <3>1. timer'.h = 0 /\ ui'.h # 0 /\ ui'.h > ui.h
      BY <1>1, <2>2, Basics, UiFields
    <3>2. \A m \in calls \cup replies : m.h <= ui.h /\ m.h \in Nat
      BY WireFields DEF HandleInv
    <3>3. \A m \in calls' \cup replies' : m.h <= ui'.h /\ (m.h = ui'.h => m.o = ui'.o)
      BY <1>1, <2>2, <2>6, <3>2, UiFields
    <3>4. ui'.at = "pay" => \A c \in calls' : c.h # ui'.h
      BY <2>2, <2>3, <3>2, UiFields
    <3>. QED  BY <1>1, <2>1, <2>2, <3>1, <3>3, <3>4 DEF HandleInv
  <2>9. WizardInv'
    BY <1>1 DEF WizardInv
  <2>. QED  BY <1>1, <2>4, <2>5, <2>7, <2>8, <2>9, PageFrame, WireFrame, OrderFrame, BankFrame
<1>. QED  BY <1>3, <1>4

LEMMA ClickPayKeeps ==
  ASSUME CheckoutInv, NEW m \in pays, ClickPay(m)
  PROVE  CheckoutInv'
<1>. USE DEF CheckoutInv
<1>1. /\ UNCHANGED <<surface, pays, shop, fresh, placed, retired, timer, notes, seen, stored>>
      /\ UNCHANGED <<replies, forms, ord, sales, bankVars, overdue>>
      /\ surface = "store" /\ ui.at = "pay" /\ calls' = calls \cup {Intent(ui.h, ui.o, m)}
  BY DEF ClickPay, bankVars
<1>2. /\ ui' \in UiType /\ ui'.h = ui.h /\ ui'.o = ui.o /\ ui'.at = "busy"
      /\ ui'.retrying = ui.retrying
  BY DEF ClickPay, UiTyped, UiType, UiStates
<1>3. ui.o \in Orders /\ ui.h \in 1 .. MaxHandles /\ m \in Methods /\ \A c \in calls : c.h # ui.h
  BY <1>1, Basics, UiFields DEF HandleInv
<1>4. CallInv'
  BY <1>1, <1>3, CallAdded
<1>5. \A c \in calls' : c \in calls \/ (c.h = ui.h /\ c.o = ui.o)
  BY <1>1 DEF Intent
<1>6. UiTyped' /\ FreshInv'
  BY <1>1, <1>2, <1>5 DEF UiTyped, FreshInv
<1>7. HandleInv'
  BY <1>1, <1>2, <1>5, UiFields DEF HandleInv
<1>8. WizardInv'
  BY <1>1 DEF WizardInv
<1>. QED  BY <1>1, <1>4, <1>6, <1>7, <1>8, PageFrame, WireFrame, OrderFrame, BankFrame

\* A retry is offered for an order that failed, so the one it replaces has failed.
LEMMA ClickRetryKeeps == ASSUME CheckoutInv, ClickRetry PROVE CheckoutInv'
<1>. USE DEF CheckoutInv
<1>1. /\ UNCHANGED <<surface, pays, placed, timer, notes, seen, stored>>
      /\ UNCHANGED <<calls, replies, forms, ord, sales, bankVars, overdue>>
      /\ surface = "store" /\ ui.at = "retry"
  BY DEF ClickRetry, wireVars, bankVars
<1>2. /\ ui' \in UiType /\ ui'.h = ui.h /\ ui'.o = ui.o /\ ui'.at = "busy"
  BY DEF ClickRetry, UiTyped, UiType, UiStates
<1>3. ui.o \in Orders /\ ord[ui.o].st = "failed"
  BY <1>1 DEF HandleInv
<1>4. \/ UNCHANGED <<shop, fresh, retired>>
      \/ /\ fresh # {} /\ fresh' = fresh \ {Fresh} /\ retired' = retired \cup {ui.o}
         /\ shop' = [shop EXCEPT !.memo = Fresh]
  BY DEF ClickRetry
<1>5. \/ UNCHANGED <<shop, fresh, retired>>
      \/ /\ Fresh \in fresh /\ fresh' = fresh \ {Fresh} /\ retired' = retired \cup {ui.o}
         /\ shop' \in [memo : Refs, shown : BOOLEAN, cart : BOOLEAN] /\ shop'.memo = Fresh
  BY <1>4, Basics DEF PageTyped, Refs
<1>6. PageTyped'
  BY <1>1, <1>3, <1>5 DEF PageTyped
<1>7. UiTyped'
  BY <1>1, <1>2 DEF UiTyped
<1>8. FreshInv'
  BY <1>1, <1>2, <1>5 DEF FreshInv
<1>9. HandleInv'
  BY <1>1, <1>2, <1>3 DEF HandleInv
<1>10. OrderInv'
  BY <1>1, <1>3, <1>5 DEF OrderInv
<1>11. WizardInv'
  BY <1>1 DEF WizardInv
<1>. QED  BY <1>1, <1>6, <1>7, <1>8, <1>9, <1>10, <1>11, WireFrame, CallFrame, BankFrame

LEMMA RetryTimesOutKeeps == ASSUME CheckoutInv, RetryTimesOut PROVE CheckoutInv'
<1>. USE DEF CheckoutInv
<1>1. /\ UNCHANGED <<surface, pays, fresh, shop, retired, placed, timer, notes, seen, stored>>
      /\ UNCHANGED <<calls, replies, forms, ord, sales, bankVars, overdue>>
  BY DEF RetryTimesOut, wireVars, bankVars
<1>2. surface = "store" /\ ui.o \in Orders /\ ord[ui.o].st = "failed"
  BY DEF RetryTimesOut, HandleInv
<1>3. /\ ui' \in UiType /\ ui'.h = ui.h /\ ui'.o = ui.o /\ ui'.at = "retry"
  BY DEF RetryTimesOut, UiTyped, UiType, UiStates
<1>4. UiTyped' /\ FreshInv'
  BY <1>1, <1>3 DEF UiTyped, FreshInv
<1>5. HandleInv'
  <2>1. ui.at # "none"
    BY DEF RetryTimesOut, HandleInv
  <2>. QED  BY <1>1, <1>2, <1>3, <2>1 DEF HandleInv
<1>6. WizardInv'
  BY <1>1, <1>2 DEF WizardInv
<1>. QED  BY <1>1, <1>4, <1>5, <1>6, PageFrame, WireFrame, CallFrame, OrderFrame, BankFrame

LEMMA CloseBannerKeeps == ASSUME CheckoutInv, CloseBanner PROVE CheckoutInv'
<1>. USE DEF CheckoutInv
<1>1. /\ UNCHANGED <<surface, pays, fresh, shop, retired, placed, notes, seen, stored>>
      /\ UNCHANGED <<calls, replies, forms, ord, sales, bankVars, overdue>>
      /\ surface = "store" /\ timer' = NoTimer
      /\ ui' = [NoUi EXCEPT !.h = ui.h, !.uri = ui.uri]
  BY DEF CloseBanner, wireVars, bankVars
<1>2. /\ ui' \in UiType /\ ui'.h = ui.h /\ ui'.o = NoOrder /\ ui'.at = "none" /\ ~ui'.retrying
  BY <1>1, UiFields DEF NoUi, UiType, UiStates, Refs
<1>3. UiTyped' /\ FreshInv'
  BY <1>1, <1>2, Basics DEF UiTyped, FreshInv
<1>4. HandleInv'
  BY <1>1, <1>2, Basics, UiFields DEF HandleInv
<1>5. WizardInv'
  BY <1>1 DEF WizardInv
<1>. QED  BY <1>1, <1>3, <1>4, <1>5, PageFrame, WireFrame, CallFrame, OrderFrame, BankFrame

-----------------------------------------------------------------------------
(* Steps that leave the client's page alone.                               *)

\* Intents only lose their handle, are answered or go; no order is taken back.
Onward ==
  /\ \A d \in calls' : \E e \in calls : d.o = e.o /\ d.h \in {0, e.h}
  /\ \A o \in Orders :
       /\ ord[o].st \in {"failed", "completed"} => ord'[o].st = ord[o].st
       /\ ord[o].st # "none" => ord'[o].st # "none"
       /\ ord[o].st # "none" /\ ord'[o].st = "pending" => ord[o].st = "pending"

LEMMA OnwardKeeps ==
  ASSUME CheckoutInv, UNCHANGED clientVars, Onward,
         replies' \subseteq replies, forms' \subseteq forms, overdue \subseteq overdue'
  PROVE  UiTyped' /\ PageTyped' /\ FreshInv' /\ HandleInv' /\ WizardInv'
<1>. USE DEF CheckoutInv
<1>1. UNCHANGED <<surface, pays, shop, fresh, placed, retired, ui, timer, notes, seen, stored>>
  BY DEF clientVars
<1>2. \A d \in calls' : \E e \in calls : d.o = e.o /\ d.h \in {0, e.h}
  BY DEF Onward
<1>3. UiTyped' /\ PageTyped'
  BY <1>1 DEF UiTyped, PageTyped
<1>4. FreshInv'
  BY <1>1, <1>2 DEF FreshInv
<1>5. HandleInv'
  <2>1. \A d \in calls' : d.h <= ui.h
    BY <1>2, UiFields, WireFields DEF HandleInv
  <2>2. ui.at = "pay" => \A d \in calls' : d.h # ui.h
    BY <1>2 DEF HandleInv
  <2>3. surface = "store" /\ ui.at # "none" => \A d \in calls' : d.h = ui.h => d.o = ui.o
    BY <1>2 DEF HandleInv
  <2>4. ui.at = "retry" \/ ui.retrying => ord'[ui.o].st = "failed"
    BY DEF HandleInv, Onward
  <2>. QED  BY <1>1, <2>1, <2>2, <2>3, <2>4 DEF HandleInv
<1>6. WizardInv'
  <2>. SUFFICES ASSUME surface = "wizard" PROVE WizardInv'
    BY <1>1 DEF WizardInv
  <2>1. \A o \in seen : ord'[o].st # "none" /\ (Open(o)' => Open(o))
    BY <1>1 DEF WizardInv, Onward, Open, PageTyped
  <2>2. \A d \in calls' : d.h = ui.h /\ d.h # 0 => ui.at = "busy"
    BY <1>2 DEF WizardInv
  <2>. QED  BY <1>1, <2>1, <2>2 DEF WizardInv
<1>. QED  BY <1>3, <1>4, <1>5, <1>6

\* An intent is gone.
LEMMA DropKeeps ==
  ASSUME CheckoutInv, NEW c \in calls, Drop(c), UNCHANGED ord
  PROVE  /\ CallInv' /\ \A d \in calls' : d \in calls
         /\ \A d \in calls' : c.h # 0 => d.h # c.h
BY DEF CheckoutInv, CallInv, Drop

\* An intent is answered, or asked again.
LEMMA NowKeeps ==
  ASSUME CheckoutInv, NEW c \in calls, NEW st \in CallStates, Now(c, st), Onward,
         st \in {"bank", "creating"} => ord'[c.o].st # "none",
         st \in {"form", "opening"} => c.m = "card"
  PROVE  CallInv'
<1>. DEFINE n == [c EXCEPT !.st = st]
<1>1. n \in CallType /\ n.h = c.h /\ n.o = c.o /\ n.m = c.m /\ n.st = st
  BY DEF CheckoutInv, CallInv, CallType
<1>2. calls' = (calls \ {c}) \cup {n}
  BY DEF Now
<1>3. \A d \in calls : ord[d.o].st # "none" => ord'[d.o].st # "none"
  BY WireFields DEF Onward
<1>. HIDE DEF n
<1>. QED  BY <1>1, <1>2, <1>3 DEF CheckoutInv, CallInv

\* Either way the intents follow.
LEMMA AnswerFollows ==
  ASSUME CheckoutInv, NEW c \in calls, NEW st, Drop(c) \/ Now(c, st)
  PROVE  \A d \in calls' : \E e \in calls : d.o = e.o /\ d.h \in {0, e.h}
<1>. DEFINE n == [c EXCEPT !.st = st]
<1>1. n.h = c.h /\ n.o = c.o
  BY DEF CheckoutInv, CallInv, CallType
<1>2. calls' \subseteq calls \cup {n}
  BY DEF Drop, Now
<1>. HIDE DEF n
<1>. QED  BY <1>1, <1>2

LEMMA AnswerKeeps ==
  ASSUME CheckoutInv, NEW c \in calls, NEW st \in CallStates, Answer(c, st), Onward,
         st \in {"bank", "creating"} => ord'[c.o].st # "none",
         st \in {"form", "opening"} => c.m = "card"
  PROVE  CallInv'
<1>1. CASE Now(c, st)
  BY <1>1, NowKeeps
<1>2. CASE Drop(c)
  <2>1. \A d \in calls : ord[d.o].st # "none" => ord'[d.o].st # "none"
    BY WireFields DEF Onward
  <2>2. calls' \subseteq calls
    BY <1>2 DEF Drop
  <2>. QED  BY <2>1, <2>2 DEF CheckoutInv, CallInv
<1>. QED  BY <1>1, <1>2 DEF Answer

LEMMA CloseStaleFormKeeps ==
  ASSUME CheckoutInv, NEW c \in calls, CloseStaleForm(c)
  PROVE  CheckoutInv'
<1>. USE DEF CheckoutInv
<1>1. /\ UNCHANGED clientVars /\ UNCHANGED <<replies, ord, sales, bankVars, overdue>>
      /\ UNCHANGED <<retired, notes, placed>>
      /\ forms' \subseteq forms /\ c.st = "form" /\ Now(c, "opening")
  BY DEF CloseStaleForm, bankVars, clientVars
<1>2. Onward
  BY <1>1, AnswerFollows DEF Onward
<1>3. CallInv'
  <2>1. "opening" \in CallStates /\ c.m = "card"
    BY <1>1 DEF CallStates, CallInv
  <2>. QED  BY <1>1, <1>2, <2>1, NowKeeps
<1>. QED  BY <1>1, <1>2, <1>3, OnwardKeeps, WireFrame, OrderFrame, BankFrame

LEMMA UseFormKeeps ==
  ASSUME CheckoutInv, NEW o \in Orders, UseForm(o)
  PROVE  CheckoutInv'
<1>. USE DEF CheckoutInv
<1>1. /\ UNCHANGED clientVars /\ UNCHANGED <<calls, replies, ord, bankVars, overdue>>
      /\ UNCHANGED <<retired, notes, placed>> /\ forms' \subseteq forms
  BY DEF UseForm, bankVars, clientVars
<1>2. Onward
  BY <1>1 DEF Onward
<1>3. /\ sales' \in [Orders -> {"none", "charged", "declined"}]
      /\ \A p \in Orders : sales'[p] # sales[p] => ord[p].st = "pending"
  <2>1. \/ sales' = sales
        \/ /\ ord[o].st = "pending"
           /\ \E v \in {"charged", "declined"} : sales' = [sales EXCEPT ![o] = v]
    BY DEF UseForm
  <2>. QED  BY <2>1 DEF WireTyped
<1>4. WireTyped' /\ OrderInv'
  BY <1>1, <1>3 DEF WireTyped, OrderInv
<1>. QED  BY <1>1, <1>2, <1>4, OnwardKeeps, CallFrame, BankFrame

LEMMA ReplyLostKeeps ==
  ASSUME CheckoutInv, NEW r \in replies, ReplyLost(r)
  PROVE  CheckoutInv'
<1>. USE DEF CheckoutInv
<1>1. /\ UNCHANGED clientVars /\ UNCHANGED <<calls, ord, sales, bankVars, overdue>>
      /\ UNCHANGED <<retired, notes, placed>> /\ forms' \subseteq forms /\ replies' \subseteq replies
  BY DEF ReplyLost, bankVars, clientVars
<1>2. Onward
  BY <1>1 DEF Onward
<1>3. WireTyped' /\ OrderInv'
  BY <1>1 DEF WireTyped, OrderInv
<1>. QED  BY <1>1, <1>2, <1>3, OnwardKeeps, CallFrame, BankFrame

-----------------------------------------------------------------------------
(* The backend.                                                            *)

\* The record of one order changes and the bank is left alone.
LEMMA RecordPut ==
  ASSUME CheckoutInv, UNCHANGED bankVars, NEW o \in Orders, NEW r \in RecordType,
         ord' = [ord EXCEPT ![o] = r], r.m = "bank_transfer" => ord[o].m = "bank_transfer",
         r.m = "card" => ord[o].m = "card",
         r.m = "bank_transfer" /\ r.tok => desk[o].instr # 0,
         r.m = "bank_transfer" /\ r.st \in {"processing", "completed"} => Backed(o)
  PROVE  BankTyped' /\ BankInv'
<1>. USE DEF CheckoutInv
<1>1. UNCHANGED <<desk, creating, afloat, transfers, receipts, overdue, slips>>
  BY DEF bankVars
<1>2. ord'[o] = r /\ \A p \in Orders : p # o => ord'[p] = ord[p]
  BY DEF WireTyped
<1>3. BankTyped'
  BY <1>1 DEF BankTyped
<1>4. \A p \in Orders : DeskInv(p)'
  BY <1>1 DEF BankInv, DeskInv, AtMostOne, CarryingQuote
<1>5. \A p \in Orders : LinkInv(p)'
  BY <1>1, <1>2 DEF BankInv, LinkInv, Backed
<1>. QED  BY <1>3, <1>4, <1>5 DEF BankInv

\* What an order record may become.
LEMMA OrderPut ==
  ASSUME CheckoutInv, NEW o \in Orders, NEW r \in RecordType, ord' = [ord EXCEPT ![o] = r],
         UNCHANGED <<replies, sales, retired, notes, placed>>,
         ord[o].st \in {"failed", "completed"} => r.st = ord[o].st,
         r.st # "none",
         r.st = "pending" => ord[o].st \in {"none", "pending"},
         r.st = "failed" => r.m = "card" /\ sales[o] # "charged"
  PROVE  /\ WireTyped' /\ OrderInv'
         /\ \A p \in Orders :
              /\ ord[p].st \in {"failed", "completed"} => ord'[p].st = ord[p].st
              /\ ord[p].st # "none" => ord'[p].st # "none"
              /\ ord[p].st # "none" /\ ord'[p].st = "pending" => ord[p].st = "pending"
<1>. USE DEF CheckoutInv
<1>1. ord'[o] = r /\ \A p \in Orders : p # o => ord'[p] = ord[p]
  BY DEF WireTyped
<1>2. WireTyped'
  BY DEF WireTyped
<1>3. \A p \in Orders :
        /\ ord[p].st \in {"failed", "completed"} => ord'[p].st = ord[p].st
        /\ ord[p].st # "none" => ord'[p].st # "none"
        /\ ord[p].st # "none" /\ ord'[p].st = "pending" => ord[p].st = "pending"
  BY <1>1
<1>4. OrderInv'
  <2>1. \A x \in replies : x.st \in {"failed", "completed"} => ord'[x.o].st = x.st
    BY <1>3, WireFields DEF OrderInv
  <2>2. \A x \in retired : ord'[x].st = "failed"
    BY <1>3 DEF OrderInv, PageTyped
  <2>. QED  BY <1>1, <1>3, <2>1, <2>2 DEF OrderInv
<1>. QED  BY <1>2, <1>3, <1>4

LEMMA IntentNewKeeps ==
  ASSUME CheckoutInv, NEW c \in calls, IntentNew(c)
  PROVE  CheckoutInv'
<1>. USE DEF CheckoutInv
<1>1. /\ UNCHANGED clientVars /\ UNCHANGED <<replies, forms, sales>>
      /\ UNCHANGED <<retired, notes, placed>> /\ ord[c.o].st = "none"
  BY DEF IntentNew, clientVars
<1>2. c.o \in Orders /\ c.m \in Methods /\ ord[c.o] = NoRecord /\ sales[c.o] = "none"
  BY <1>1, WireFields DEF OrderInv
<1>3. CASE UNCHANGED <<ord, bankVars>> /\ Answer(c, "clean")
  <2>1. Onward /\ UNCHANGED overdue
    BY <1>3, AnswerFollows DEF Onward, Answer, bankVars
  <2>2. CallInv'
    <3>1. "clean" \in CallStates
      BY DEF CallStates
    <3>. QED  BY <1>3, <2>1, <3>1, AnswerKeeps
  <2>. QED  BY <1>1, <1>3, <2>1, <2>2, OnwardKeeps, WireFrame, OrderFrame, BankFrame
<1>4. ASSUME NEW r \in RecordType, NEW st \in CallStates, UNCHANGED bankVars, Answer(c, st),
             ord' = [ord EXCEPT ![c.o] = r], r.m = "card", r.st \in {"pending", "failed"},
             st \in {"form", "other"}, c.m = "card"
      PROVE  CheckoutInv'
  <2>1. WireTyped' /\ OrderInv' /\ Onward /\ UNCHANGED overdue
    BY <1>1, <1>2, <1>4, OrderPut, AnswerFollows DEF Onward, Answer, bankVars
  <2>2. CallInv'
    BY <1>4, <2>1, AnswerKeeps
  <2>3. BankTyped' /\ BankInv'
    <3>1. ord[c.o].m = "card"
      BY <1>2 DEF NoRecord
    <3>. QED  BY <1>2, <1>4, <3>1, RecordPut
  <2>. QED  BY <1>1, <2>1, <2>2, <2>3, OnwardKeeps
<1>5. CASE c.m = "card" /\ UNCHANGED bankVars /\ Answer(c, "form")
           /\ ord' = [ord EXCEPT ![c.o] =
                        [st |-> "pending", m |-> "card", tok |-> TRUE, review |-> FALSE]]
  <2>. DEFINE r == [st |-> "pending", m |-> "card", tok |-> TRUE, review |-> FALSE]
  <2>1. r \in RecordType /\ r.m = "card" /\ r.st = "pending" /\ "form" \in CallStates
    BY DEF RecordType, CallStates, Statuses, Methods
  <2>. HIDE DEF r
  <2>2. ord' = [ord EXCEPT ![c.o] = r]
    BY <1>5 DEF r
  <2>. QED  BY <1>4, <1>5, <2>1, <2>2
<1>6. CASE c.m = "card" /\ UNCHANGED bankVars /\ Answer(c, "other")
           /\ ord' = [ord EXCEPT ![c.o].st = "failed"]
  <2>. DEFINE r == [ord[c.o] EXCEPT !.st = "failed"]
  <2>1. r \in RecordType /\ r.m = "card" /\ r.st = "failed" /\ "other" \in CallStates
    <3>1. ord[c.o] \in RecordType /\ ord[c.o].m = "card"
      BY <1>2 DEF WireTyped, NoRecord
    <3>. QED  BY <3>1 DEF RecordType, CallStates, Statuses, Terminal
  <2>. HIDE DEF r
  <2>2. ord' = [ord EXCEPT ![c.o] = r]
    BY <1>6 DEF r
  <2>. QED  BY <1>4, <1>6, <2>1, <2>2
<1>7. CASE c.m = "bank_transfer" /\ CreateBegin(c.o) /\ Now(c, "creating")
           /\ ord' = [ord EXCEPT ![c.o] =
                        [st |-> "pending", m |-> "bank_transfer", tok |-> FALSE, review |-> FALSE]]
  <2>. DEFINE r == [st |-> "pending", m |-> "bank_transfer", tok |-> FALSE, review |-> FALSE]
  <2>1. r \in RecordType /\ r.m = "bank_transfer" /\ r.st = "pending" /\ r.tok = FALSE
    BY DEF RecordType, Statuses, Methods
  <2>. HIDE DEF r
  <2>2. ord' = [ord EXCEPT ![c.o] = r]
    BY <1>7 DEF r
  <2>3. ord'[c.o] = r /\ \A p \in Orders : p # c.o => ord'[p] = ord[p]
    BY <1>2, <2>2 DEF WireTyped
  <2>4. /\ UNCHANGED <<desk, afloat, transfers, receipts, overdue, slips>>
        /\ creating' = [creating EXCEPT ![c.o] = "quote"]
    BY <1>2, <1>7 DEF CreateBegin, BankInv, LinkInv, NoRecord, NoRow
  <2>5. WireTyped' /\ OrderInv' /\ Onward
    BY <1>1, <1>2, <1>7, <2>1, <2>2, OrderPut, AnswerFollows DEF Onward
  <2>6. CallInv'
    <3>1. "creating" \in CallStates
      BY DEF CallStates
    <3>. QED  BY <1>2, <1>7, <2>1, <2>3, <2>5, <3>1, NowKeeps
  <2>7. BankTyped'
    BY <1>2, <2>4 DEF BankTyped
  <2>8. \A p \in Orders : DeskInv(p)'
    BY <2>4 DEF BankInv, DeskInv, AtMostOne, CarryingQuote
  <2>9. \A p \in Orders : LinkInv(p)'
    BY <2>1, <2>3, <2>4 DEF BankInv, LinkInv, Backed, BankTyped
  <2>. QED  BY <1>1, <2>4, <2>5, <2>6, <2>7, <2>8, <2>9, OnwardKeeps DEF BankInv
<1>. QED  BY <1>3, <1>5, <1>6, <1>7 DEF IntentNew

LEMMA IntentAgainKeeps ==
  ASSUME CheckoutInv, NEW c \in calls, IntentAgain(c)
  PROVE  CheckoutInv'
<1>. USE DEF CheckoutInv
<1>1. /\ UNCHANGED clientVars /\ UNCHANGED <<replies, forms, ord, sales, bankVars, overdue>>
      /\ UNCHANGED <<retired, notes, placed>> /\ ord[c.o].st # "none"
  BY DEF IntentAgain, clientVars, bankVars
<1>2. PICK st \in {"form", "bank", "other"} : Answer(c, st) /\ (st = "form" => c.m = "card")
  <2>. DEFINE open == ord[c.o].m = c.m /\ ord[c.o].tok
              st == CASE open /\ c.m = "card" -> "form"
                      [] open /\ c.m # "card" /\ ord[c.o].st = "pending" /\ ~ord[c.o].review -> "bank"
                      [] OTHER -> "other"
  <2>1. Answer(c, st)
    BY DEF IntentAgain
  <2>2. st \in {"form", "bank", "other"} /\ (st = "form" => c.m = "card")
    OBVIOUS
  <2>. HIDE DEF st
  <2>. QED  BY <2>1, <2>2
<1>3. Onward
  BY <1>1, <1>2, AnswerFollows DEF Onward, Answer
<1>4. CallInv'
  <2>1. st \in CallStates /\ st # "opening" /\ st # "creating"
    BY <1>2 DEF CallStates
  <2>. QED  BY <1>1, <1>2, <1>3, <2>1, AnswerKeeps
<1>. QED  BY <1>1, <1>3, <1>4, OnwardKeeps, WireFrame, OrderFrame, BankFrame

LEMMA IntentCreatedKeeps ==
  ASSUME CheckoutInv, NEW c \in calls, IntentCreated(c)
  PROVE  CheckoutInv'
<1>. USE DEF CheckoutInv
<1>1. /\ UNCHANGED clientVars /\ UNCHANGED <<replies, forms, sales, bankVars, overdue>>
      /\ UNCHANGED <<retired, notes, placed>> /\ c.st = "creating"
      /\ ord' = [ord EXCEPT ![c.o].tok = Created(c.o)]
      /\ Answer(c, IF Created(c.o) THEN "bank" ELSE "other")
  BY DEF IntentCreated, clientVars, bankVars
<1>2. c.o \in Orders /\ ord[c.o].st # "none" /\ ord[c.o] \in RecordType
  BY <1>1, WireFields DEF CallInv, WireTyped
<1>. DEFINE r == [ord[c.o] EXCEPT !.tok = Created(c.o)]
<1>3. /\ r \in RecordType /\ r.st = ord[c.o].st /\ r.m = ord[c.o].m
      /\ r.tok = (desk[c.o].instr # 0)
  BY <1>2 DEF RecordType, Created
<1>. HIDE DEF r
<1>4. ord' = [ord EXCEPT ![c.o] = r]
  BY <1>1 DEF r
<1>5. r.m = "bank_transfer" /\ r.st \in {"processing", "completed"} => Backed(c.o)
  BY <1>2, <1>3 DEF BankInv, LinkInv
<1>6. r.st = "failed" => r.m = "card" /\ sales[c.o] # "charged"
  BY <1>2, <1>3 DEF OrderInv
<1>7. BankTyped' /\ BankInv'
  BY <1>1, <1>2, <1>3, <1>4, <1>5, RecordPut
<1>8. /\ WireTyped' /\ OrderInv'
      /\ \A p \in Orders :
           /\ ord[p].st \in {"failed", "completed"} => ord'[p].st = ord[p].st
           /\ ord[p].st # "none" => ord'[p].st # "none"
           /\ ord[p].st # "none" /\ ord'[p].st = "pending" => ord[p].st = "pending"
  BY <1>1, <1>2, <1>3, <1>4, <1>6, OrderPut
<1>9. PICK st \in {"bank", "other"} : Answer(c, st)
  BY <1>1
<1>10. Onward
  BY <1>8, <1>9, AnswerFollows DEF Onward, Answer
<1>11. CallInv'
  <2>1. st \in CallStates /\ st \notin {"form", "opening"} /\ ord'[c.o].st # "none"
    BY <1>2, <1>8 DEF CallStates
  <2>. QED  BY <1>9, <1>10, <2>1, AnswerKeeps
<1>. QED  BY <1>1, <1>7, <1>8, <1>10, <1>11, OnwardKeeps

LEMMA PollCardKeeps ==
  ASSUME CheckoutInv, NEW o \in Orders, PollCard(o)
  PROVE  CheckoutInv'
<1>. USE DEF CheckoutInv
<1>1. /\ UNCHANGED clientVars /\ UNCHANGED <<calls, replies, forms, sales, bankVars, overdue>>
      /\ UNCHANGED <<retired, notes, placed>>
      /\ ord[o].st = "pending" /\ ord[o].m = "card" /\ ord[o] \in RecordType
  BY DEF PollCard, clientVars, wireVars, bankVars, WireTyped
<1>2. PICK st \in {"processing", "failed"} :
        /\ ord' = [ord EXCEPT ![o].st = st] /\ (st = "failed" => sales[o] # "charged")
  BY DEF PollCard
<1>. DEFINE r == [ord[o] EXCEPT !.st = st]
<1>3. r \in RecordType /\ r.st = st /\ r.m = "card"
  BY <1>1 DEF RecordType, Statuses, Terminal
<1>. HIDE DEF r
<1>4. ord' = [ord EXCEPT ![o] = r]
  BY <1>2 DEF r
<1>5. WireTyped' /\ OrderInv' /\ Onward
  BY <1>1, <1>2, <1>3, <1>4, OrderPut DEF Onward
<1>6. BankTyped' /\ BankInv'
  BY <1>1, <1>3, <1>4, RecordPut
<1>7. CallInv'
  BY <1>1, <1>5, WireFields DEF Onward, CallInv
<1>. QED  BY <1>1, <1>5, <1>6, <1>7, OnwardKeeps

LEMMA SettledKeeps ==
  ASSUME CheckoutInv, NEW o \in Orders, Settled(o)
  PROVE  CheckoutInv'
<1>. USE DEF CheckoutInv
<1>1. /\ UNCHANGED clientVars /\ UNCHANGED <<calls, replies, forms, sales, bankVars, overdue>>
      /\ UNCHANGED <<retired, notes, placed>>
      /\ ord[o].st = "processing" /\ ord[o] \in RecordType
  BY DEF Settled, clientVars, wireVars, bankVars, WireTyped
<1>2. PICK st \in {"completed", "review"} : ord' = [ord EXCEPT ![o].st = st]
  BY DEF Settled
<1>. DEFINE r == [ord[o] EXCEPT !.st = st]
<1>3. r \in RecordType /\ r.st = st /\ r.m = ord[o].m /\ r.tok = ord[o].tok
  BY <1>1 DEF RecordType, Statuses, Terminal
<1>. HIDE DEF r
<1>4. ord' = [ord EXCEPT ![o] = r]
  BY <1>2 DEF r
<1>5. WireTyped' /\ OrderInv' /\ Onward
  BY <1>1, <1>2, <1>3, <1>4, OrderPut DEF Onward
<1>6. BankTyped' /\ BankInv'
  <2>1. /\ r.m = "bank_transfer" => Backed(o)
        /\ r.m = "bank_transfer" /\ r.tok => desk[o].instr # 0
    BY <1>1, <1>3 DEF BankInv, LinkInv
  <2>. QED  BY <1>1, <1>3, <1>4, <2>1, RecordPut
<1>7. CallInv'
  BY <1>1, <1>5, WireFields DEF Onward, CallInv
<1>. QED  BY <1>1, <1>5, <1>6, <1>7, OnwardKeeps

LEMMA BackendRestartsKeeps == ASSUME CheckoutInv, BackendRestarts PROVE CheckoutInv'
<1>. USE DEF CheckoutInv
<1>1. /\ UNCHANGED clientVars /\ UNCHANGED <<replies, forms, ord, sales>>
      /\ UNCHANGED <<retired, notes, placed>>
      /\ UNCHANGED <<desk, afloat, transfers, receipts, overdue, slips>>
      /\ creating' = [o \in Orders |-> "no"]
  BY DEF BackendRestarts, clientVars
<1>2. /\ calls' = (calls \ {c \in calls : c.st = "creating"}) \cup
              {[c EXCEPT !.st = "other"] : c \in {d \in calls : d.st = "creating" /\ d.h # 0}}
  BY DEF BackendRestarts
<1>3. \A d \in calls' : \/ d \in calls
                        \/ \E c \in calls : d = [c EXCEPT !.st = "other"] /\ c \notin calls'
  <2>1. \A c \in calls : c.st = "creating" =>
          c \notin calls' /\ [c EXCEPT !.st = "other"].st = "other"
    BY <1>2 DEF CallInv, CallType
  <2>. QED  BY <1>2, <2>1
<1>4. \A d \in calls' : \/ d \in calls
                        \/ \E c \in calls : /\ c \notin calls' /\ d \in CallType /\ d.st = "other"
                                            /\ d.h = c.h /\ d.o = c.o
                                            /\ d = [c EXCEPT !.st = "other"]
  BY <1>3 DEF CallInv, CallType, CallStates
<1>5. Onward
  BY <1>1, <1>4 DEF Onward
<1>6. CallInv'
  BY <1>1, <1>4 DEF CallInv
<1>7. BankTyped'
  BY <1>1 DEF BankTyped
<1>8. \A p \in Orders : DeskInv(p)'
  BY <1>1 DEF BankInv, DeskInv, AtMostOne, CarryingQuote
<1>9. \A p \in Orders : LinkInv(p)'
  BY <1>1 DEF BankInv, LinkInv, Backed
<1>. QED  BY <1>1, <1>5, <1>6, <1>7, <1>8, <1>9, OnwardKeeps, WireFrame, OrderFrame DEF BankInv

-----------------------------------------------------------------------------
(* The bank's desk and the anchor.                                         *)

RowType == [quoted : BOOLEAN, dispatched : BOOLEAN, instr : Nat]

\* The claim is written before the deposit request leaves, so a second one never does.
LEMMA DispatchKeeps ==
  ASSUME CheckoutInv, NEW o \in Orders, NEW row \in RowType, Dispatch(o, row),
         row.dispatched = desk[o].dispatched, row.instr = desk[o].instr,
         ord[o].m = "bank_transfer", UNCHANGED <<transfers, receipts, overdue, slips, ord>>
  PROVE  BankTyped' /\ BankInv'
<1>. USE DEF CheckoutInv
<1>1. PICK new \in RowType, at \in {"history", "deposit"} :
        /\ desk' = [desk EXCEPT ![o] = new] /\ creating' = [creating EXCEPT ![o] = at]
        /\ new.instr = desk[o].instr /\ new.dispatched
        /\ afloat' = IF desk[o].dispatched THEN afloat ELSE [afloat EXCEPT ![o] = @ + 1]
  <2>1. CASE row.dispatched
    BY <2>1 DEF Dispatch
  <2>2. CASE ~row.dispatched
    <3>1. Claimed(row) \in RowType /\ Claimed(row).dispatched /\ Claimed(row).instr = row.instr
      BY DEF Claimed, RowType
    <3>. QED  BY <2>2, <3>1 DEF Dispatch
  <2>. QED  BY <2>1, <2>2
<1>2. BankTyped'
  BY <1>1 DEF BankTyped, RowType
<1>3. \A p \in Orders : CarryingQuote(p)' = CarryingQuote(p)
  BY DEF CarryingQuote
<1>4. /\ desk'[o] = new /\ afloat'[o] = IF desk[o].dispatched THEN afloat[o] ELSE afloat[o] + 1
      /\ \A p \in Orders : p # o => /\ desk'[p] = desk[p] /\ afloat'[p] = afloat[p]
                                    /\ creating'[p] = creating[p]
  BY <1>1 DEF BankTyped
<1>5. DeskInv(o)'
  <2>1. CASE desk[o].dispatched
    BY <1>1, <1>3, <1>4, <2>1 DEF BankInv, DeskInv, AtMostOne
  <2>2. CASE ~desk[o].dispatched
    BY <1>1, <1>3, <1>4, <2>2 DEF BankInv, DeskInv, AtMostOne
  <2>. QED  BY <2>1, <2>2
<1>6. \A p \in Orders : p # o => DeskInv(p)'
  BY <1>3, <1>4 DEF BankInv, DeskInv, AtMostOne
<1>7. \A p \in Orders : LinkInv(p)'
  BY <1>1, <1>4 DEF BankInv, LinkInv, Backed
<1>. QED  BY <1>2, <1>5, <1>6, <1>7 DEF BankInv

\* The create in progress moves on, and nothing else.
LEMMA CreatingKeeps ==
  ASSUME CheckoutInv, NEW o \in Orders, NEW at \in {"no", "quote"},
         creating' = [creating EXCEPT ![o] = at], ord[o].m = "bank_transfer",
         UNCHANGED <<desk, afloat, transfers, receipts, overdue, slips, ord>>
  PROVE  BankTyped' /\ BankInv'
<1>. USE DEF CheckoutInv
<1>1. BankTyped'
  BY DEF BankTyped
<1>2. \A p \in Orders : p # o => creating'[p] = creating[p]
  BY DEF BankTyped
<1>3. \A p \in Orders : DeskInv(p)'
  BY DEF BankInv, DeskInv, AtMostOne, CarryingQuote
<1>4. \A p \in Orders : LinkInv(p)'
  BY <1>2 DEF BankInv, LinkInv, Backed
<1>. QED  BY <1>1, <1>3, <1>4 DEF BankInv

LEMMA CreateBeginKeeps ==
  ASSUME CheckoutInv, NEW o \in Orders, CreateBegin(o), ord[o].m = "bank_transfer", UNCHANGED ord
  PROVE  BankTyped' /\ BankInv' /\ UNCHANGED overdue
<1>1. UNCHANGED <<transfers, receipts, overdue, slips>> /\ desk[o] \in RowType
  BY DEF CreateBegin, CheckoutInv, BankTyped, RowType
<1>2. CASE desk[o].quoted
  BY <1>1, <1>2, DispatchKeeps DEF CreateBegin
<1>3. CASE ~desk[o].quoted
  BY <1>1, <1>3, CreatingKeeps DEF CreateBegin
<1>. QED  BY <1>1, <1>2, <1>3

LEMMA QuoteAnsweredKeeps ==
  ASSUME CheckoutInv, NEW o \in Orders, QuoteAnswered(o), ord[o].m = "bank_transfer", UNCHANGED ord
  PROVE  BankTyped' /\ BankInv' /\ UNCHANGED overdue
<1>. DEFINE row == [desk[o] EXCEPT !.quoted = TRUE]
<1>1. row \in RowType /\ row.dispatched = desk[o].dispatched /\ row.instr = desk[o].instr
  BY DEF CheckoutInv, BankTyped, RowType
<1>2. UNCHANGED <<transfers, receipts, overdue, slips>> /\ Dispatch(o, row)
  BY DEF QuoteAnswered
<1>. HIDE DEF row
<1>. QED  BY <1>1, <1>2, DispatchKeeps

LEMMA InstructionsStoredKeeps ==
  ASSUME CheckoutInv, NEW o \in Orders, InstructionsStored(o), ord[o].m = "bank_transfer",
         UNCHANGED ord
  PROVE  BankTyped' /\ BankInv' /\ UNCHANGED overdue
<1>. USE DEF CheckoutInv
<1>1. /\ UNCHANGED <<afloat, transfers, receipts, overdue, slips>>
      /\ creating' = [creating EXCEPT ![o] = "no"]
  BY DEF InstructionsStored
<1>2. PICK t \in CarryingQuote(o) : desk' = [desk EXCEPT ![o].instr = t]
  BY DEF InstructionsStored
<1>3. t \in Nat \ {0}
  BY DEF CarryingQuote, BankTyped
<1>. DEFINE row == [desk[o] EXCEPT !.instr = t]
<1>4. row \in RowType /\ row.dispatched = desk[o].dispatched /\ row.instr = t
  BY <1>3 DEF BankTyped, RowType
<1>. HIDE DEF row
<1>5. desk' = [desk EXCEPT ![o] = row]
  BY <1>2 DEF row
<1>6. /\ desk'[o] = row
      /\ \A p \in Orders : p # o => desk'[p] = desk[p] /\ creating'[p] = creating[p]
  BY <1>1, <1>5 DEF BankTyped
<1>7. BankTyped'
  BY <1>1, <1>4, <1>5 DEF BankTyped, RowType
<1>8. \A p \in Orders : CarryingQuote(p)' = CarryingQuote(p)
  BY <1>1 DEF CarryingQuote
<1>9. \A p \in Orders : DeskInv(p)'
  BY <1>1, <1>2, <1>4, <1>6, <1>8 DEF BankInv, DeskInv, AtMostOne
<1>10. \A p \in Orders : LinkInv(p)'
  BY <1>1, <1>3, <1>4, <1>6 DEF BankInv, LinkInv, Backed
<1>. QED  BY <1>1, <1>7, <1>9, <1>10 DEF BankInv

\* The one request that was afloat becomes the one transfer.
LEMMA AnchorTakesKeeps ==
  ASSUME CheckoutInv, NEW o \in Orders, AnchorTakes(o), UNCHANGED ord
  PROVE  BankTyped' /\ BankInv' /\ UNCHANGED overdue
<1>. USE DEF CheckoutInv
<1>. DEFINE n == [o |-> o, st |-> "waiting", late |-> FALSE]
<1>1. /\ UNCHANGED <<desk, creating, overdue, slips>> /\ afloat[o] > 0
      /\ afloat' = [afloat EXCEPT ![o] = @ - 1] /\ transfers' = Append(transfers, n)
      /\ receipts' = [t \in 1 .. (Len(transfers) + 1) |->
                        IF t \in DOMAIN receipts THEN receipts[t] ELSE NoOrder]
  BY DEF AnchorTakes
<1>2. n \in Transfers /\ n.o = o
  BY DEF Transfers
<1>. HIDE DEF n
<1>. DEFINE k == Len(transfers) + 1
<1>3. /\ transfers' \in Seq(Transfers) /\ Len(transfers') = k /\ DOMAIN transfers = 1 .. Len(transfers)
      /\ transfers'[k] = n /\ \A t \in DOMAIN transfers : transfers'[t] = transfers[t]
      /\ DOMAIN transfers' = 1 .. k /\ Len(transfers) \in Nat
  BY <1>1, <1>2 DEF BankTyped
<1>4. /\ receipts' \in [1 .. k -> Refs] /\ \A t \in DOMAIN transfers : receipts'[t] = receipts[t]
  BY <1>1, <1>3 DEF BankTyped, Refs
<1>5. /\ afloat'[o] = afloat[o] - 1 /\ afloat'[o] \in Nat
      /\ \A p \in Orders : p # o => afloat'[p] = afloat[p]
  BY <1>1 DEF BankTyped
<1>6. BankTyped'
  BY <1>1, <1>3, <1>4, <1>5 DEF BankTyped
<1>7. CarryingQuote(o)' = CarryingQuote(o) \cup {k}
  BY <1>2, <1>3 DEF CarryingQuote
<1>8. \A p \in Orders : p # o => CarryingQuote(p)' = CarryingQuote(p)
  BY <1>2, <1>3 DEF CarryingQuote
<1>9. CarryingQuote(o) = {} /\ afloat[o] = 1 /\ desk[o].dispatched
  BY <1>1 DEF BankInv, DeskInv, AtMostOne, BankTyped
<1>10. DeskInv(o)'
  <2>1. CarryingQuote(o)' = {k} /\ k \in DOMAIN transfers' /\ afloat'[o] = 0
    BY <1>3, <1>5, <1>7, <1>9
  <2>. QED  BY <1>1, <1>9, <2>1 DEF BankInv, DeskInv, AtMostOne
<1>11. \A p \in Orders : p # o => DeskInv(p)'
  BY <1>1, <1>3, <1>5, <1>8 DEF BankInv, DeskInv, AtMostOne
<1>12. \A p \in Orders : Backed(p) => Backed(p)'
  BY <1>3, <1>4 DEF Backed
<1>13. \A p \in Orders : LinkInv(p)'
  BY <1>1, <1>12 DEF BankInv, LinkInv
<1>. QED  BY <1>1, <1>6, <1>10, <1>11, <1>13 DEF BankInv

LEMMA OverdueKeeps ==
  ASSUME CheckoutInv, NEW o \in Orders, Overdue(o), UNCHANGED ord
  PROVE  BankTyped' /\ BankInv' /\ overdue \subseteq overdue'
<1>1. UNCHANGED <<desk, creating, afloat, transfers, receipts, slips>> /\ overdue' = overdue \cup {o}
  BY DEF Overdue
<1>2. BankTyped'
  BY <1>1 DEF CheckoutInv, BankTyped
<1>3. BankInv'
  BY <1>1 DEF CheckoutInv, BankInv, DeskInv, LinkInv, AtMostOne, Backed, CarryingQuote
<1>. QED  BY <1>1, <1>2, <1>3

LEMMA BankWorkKeeps ==
  ASSUME CheckoutInv, NEW o \in Orders, BankWork(o)
  PROVE  CheckoutInv'
<1>. USE DEF CheckoutInv
<1>1. /\ UNCHANGED clientVars /\ UNCHANGED <<calls, replies, forms, ord, sales>>
      /\ UNCHANGED <<retired, notes, placed>> /\ ord[o].m = "bank_transfer"
  BY DEF BankWork, clientVars, wireVars
<1>2. Onward
  BY <1>1 DEF Onward
<1>3. BankTyped' /\ BankInv' /\ overdue \subseteq overdue'
  <2>1. CASE CreateThrows(o)
    BY <1>1, <2>1, CreatingKeeps DEF CreateThrows
  <2>. QED  BY <1>1, <2>1, QuoteAnsweredKeeps, InstructionsStoredKeeps, AnchorTakesKeeps, OverdueKeeps
            DEF BankWork
<1>. QED  BY <1>1, <1>2, <1>3, OnwardKeeps, WireFrame, CallFrame, OrderFrame

\* Money on a transfer changes neither whose it is nor a credit that was used.
LEMMA FundedKeeps ==
  ASSUME CheckoutInv, NEW o \in Orders, desk[o].instr # 0, Funded(desk[o].instr), UNCHANGED ord
  PROVE  BankTyped' /\ BankInv' /\ UNCHANGED overdue
<1>. USE DEF CheckoutInv
<1>. DEFINE t == desk[o].instr
<1>1. /\ UNCHANGED <<desk, creating, afloat, receipts, overdue, slips>>
      /\ transfers[t].st = "waiting"
      /\ transfers' = [transfers EXCEPT ![t].st = "completed", ![t].late = transfers[t].o \in overdue]
  BY DEF Funded
<1>2. t \in DOMAIN transfers /\ transfers[t] \in Transfers
  BY DEF BankInv, DeskInv, CarryingQuote, BankTyped
<1>. DEFINE late == transfers[t].o \in overdue
<1>2a. late \in BOOLEAN /\ transfers' = [transfers EXCEPT ![t].st = "completed", ![t].late = late]
  BY <1>1
<1>. HIDE DEF late
<1>. DEFINE new == [transfers[t] EXCEPT !.st = "completed", !.late = late]
<1>3. new \in Transfers /\ new.o = transfers[t].o
  BY <1>2a, <1>2 DEF Transfers
<1>4. transfers' = [transfers EXCEPT ![t] = new]
  BY <1>2a
<1>. HIDE DEF new, t
<1>5. /\ transfers' \in Seq(Transfers) /\ Len(transfers') = Len(transfers)
      /\ DOMAIN transfers' = DOMAIN transfers
      /\ transfers'[t] = new /\ \A d \in DOMAIN transfers : d # t => transfers'[d] = transfers[d]
  BY <1>2, <1>3, <1>4 DEF BankTyped
<1>6. BankTyped'
  BY <1>1, <1>5 DEF BankTyped
<1>7. \A p \in Orders : CarryingQuote(p)' = CarryingQuote(p)
  BY <1>2, <1>3, <1>5 DEF CarryingQuote
<1>8. \A p \in Orders : DeskInv(p)'
  BY <1>1, <1>5, <1>7 DEF BankInv, DeskInv, AtMostOne
<1>9. \A p \in Orders : Backed(p) => Backed(p)'
  BY <1>1, <1>5 DEF Backed
<1>10. \A p \in Orders : LinkInv(p)'
  BY <1>1, <1>9 DEF BankInv, LinkInv
<1>. QED  BY <1>1, <1>6, <1>8, <1>10 DEF BankInv

\* The shopper pays, or the sandbox's button pays for her.
LEMMA MoneyKeeps ==
  ASSUME CheckoutInv, NEW o \in Orders, Simulate(o) \/ SendMoney(o)
  PROVE  CheckoutInv'
<1>. USE DEF CheckoutInv
<1>1. /\ UNCHANGED clientVars /\ UNCHANGED <<calls, replies, forms, ord, sales>>
      /\ UNCHANGED <<retired, notes, placed>> /\ desk[o].instr # 0 /\ Funded(desk[o].instr)
  BY DEF Simulate, SendMoney, Simulated, clientVars, wireVars
<1>2. Onward
  BY <1>1 DEF Onward
<1>3. BankTyped' /\ BankInv' /\ overdue \subseteq overdue'
  BY <1>1, FundedKeeps
<1>. QED  BY <1>1, <1>2, <1>3, OnwardKeeps, WireFrame, CallFrame, OrderFrame

\* A credit is bound to the order it is used for, and stays bound.
LEMMA ObservedKeeps ==
  ASSUME CheckoutInv, NEW o \in Orders, NEW c \in 0 .. Len(transfers), Observed(o, c)
  PROVE  /\ UNCHANGED <<desk, creating, afloat, transfers, overdue>> /\ BankTyped'
         /\ \A p \in Orders : Backed(p) => Backed(p)'
         /\ BankEvent(o, c).event = "chargeOk" => Backed(o)'
         /\ BankEvent(o, c).review \in BOOLEAN
<1>. USE DEF CheckoutInv
<1>. DEFINE t == desk[o].instr
<1>1. /\ UNCHANGED <<desk, creating, afloat, transfers, overdue>>
      /\ slips' = IF c \in {0, t} THEN slips ELSE slips + 1
      /\ receipts' = IF c = 0 \/ transfers[c].late THEN receipts ELSE Receipts(o, c)
      /\ c = 0 \/ (/\ c \in DOMAIN transfers /\ transfers[c].st = "completed"
                   /\ c = t \/ slips < MaxSlips)
  BY DEF Observed, Named
<1>2. DOMAIN transfers = 1 .. Len(transfers) /\ Len(transfers) \in Nat
  BY DEF BankTyped
<1>3. c # 0 => /\ Receipts(o, c) \in [1 .. Len(transfers) -> Refs]
               /\ \A d \in DOMAIN transfers : receipts[d] \in Orders => Receipts(o, c)[d] = receipts[d]
  BY <1>1, <1>2, BankAssumption DEF Receipts, BankTyped, Refs
<1>4. /\ receipts' \in [1 .. Len(transfers) -> Refs]
      /\ \A d \in DOMAIN transfers : receipts[d] \in Orders => receipts'[d] = receipts[d]
  BY <1>1, <1>3 DEF BankTyped
<1>5. BankTyped'
  BY <1>1, <1>4, BankAssumption DEF BankTyped
<1>6. \A p \in Orders : Backed(p) => Backed(p)'
  BY <1>1, <1>4 DEF Backed
<1>7. c # 0 /\ ~transfers[c].late /\ Receipts(o, c)[c] = o => Backed(o)'
  BY <1>1 DEF Backed
<1>8. /\ BankEvent(o, c).event = "chargeOk" => Backed(o)'
      /\ BankEvent(o, c).review \in BOOLEAN
  <2>1. CASE c = 0
    <3>1. BankEvent(o, c) = [event |-> "chargeUnknown", review |-> FALSE]
      BY <2>1 DEF BankEvent
    <3>. QED  BY <3>1
  <2>2. CASE c # 0 /\ ~transfers[c].late /\ Receipts(o, c)[c] = o
    BY <1>7, <2>2 DEF BankEvent
  <2>3. CASE c # 0 /\ ~(~transfers[c].late /\ Receipts(o, c)[c] = o)
    <3>1. BankEvent(o, c) = [event |-> "chargeUnknown", review |-> TRUE]
      BY <2>3, Zenon DEF BankEvent
    <3>. QED  BY <3>1
  <2>. QED  BY <2>1, <2>2, <2>3
<1>. QED  BY <1>1, <1>5, <1>6, <1>8

LEMMA PollBankKeeps ==
  ASSUME CheckoutInv, NEW o \in Orders, PollBank(o)
  PROVE  CheckoutInv'
<1>. USE DEF CheckoutInv
<1>1. /\ UNCHANGED clientVars /\ UNCHANGED <<calls, replies, forms, sales>>
      /\ UNCHANGED <<retired, notes, placed>>
      /\ ord[o].st = "pending" /\ ord[o].m = "bank_transfer" /\ ord[o] \in RecordType
  BY DEF PollBank, clientVars, wireVars, WireTyped
<1>2. CASE CreateBegin(o) /\ UNCHANGED ord
  <2>1. Onward
    BY <1>1, <1>2 DEF Onward
  <2>2. BankTyped' /\ BankInv' /\ UNCHANGED overdue
    BY <1>1, <1>2, CreateBeginKeeps
  <2>. QED  BY <1>1, <1>2, <2>1, <2>2, OnwardKeeps, WireFrame, CallFrame, OrderFrame
<1>3. ASSUME NEW r \in RecordType, ord' = [ord EXCEPT ![o] = r],
             r.m = "bank_transfer", r.st \in {"pending", "processing"}
      PROVE  WireTyped' /\ OrderInv' /\ Onward /\ CallInv'
  <2>1. WireTyped' /\ OrderInv' /\ Onward
    BY <1>1, <1>3, OrderPut DEF Onward
  <2>2. CallInv'
    BY <1>1, <2>1, WireFields DEF Onward, CallInv
  <2>. QED  BY <2>1, <2>2
<1>4. CASE desk[o].instr # 0 /\ ord' = [ord EXCEPT ![o].tok = TRUE] /\ UNCHANGED bankVars
  <2>. DEFINE r == [ord[o] EXCEPT !.tok = TRUE]
  <2>1. r \in RecordType /\ r.m = "bank_transfer" /\ r.st = "pending"
    BY <1>1 DEF RecordType
  <2>2. ord' = [ord EXCEPT ![o] = r] /\ UNCHANGED overdue
    BY <1>4 DEF bankVars
  <2>. HIDE DEF r
  <2>3. BankTyped' /\ BankInv'
    BY <1>1, <1>4, <2>1, <2>2, RecordPut
  <2>. QED  BY <1>1, <1>3, <2>1, <2>2, <2>3, OnwardKeeps
<1>5. ASSUME NEW c \in 0 .. Len(transfers), Observed(o, c), ord[o].tok,
             ord' = [ord EXCEPT ![o].review = BankEvent(o, c).review,
                                ![o].st = IF BankEvent(o, c).event = "chargeOk"
                                          THEN "processing" ELSE @]
      PROVE  CheckoutInv'
  <2>1. /\ UNCHANGED <<desk, creating, afloat, transfers, overdue>> /\ BankTyped'
        /\ \A p \in Orders : Backed(p) => Backed(p)'
        /\ BankEvent(o, c).event = "chargeOk" => Backed(o)'
        /\ BankEvent(o, c).review \in BOOLEAN
    BY <1>5, ObservedKeeps
  <2>2. PICK st \in {"pending", "processing"} :
          /\ ord' = [ord EXCEPT ![o].review = BankEvent(o, c).review, ![o].st = st]
          /\ st = "processing" => BankEvent(o, c).event = "chargeOk"
    <3>1. CASE BankEvent(o, c).event = "chargeOk"
      BY <1>5, <3>1
    <3>2. CASE BankEvent(o, c).event # "chargeOk"
      <4>1. ord' = [ord EXCEPT ![o].review = BankEvent(o, c).review, ![o].st = "pending"]
        BY <1>1, <1>5, <3>2
      <4>. QED  BY <4>1
    <3>. QED  BY <3>1, <3>2
  <2>. DEFINE v == BankEvent(o, c).review
              r == [ord[o] EXCEPT !.review = v, !.st = st]
  <2>3. v \in BOOLEAN /\ ord' = [ord EXCEPT ![o] = r]
    BY <2>1, <2>2
  <2>. HIDE DEF v
  <2>4. /\ r \in RecordType /\ r.m = "bank_transfer" /\ r.st = st /\ r.tok = ord[o].tok
    BY <1>1, <2>3 DEF RecordType, Statuses
  <2>. HIDE DEF r
  <2>5. ord'[o] = r /\ \A p \in Orders : p # o => ord'[p] = ord[p]
    BY <2>3 DEF WireTyped
  <2>6. \A p \in Orders : DeskInv(p)'
    BY <2>1 DEF BankInv, DeskInv, AtMostOne, CarryingQuote
  <2>7. \A p \in Orders : LinkInv(p)'
    BY <1>1, <2>1, <2>2, <2>4, <2>5 DEF BankInv, LinkInv
  <2>8. WireTyped' /\ OrderInv' /\ Onward /\ CallInv'
    BY <1>3, <2>3, <2>4
  <2>. QED  BY <1>1, <2>1, <2>6, <2>7, <2>8, OnwardKeeps DEF BankInv
<1>. QED  BY <1>2, <1>4, <1>5 DEF PollBank

-----------------------------------------------------------------------------
(* The answer to an intent reaches the client.                             *)

\* Whatever else an answer to the client leaves alone.
Aside == UNCHANGED <<surface, pays, shop, fresh, placed, retired, notes, ord, sales, bankVars, overdue>>

\* In the wizard, the intent of the attempt at hand is the one it waits for.
LEMMA AwaitedInWizard ==
  ASSUME CheckoutInv, NEW c \in calls, Current(c.h), surface = "wizard"
  PROVE  /\ ui.at = "busy" /\ ui.active = NoOrder /\ timer = NoTimer
         /\ \A o \in seen : ~Open(o)
         /\ \A r \in replies : r.h # ui.h
<1>1. ui.at = "busy"
  BY DEF CheckoutInv, HandleInv, WizardInv, Current
<1>. QED  BY <1>1, Basics DEF CheckoutInv, WizardInv, PageTyped

\* Polling begins; the wizard keeps the order, which is the only one that is open.
LEMMA SucceededKeeps ==
  ASSUME CheckoutInv, NEW c \in calls, Drop(c), Succeeded(c), Aside, UNCHANGED replies,
         c.st = "bank" \/ c.m = "card", forms' \subseteq forms \cup {c.o}
  PROVE  CheckoutInv'
<1>. USE DEF CheckoutInv
<1>1. /\ UNCHANGED <<surface, pays, shop, fresh, placed, retired, notes, replies, ord, sales>>
      /\ UNCHANGED <<bankVars, overdue>>
  BY DEF Aside
<1>2. /\ c.h \in 0 .. MaxHandles /\ c.h <= ui.h /\ c.o \in Orders /\ c.o \notin fresh /\ c.m \in Methods
      /\ c.st = "bank" => ord[c.o].st # "none"
  BY WireFields DEF HandleInv, FreshInv, CallInv
<1>3. CallInv' /\ calls' \subseteq calls /\ \A d \in calls' : c.h # 0 => d.h # c.h
  BY <1>1, DropKeeps
<1>. DEFINE new == [NoTimer EXCEPT !.h = c.h, !.o = c.o]
<1>4. new \in TimerType /\ new.h = c.h /\ new.o = c.o
  BY <1>2, Basics DEF NoTimer, TimerType, Refs
<1>. HIDE DEF new
<1>5. timer' = IF surface = "store" \/ Current(c.h) THEN new ELSE timer
  BY DEF Succeeded, new
<1>6. CASE ~Current(c.h)
  <2>1. UNCHANGED <<ui, seen, stored>>
    BY <1>6 DEF Succeeded
  <2>2. UiTyped' /\ PageTyped' /\ FreshInv'
    BY <1>1, <1>2, <1>3, <1>4, <1>5, <2>1 DEF UiTyped, PageTyped, FreshInv
  <2>3. HandleInv'
    BY <1>1, <1>2, <1>3, <1>4, <1>5, <1>6, <2>1 DEF HandleInv, Current
  <2>4. WizardInv'
    <3>1. CASE surface = "store"
      BY <1>1, <3>1 DEF WizardInv
    <3>2. CASE surface = "wizard"
      BY <1>1, <1>3, <1>5, <1>6, <2>1, <3>2 DEF WizardInv, Open
    <3>. QED  BY <3>1, <3>2, Basics
  <2>. QED  BY <1>1, <1>3, <2>2, <2>3, <2>4, WireFrame, OrderFrame, BankFrame
<1>7. CASE Current(c.h)
  <2>1. PICK a \in Refs :
          /\ a = IF c.m = "bank_transfer" THEN c.o ELSE NoOrder
          /\ ui' = [ui EXCEPT !.at = "polling", !.active = a]
    BY <1>2, <1>7 DEF Succeeded, Refs
  <2>2. /\ ui' \in UiType /\ ui'.h = ui.h /\ ui'.o = ui.o /\ ui'.at = "polling"
        /\ ui'.retrying = ui.retrying /\ ui'.active = a /\ c.h = ui.h /\ ui.h # 0 /\ timer' = new
    BY <1>5, <1>7, <2>1 DEF UiTyped, UiType, UiStates, Current, HandleInv
  <2>3. /\ seen' = IF c.m = "bank_transfer" THEN seen \cup {c.o} ELSE seen
        /\ stored' = IF c.m = "bank_transfer" /\ surface = "wizard" THEN c.o ELSE stored
    BY <1>7 DEF Succeeded
  <2>4. UiTyped' /\ PageTyped' /\ FreshInv'
    BY <1>1, <1>2, <1>3, <1>4, <2>2, <2>3 DEF UiTyped, PageTyped, FreshInv, Refs
  <2>5. HandleInv'
    BY <1>1, <1>2, <1>3, <1>4, <1>7, <2>2 DEF HandleInv, Current
  <2>6. WizardInv'
    <3>. SUFFICES ASSUME surface = "wizard" PROVE WizardInv'
      BY <1>1 DEF WizardInv
    <3>1. /\ \A o \in seen : ~Open(o) /\ ord[o].st # "none"
          /\ \A r \in replies : r.h # ui.h
      BY <1>7, AwaitedInWizard DEF WizardInv
    <3>2. \A o \in Orders : Open(o)' = Open(o)
      BY <1>1 DEF Open
    <3>3. \A o \in seen' : ord'[o].st # "none" /\ (Open(o)' => stored' = o /\ ui'.active = o)
      BY <1>1, <1>2, <2>1, <2>2, <2>3, <3>1, <3>2 DEF Methods, PageTyped
    <3>4. stored' # NoOrder => stored' \in seen'
      BY <2>3 DEF WizardInv
    <3>5. timer'.h = ui'.h /\ ui'.active \in {NoOrder, timer'.o}
      BY <1>4, <2>1, <2>2
    <3>. QED  BY <1>1, <1>3, <2>2, <3>1, <3>3, <3>4, <3>5 DEF WizardInv
  <2>. QED  BY <1>1, <1>3, <2>4, <2>5, <2>6, WireFrame, OrderFrame, BankFrame
<1>. QED  BY <1>6, <1>7

\* The button is back, and nothing of this handle is under way.
LEMMA FailedKeeps ==
  ASSUME CheckoutInv, NEW c \in calls, NEW error, FailedWith(c, error), Aside, UNCHANGED <<replies, forms>>,
         CallInv', \A d \in calls' : \E e \in calls : d.o = e.o /\ d.h \in {0, e.h},
         c.h # 0 => \A d \in calls' : d.h # c.h
  PROVE  CheckoutInv'
<1>. USE DEF CheckoutInv
<1>1. /\ UNCHANGED <<surface, pays, shop, fresh, placed, retired, notes, replies, ord, sales>>
      /\ UNCHANGED <<bankVars, overdue, forms, timer, seen, stored>>
  BY DEF Aside, FailedWith
<1>2. CASE ~Current(c.h)
  <2>1. UNCHANGED clientVars
    BY <1>1, <1>2 DEF FailedWith, clientVars
  <2>2. Onward
    BY <1>1 DEF Onward
  <2>. QED  BY <1>1, <2>1, <2>2, OnwardKeeps, WireFrame, OrderFrame, BankFrame
<1>3. CASE Current(c.h)
  <2>1. PICK o \in Refs : /\ ui' = [ui EXCEPT !.at = "pay", !.o = o]
                          /\ o = ui.o \/ (o = NoOrder /\ surface = "wizard")
    <3>1. CASE surface = "wizard" /\ error = "clean"
      BY <1>3, <3>1 DEF FailedWith, Refs
    <3>2. CASE ~(surface = "wizard" /\ error = "clean")
      <4>1. ui' = [ui EXCEPT !.at = "pay", !.o = ui.o]
        BY <1>3, <3>2 DEF FailedWith
      <4>. QED  BY <4>1, UiFields
    <3>. QED  BY <3>1, <3>2
  <2>2. /\ ui' \in UiType /\ ui'.h = ui.h /\ ui'.o = o /\ ui'.at = "pay"
        /\ ui'.retrying = ui.retrying /\ ui'.active = ui.active /\ c.h = ui.h /\ ui.h # 0
    BY <1>3, <2>1 DEF UiTyped, UiType, UiStates, Current, HandleInv
  <2>3. UiTyped' /\ PageTyped'
    BY <1>1, <2>2 DEF UiTyped, PageTyped
  <2>4. FreshInv'
    BY <1>1, <2>1, <2>2, Basics DEF FreshInv
  <2>5. HandleInv'
    <3>1. \A d \in calls' : d.h <= ui.h /\ d.h # ui.h
      BY <2>2, UiFields, WireFields DEF HandleInv
    <3>2. surface = "store" => o = ui.o
      BY <2>1, Basics
    <3>. QED  BY <1>1, <1>3, <2>2, <3>1, <3>2 DEF HandleInv, Current
  <2>6. WizardInv'
    <3>. SUFFICES ASSUME surface = "wizard" PROVE WizardInv'
      BY <1>1 DEF WizardInv
    <3>1. /\ ui.active = NoOrder /\ timer = NoTimer
          /\ \A r \in replies : r.h # ui.h
      BY <1>3, AwaitedInWizard
    <3>. QED  BY <1>1, <2>2, <3>1 DEF WizardInv, Open
  <2>. QED  BY <1>1, <2>3, <2>4, <2>5, <2>6, WireFrame, OrderFrame, BankFrame
<1>. QED  BY <1>2, <1>3

LEMMA ReauthorizeKeeps ==
  ASSUME CheckoutInv, NEW c \in calls, Reauthorize(c)
  PROVE  CheckoutInv'
<1>. USE DEF CheckoutInv
<1>1. Aside /\ UNCHANGED <<replies, forms, ord, sales, retired, notes, placed, bankVars, overdue>>
  BY DEF Reauthorize, Aside, bankVars
<1>2. CASE c.st = "sent"
  <2>1. Now(c, "resent") /\ UNCHANGED clientVars
    BY <1>2 DEF Reauthorize, clientVars
  <2>2. Onward
    BY <1>1, <2>1, AnswerFollows DEF Onward
  <2>3. CallInv'
    <3>1. "resent" \in CallStates
      BY DEF CallStates
    <3>. QED  BY <2>1, <2>2, <3>1, NowKeeps
  <2>. QED  BY <1>1, <2>1, <2>2, <2>3, OnwardKeeps, WireFrame, OrderFrame, BankFrame
<1>3. CASE c.st # "sent"
  <2>1. Drop(c) /\ FailedWith(c, "clean")
    BY <1>3 DEF Reauthorize
  <2>2. CallInv' /\ calls' \subseteq calls /\ \A d \in calls' : c.h # 0 => d.h # c.h
    BY <1>1, <2>1, DropKeeps
  <2>. QED  BY <1>1, <2>1, <2>2, FailedKeeps
<1>. QED  BY <1>2, <1>3

LEMMA OpenFormKeeps ==
  ASSUME CheckoutInv, NEW c \in calls, OpenForm(c)
  PROVE  CheckoutInv'
<1>. USE DEF CheckoutInv
<1>1. Aside /\ UNCHANGED <<replies, ord>> /\ c.m = "card" /\ Drop(c)
  BY DEF OpenForm, Aside, bankVars, CallInv
<1>2. CallInv' /\ calls' \subseteq calls /\ \A d \in calls' : c.h # 0 => d.h # c.h
  BY <1>1, DropKeeps
<1>3. CASE Succeeded(c) /\ forms' = forms \cup {c.o}
  BY <1>1, <1>3, SucceededKeeps
<1>4. CASE FailedWith(c, "other") /\ UNCHANGED forms
  BY <1>1, <1>2, <1>4, FailedKeeps
<1>. QED  BY <1>3, <1>4 DEF OpenForm

LEMMA TellClientKeeps ==
  ASSUME CheckoutInv, NEW c \in calls, TellClient(c)
  PROVE  CheckoutInv'
<1>. USE DEF CheckoutInv
<1>1. Aside /\ UNCHANGED <<replies, ord, forms>> /\ Drop(c)
  BY DEF TellClient, Aside, bankVars
<1>2. CallInv' /\ calls' \subseteq calls /\ \A d \in calls' : c.h # 0 => d.h # c.h
  BY <1>1, DropKeeps
<1>3. CASE c.st = "bank" /\ Succeeded(c)
  BY <1>1, <1>3, SucceededKeeps
<1>4. CASE FailedWith(c, c.st)
  BY <1>1, <1>2, <1>4, FailedKeeps
<1>. QED  BY <1>3, <1>4 DEF TellClient

LEMMA IntentTimesOutKeeps ==
  ASSUME CheckoutInv, NEW c \in calls, IntentTimesOut(c)
  PROVE  CheckoutInv'
<1>. USE DEF CheckoutInv
<1>1. Aside /\ UNCHANGED <<replies, ord, forms>> /\ FailedWith(c, "other") /\ c.h # 0
  BY DEF IntentTimesOut, Aside, bankVars
<1>. DEFINE n == [c EXCEPT !.h = 0]
<1>2. n \in CallType /\ n.h = 0 /\ n.o = c.o /\ n.m = c.m /\ n.st = c.st
  BY Basics DEF CallInv, CallType
<1>. HIDE DEF n
<1>3. calls' = (calls \ {c}) \cup {n}
  BY DEF IntentTimesOut, n
<1>4. CallInv' /\ \A d \in calls' : d.h # c.h
  BY <1>1, <1>2, <1>3 DEF CallInv
<1>5. \A d \in calls' : \E e \in calls : d.o = e.o /\ d.h \in {0, e.h}
  BY <1>2, <1>3
<1>. QED  BY <1>1, <1>4, <1>5, FailedKeeps

LEMMA WorkerDiesKeeps == ASSUME CheckoutInv, WorkerDies PROVE CheckoutInv'
<1>. USE DEF CheckoutInv
<1>1. /\ UNCHANGED <<surface, pays, shop, fresh, placed, retired, timer, notes, seen, stored>>
      /\ UNCHANGED <<forms, ord, sales, bankVars, overdue>> /\ replies' = {}
  BY DEF WorkerDies, bankVars
<1>2. calls' = {[c EXCEPT !.h = 0] : c \in {d \in calls : d.st \in {"sent", "resent", "creating"}}}
  BY DEF WorkerDies
<1>3. \A d \in calls' : \E e \in calls : /\ d \in CallType /\ d.h = 0 /\ d.o = e.o /\ d.st = e.st
  BY <1>2, Basics DEF CallInv, CallType
<1>4. CallInv'
  <2>1. \A d \in calls' : d.st \in {"sent", "resent", "creating"}
    BY <1>2 DEF CallInv, CallType
  <2>. QED  BY <1>1, <1>3, <2>1 DEF CallInv
<1>5. /\ ui' \in UiType /\ ui'.h = ui.h /\ ui'.o = ui.o /\ ui'.retrying = ui.retrying
      /\ ui'.active = ui.active /\ (ui'.at = ui.at \/ (ui.at = "busy" /\ ui'.at = "pay"))
  <2>1. ui' = ui \/ (ui.at = "busy" /\ ui' = [ui EXCEPT !.at = "pay"])
    BY DEF WorkerDies
  <2>. QED  BY <2>1 DEF UiTyped, UiType, UiStates
<1>6. UiTyped' /\ PageTyped' /\ FreshInv'
  BY <1>1, <1>3, <1>5 DEF UiTyped, PageTyped, FreshInv
<1>7. HandleInv'
  BY <1>1, <1>3, <1>5, UiFields DEF HandleInv
<1>8. WizardInv'
  BY <1>1, <1>3, <1>5 DEF WizardInv, Open
<1>9. WireTyped' /\ OrderInv'
  BY <1>1 DEF WireTyped, OrderInv
<1>. QED  BY <1>1, <1>4, <1>6, <1>7, <1>8, <1>9, BankFrame

-----------------------------------------------------------------------------
(* The wizard.                                                             *)

\* The wizard has nothing to do with TROIA_RETRY.
LEMMA WizardNeverRetries ==
  ASSUME CheckoutInv, surface = "wizard"
  PROVE  ui.at # "retry" /\ ~ui.retrying
BY DEF CheckoutInv, HandleInv

LEMMA WizardPayKeeps ==
  ASSUME CheckoutInv, NEW m \in pays, WizardPay(m)
  PROVE  CheckoutInv'
<1>. USE DEF CheckoutInv
<1>1. /\ UNCHANGED <<surface, pays, shop, placed, retired, timer, notes, seen, stored>>
      /\ UNCHANGED <<replies, forms, ord, sales, bankVars, overdue>>
      /\ surface = "wizard" /\ ui.at \in {"none", "pay"} /\ ui.h < MaxHandles
  BY DEF WizardPay, bankVars
<1>. DEFINE o == IF ui.o # NoOrder THEN ui.o ELSE Fresh
<1>2. /\ o \in Orders /\ fresh' = fresh \ {o} /\ calls' = calls \cup {Intent(ui.h + 1, o, m)}
      /\ \E p \in {o, NoOrder} : ui' = [ui EXCEPT !.h = @ + 1, !.at = "busy", !.o = p]
  <2>1. o \in Orders
    BY Basics, UiFields DEF WizardPay, Refs
  <2>2. /\ fresh' = fresh \ {o} /\ calls' = calls \cup {Intent(ui.h + 1, o, m)}
        /\ ui' = [ui EXCEPT !.h = @ + 1, !.at = "busy",
                            !.o = IF m = "bank_transfer" THEN o ELSE NoOrder]
    BY DEF WizardPay
  <2>. QED  BY <2>1, <2>2
<1>. HIDE DEF o
<1>3. PICK p \in {o, NoOrder} : ui' = [ui EXCEPT !.h = ui.h + 1, !.at = "busy", !.o = p]
  BY <1>2
<1>4. /\ ui.h + 1 \in 1 .. MaxHandles /\ ui.h + 1 \in 0 .. MaxHandles
      /\ m \in Methods /\ p \in Refs /\ p \notin fresh'
  BY <1>1, <1>2, Basics, UiFields DEF Refs
<1>5. /\ ui' \in UiType /\ ui'.h = ui.h + 1 /\ ui'.o = p /\ ui'.at = "busy"
      /\ ui'.retrying = ui.retrying /\ ui'.active = ui.active
  BY <1>3, <1>4 DEF UiTyped, UiType, UiStates
<1>6. \A x \in calls \cup replies : x.h <= ui.h /\ x.h \in Nat
  BY WireFields DEF HandleInv
<1>7. CallInv'
  <2>1. \A c \in calls : c.h # ui.h + 1
    BY <1>6, UiFields
  <2>. QED  BY <1>1, <1>2, <1>4, <2>1, CallAdded
<1>8. \A c \in calls' : c \in calls \/ (c.h = ui.h + 1 /\ c.o = o)
  BY <1>2 DEF Intent
<1>9. UiTyped' /\ FreshInv'
  BY <1>1, <1>2, <1>4, <1>5, <1>8 DEF UiTyped, FreshInv
<1>10. HandleInv'
  <2>1. timer.h <= ui'.h /\ ui'.h # 0 /\ \A x \in calls' \cup replies' : x.h <= ui'.h
    BY <1>1, <1>5, <1>6, <1>8, UiFields DEF HandleInv
  <2>. QED  BY <1>1, <1>5, <2>1, WizardNeverRetries DEF HandleInv
<1>11. WizardInv'
  <2>1. ui.active = NoOrder /\ timer = NoTimer /\ timer.h = 0
    BY <1>1, Basics DEF WizardInv
  <2>2. \A r \in replies' : r.h # ui'.h
    BY <1>1, <1>5, <1>6, UiFields
  <2>. QED  BY <1>1, <1>5, <2>1, <2>2 DEF WizardInv, Open
<1>. QED  BY <1>1, <1>7, <1>9, <1>10, <1>11, PageFrame, WireFrame, OrderFrame, BankFrame

\* An open order is the one "again" polls.
LEMMA WizardAgainKeeps == ASSUME CheckoutInv, WizardAgain PROVE CheckoutInv'
<1>. USE DEF CheckoutInv
<1>1. /\ UNCHANGED <<surface, pays, shop, fresh, placed, retired, notes, seen, stored>>
      /\ UNCHANGED <<calls, replies, forms, ord, sales, bankVars, overdue>>
      /\ surface = "wizard" /\ ui.at \in {"info", "gaveUp"}
  BY DEF WizardAgain, wireVars, bankVars
<1>2. \A c \in calls : ~(c.h = ui.h /\ c.h # 0)
  BY <1>1 DEF WizardInv
<1>3. CASE ui.active # NoOrder
  <2>1. /\ ui' = [ui EXCEPT !.at = "polling"]
        /\ timer' = [h |-> ui.h, o |-> ui.active, saw |-> FALSE, n |-> 0]
    BY <1>3 DEF WizardAgain, NoTimer
  <2>2. /\ ui' \in UiType /\ ui'.h = ui.h /\ ui'.o = ui.o /\ ui'.at = "polling"
        /\ ui'.retrying = ui.retrying /\ ui'.active = ui.active
    BY <2>1 DEF UiTyped, UiType, UiStates
  <2>3. timer' \in TimerType /\ timer'.h = ui.h /\ timer'.o = ui.active /\ ui.active \in Orders
    BY <1>3, <2>1, Basics, UiFields DEF TimerType, Refs
  <2>4. UiTyped' /\ FreshInv'
    BY <1>1, <2>2, <2>3 DEF UiTyped, FreshInv
  <2>5. HandleInv'
    BY <1>1, <2>2, <2>3, UiFields, WizardNeverRetries DEF HandleInv
  <2>6. WizardInv'
    BY <1>1, <1>2, <2>2, <2>3 DEF WizardInv, Open
  <2>. QED  BY <1>1, <2>4, <2>5, <2>6, PageFrame, WireFrame, CallFrame, OrderFrame, BankFrame
<1>4. CASE ui.active = NoOrder
  <2>1. ui' = [NoUi EXCEPT !.h = ui.h] /\ timer' = NoTimer
    BY <1>4 DEF WizardAgain
  <2>2. /\ ui' \in UiType /\ ui'.h = ui.h /\ ui'.o = NoOrder /\ ui'.at = "none"
        /\ ~ui'.retrying /\ ui'.active = NoOrder
    BY <2>1, UiFields DEF NoUi, UiType, Refs, UiStates
  <2>3. UiTyped' /\ FreshInv'
    BY <1>1, <2>1, <2>2, Basics DEF UiTyped, FreshInv
  <2>4. HandleInv'
    BY <1>1, <2>1, <2>2, Basics, UiFields DEF HandleInv
  <2>5. WizardInv'
    BY <1>1, <1>2, <1>4, <2>1, <2>2, Basics DEF WizardInv, Open
  <2>. QED  BY <1>1, <2>3, <2>4, <2>5, PageFrame, WireFrame, CallFrame, OrderFrame, BankFrame
<1>. QED  BY <1>3, <1>4

\* An open order is the stored one, and the reloaded page resumes it.
LEMMA WizardReloadKeeps == ASSUME CheckoutInv, WizardReload PROVE CheckoutInv'
<1>. USE DEF CheckoutInv
<1>1. /\ UNCHANGED <<surface, pays, shop, fresh, placed, retired, notes, stored>>
      /\ UNCHANGED <<calls, forms, ord, sales, bankVars, overdue>>
      /\ surface = "wizard" /\ ui.h < MaxHandles /\ replies' = {}
  BY DEF WizardReload, bankVars
<1>2. seen' = seen
  BY <1>1 DEF WizardReload, WizardInv
<1>3. ui.h + 1 \in 0 .. MaxHandles /\ \A c \in calls : c.h <= ui.h /\ c.h \in Nat
  BY <1>1, Basics, UiFields, WireFields DEF HandleInv
<1>4. stored \in Refs /\ stored \notin fresh
  BY DEF PageTyped, FreshInv
<1>5. /\ ui' \in UiType /\ ui'.h = ui.h + 1 /\ ui'.o = stored /\ ~ui'.retrying /\ ui'.active = stored
      /\ timer' \in TimerType /\ timer'.o = stored
      /\ \/ stored # NoOrder /\ ui'.at = "polling" /\ timer'.h = ui.h + 1
         \/ stored = NoOrder /\ ui'.at = "none" /\ timer' = NoTimer
  <2>1. CASE stored # NoOrder
    <3>1. /\ ui' = [h |-> ui.h + 1, o |-> stored, at |-> "polling", uri |-> NoOrder,
                    retrying |-> FALSE, active |-> stored]
          /\ timer' = [h |-> ui.h + 1, o |-> stored, saw |-> FALSE, n |-> 0]
      BY <2>1 DEF WizardReload, NoUi, NoTimer
    <3>2. /\ ui' \in UiType /\ ui'.h = ui.h + 1 /\ ui'.o = stored /\ ~ui'.retrying
          /\ ui'.active = stored /\ ui'.at = "polling"
      BY <1>3, <1>4, <3>1 DEF UiType, UiStates, Refs
    <3>3. timer' \in TimerType /\ timer'.o = stored /\ timer'.h = ui.h + 1
      BY <1>3, <1>4, <3>1, Basics DEF TimerType
    <3>. QED  BY <2>1, <3>2, <3>3
  <2>2. CASE stored = NoOrder
    <3>1. ui' = [NoUi EXCEPT !.h = ui.h + 1] /\ timer' = NoTimer
      BY <2>2 DEF WizardReload
    <3>2. ui' \in UiType /\ ui'.h = ui.h + 1 /\ ui'.o = stored /\ ~ui'.retrying
          /\ ui'.active = stored /\ ui'.at = "none"
      BY <1>3, <2>2, <3>1 DEF NoUi, UiType, UiStates, Refs
    <3>. QED  BY <2>2, <3>1, <3>2, Basics DEF NoTimer
  <2>. QED  BY <2>1, <2>2
<1>6. UiTyped' /\ PageTyped' /\ FreshInv'
  BY <1>1, <1>2, <1>4, <1>5, Basics DEF UiTyped, PageTyped, FreshInv, Refs
<1>7. WireTyped' /\ OrderInv'
  BY <1>1 DEF WireTyped, OrderInv
<1>8. HandleInv'
  <2>1. ui'.h # 0 /\ timer'.h <= ui'.h /\ \A c \in calls' : c.h <= ui'.h
    BY <1>1, <1>3, <1>5, Basics, UiFields
  <2>. QED  BY <1>1, <1>5, <2>1 DEF HandleInv
<1>9. WizardInv'
  <2>1. \A c \in calls' : c.h # ui'.h
    BY <1>1, <1>3, <1>5, UiFields
  <2>2. timer'.h # 0 => timer'.h = ui'.h
    BY <1>5, Basics
  <2>. QED  BY <1>1, <1>2, <1>5, <2>1, <2>2, Basics DEF WizardInv, Open
<1>. QED  BY <1>1, <1>6, <1>7, <1>8, <1>9, CallFrame, BankFrame

-----------------------------------------------------------------------------
(* Polling.                                                                *)

\* A wizard that polls is on the page that polls.
LEMMA PollingPage ==
  ASSUME CheckoutInv, timer.h # 0, surface = "wizard" \/ Current(timer.h)
  PROVE  /\ timer.h = ui.h /\ ui.at # "none" /\ timer.o \in Orders
         /\ surface = "wizard" => ui.at \notin {"none", "busy", "pay"}
BY Basics DEF CheckoutInv, WizardInv, UiTyped, Current

LEMMA TickKeeps == ASSUME CheckoutInv, Tick PROVE CheckoutInv'
<1>. USE DEF CheckoutInv
<1>1. /\ UNCHANGED <<surface, pays, shop, fresh, placed, retired, notes, seen, stored>>
      /\ UNCHANGED <<calls, forms, ord, sales, bankVars, overdue>> /\ timer.h # 0
  BY DEF Tick, bankVars
<1>2. CASE surface = "store" /\ ~Current(timer.h)
  <2>1. timer' = NoTimer /\ UNCHANGED <<ui, replies>>
    BY <1>2 DEF Tick
  <2>2. UiTyped' /\ FreshInv'
    BY <1>1, <2>1, Basics DEF UiTyped, FreshInv
  <2>3. HandleInv'
    BY <1>1, <2>1, Basics, UiFields DEF HandleInv
  <2>4. WizardInv'
    BY <1>1, <1>2 DEF WizardInv
  <2>. QED  BY <1>1, <2>1, <2>2, <2>3, <2>4, PageFrame, WireFrame, CallFrame, OrderFrame, BankFrame
<1>3. CASE ~(surface = "store" /\ ~Current(timer.h))
           /\ timer.n >= (IF timer.saw THEN ConfirmPolls ELSE PendingPolls)
  <2>1. timer' = NoTimer /\ ui' = [ui EXCEPT !.at = "gaveUp"] /\ UNCHANGED replies
    BY <1>3 DEF Tick
  <2>2. /\ ui' \in UiType /\ ui'.h = ui.h /\ ui'.o = ui.o /\ ui'.at = "gaveUp"
        /\ ui'.retrying = ui.retrying /\ ui'.active = ui.active
    BY <2>1 DEF UiTyped, UiType, UiStates
  <2>3. /\ ui.at # "none" /\ (surface = "wizard" => ui.at # "busy")
    BY <1>1, <1>3, Basics, PollingPage
  <2>4. UiTyped' /\ FreshInv'
    BY <1>1, <2>1, <2>2, Basics DEF UiTyped, FreshInv
  <2>5. HandleInv'
    BY <1>1, <2>1, <2>2, <2>3, Basics, UiFields DEF HandleInv
  <2>6. WizardInv'
    BY <1>1, <2>1, <2>2, <2>3, Basics DEF WizardInv, Open
  <2>. QED  BY <1>1, <2>1, <2>4, <2>5, <2>6, PageFrame, WireFrame, CallFrame, OrderFrame, BankFrame
<1>4. CASE ~(surface = "store" /\ ~Current(timer.h))
           /\ ~(timer.n >= (IF timer.saw THEN ConfirmPolls ELSE PendingPolls))
  <2>. DEFINE r == [h |-> timer.h, o |-> timer.o, n |-> timer.n, st |-> PublicStatus(timer.o)]
  <2>1. timer' = [timer EXCEPT !.n = timer.n + 1] /\ replies' = replies \cup {r} /\ ui' = ui
    BY <1>4 DEF Tick
  <2>2. /\ timer.h = ui.h /\ ui.at # "none" /\ timer.o \in Orders
        /\ surface = "wizard" => ui.at \notin {"none", "busy", "pay"}
    BY <1>1, <1>4, Basics, PollingPage
  <2>3. timer' \in TimerType /\ timer'.h = timer.h /\ timer'.o = timer.o
    <3>1. timer.n + 1 \in 0 .. (PendingPolls + ConfirmPolls)
      BY <1>4, Basics, UiFields
    <3>. QED  BY <2>1, <3>1 DEF UiTyped, TimerType
  <2>4. /\ r \in ReplyType /\ r.h = timer.h /\ r.o = timer.o
        /\ r.st \in {"failed", "completed"} => ord[r.o].st = r.st
    <3>1. PublicStatus(timer.o) \in Statuses /\ PublicStatus(timer.o) \in {"review", ord[timer.o].st}
      BY <2>2, WireFields DEF PublicStatus, Statuses, Terminal
    <3>. QED  BY <2>2, <3>1, UiFields DEF ReplyType
  <2>. HIDE DEF r
  <2>5. UiTyped' /\ FreshInv'
    BY <1>1, <2>1, <2>2, <2>3 DEF UiTyped, FreshInv
  <2>6. WireTyped' /\ OrderInv'
    BY <1>1, <2>1, <2>4 DEF WireTyped, OrderInv
  <2>7. HandleInv'
    BY <1>1, <2>1, <2>2, <2>3, <2>4, UiFields DEF HandleInv
  <2>8. WizardInv'
    BY <1>1, <2>1, <2>2, <2>3, <2>4 DEF WizardInv, Open
  <2>. QED  BY <1>1, <2>5, <2>6, <2>7, <2>8, PageFrame, CallFrame, BankFrame
<1>. QED  BY <1>2, <1>3, <1>4

\* What the reply says is true of its order, whenever it arrives: a retry is offered for
\* an order that failed, a note is posted for one that completed, and the wizard lets go
\* of neither while it is open.
LEMMA StatusReplyKeeps ==
  ASSUME CheckoutInv, NEW r \in replies, StatusReply(r)
  PROVE  CheckoutInv'
<1>. USE DEF CheckoutInv
<1>1. /\ UNCHANGED <<surface, pays, shop, fresh, placed, retired, seen>>
      /\ UNCHANGED <<calls, forms, ord, sales, bankVars, overdue>> /\ replies' = replies \ {r}
  BY DEF StatusReply, bankVars
<1>2. /\ r.h # 0 /\ r.h \in 0 .. MaxHandles /\ r.o \in Orders /\ r.h <= ui.h
      /\ r.st \in {"failed", "completed"} => ord[r.o].st = r.st
      /\ surface = "store" /\ Current(r.h) => r.o = ui.o
  BY WireFields DEF HandleInv, OrderInv, Current
<1>3. /\ notes' \in [Orders -> Nat]
      /\ \A o \in Orders : notes'[o] > 0 => notes[o] > 0 \/ ord[o].st = "completed"
  <2>1. notes' = notes \/ (r.st = "completed" /\ notes' = [notes EXCEPT ![r.o] = @ + 1])
    BY DEF StatusReply, Paid
  <2>. QED  BY <1>2, <2>1 DEF PageTyped
<1>4. /\ stored' \in {stored, NoOrder}
      /\ stored' # stored => stored = r.o /\ r.st \in {"completed", "failed"}
  BY DEF StatusReply, StillStored
<1>5. \/ timer' = timer /\ (timer.h = r.h => r.st \notin Terminal)
      \/ timer' = NoTimer /\ r.st \in Terminal /\ (timer.h = r.h \/ surface = "store")
      \/ timer.h = r.h /\ timer' = [timer EXCEPT !.saw = TRUE, !.n = 0]
  BY DEF StatusReply
<1>6. /\ timer' \in TimerType /\ (timer'.h # 0 => timer'.h = timer.h /\ timer'.o = timer.o)
  <2>1. CASE timer' = timer
    BY <2>1 DEF UiTyped
  <2>2. CASE timer' = NoTimer
    BY <2>2, Basics
  <2>3. CASE timer' = [timer EXCEPT !.saw = TRUE, !.n = 0]
    <3>1. 0 \in 0 .. (PendingPolls + ConfirmPolls)
      BY Basics
    <3>. QED  BY <2>3, <3>1 DEF UiTyped, TimerType
  <2>. QED  BY <1>5, <2>1, <2>2, <2>3
<1>7. WireTyped' /\ OrderInv'
  BY <1>1, <1>3 DEF WireTyped, OrderInv
<1>8. PageTyped'
  BY <1>1, <1>3, <1>4 DEF PageTyped, Refs
<1>9. timer'.h <= ui.h
  BY <1>6, UiFields DEF HandleInv
<1>10. CASE ~(r.st \in Terminal /\ Current(r.h))
  <2>1. ui' = ui
    BY <1>10 DEF StatusReply
  <2>2. UiTyped' /\ FreshInv'
    BY <1>1, <1>4, <1>6, <2>1, Basics DEF UiTyped, FreshInv
  <2>3. HandleInv'
    BY <1>1, <1>6, <1>9, <2>1 DEF HandleInv
  <2>4. WizardInv'
    <3>. SUFFICES ASSUME surface = "wizard" PROVE WizardInv'
      BY <1>1 DEF WizardInv
    <3>1. \A o \in seen : Open(o)' => Open(o) /\ stored' = o
      BY <1>1, <1>2, <1>4 DEF WizardInv, Open
    <3>2. timer = NoTimer => timer' = NoTimer
      BY <1>2, <1>5, Basics
    <3>. QED  BY <1>1, <1>4, <1>6, <2>1, <3>1, <3>2 DEF WizardInv
  <2>. QED  BY <1>1, <1>7, <1>8, <2>2, <2>3, <2>4, CallFrame, BankFrame
<1>11. CASE r.st \in Terminal /\ Current(r.h)
  <2>1. PICK at \in {"retry", "info"}, a \in {ui.active, NoOrder} :
          /\ ui' = [ui EXCEPT !.at = at, !.active = a]
          /\ at = "retry" => r.st = "failed" /\ surface = "store"
          /\ a # ui.active => r.st \in {"completed", "failed"}
    <3>1. /\ ui' = [ui EXCEPT !.at = Offer(r), !.active = IF r.st = "review" THEN @ ELSE NoOrder]
          /\ Offer(r) \in {"retry", "info"} /\ (Offer(r) = "retry" => r.st = "failed" /\ surface = "store")
      BY <1>11 DEF StatusReply, Offer
    <3>2. CASE r.st = "review"
      <4>1. ui' = [ui EXCEPT !.at = Offer(r), !.active = ui.active]
        BY <3>1, <3>2
      <4>. QED  BY <3>1, <4>1
    <3>3. CASE r.st # "review"
      <4>1. ui' = [ui EXCEPT !.at = Offer(r), !.active = NoOrder]
        BY <3>1, <3>3
      <4>. QED  BY <1>11, <3>1, <3>3, <4>1 DEF Terminal
    <3>. QED  BY <3>2, <3>3
  <2>2. /\ ui' \in UiType /\ ui'.h = ui.h /\ ui'.o = ui.o /\ ui'.at = at
        /\ ui'.retrying = ui.retrying /\ ui'.active = a /\ r.h = ui.h /\ ui.at # "none"
    <3>1. a \in Refs
      BY UiFields DEF Refs
    <3>. QED  BY <1>11, <2>1, <3>1 DEF UiTyped, UiType, UiStates, Current
  <2>3. UiTyped' /\ FreshInv'
    BY <1>1, <1>4, <1>6, <2>2, Basics DEF UiTyped, FreshInv
  <2>4. HandleInv'
    <3>1. at = "retry" => surface = "store" /\ ui.o \in Orders /\ ord[ui.o].st = "failed"
      BY <1>2, <1>11, <2>1
    <3>. QED  BY <1>1, <1>6, <1>9, <2>1, <2>2, <3>1 DEF HandleInv
  <2>5. WizardInv'
    <3>. SUFFICES ASSUME surface = "wizard" PROVE WizardInv'
      BY <1>1 DEF WizardInv
    <3>1. \A o \in seen : Open(o)' => Open(o) /\ stored' = o
      BY <1>1, <1>2, <1>4 DEF WizardInv, Open
    <3>2. \A o \in seen : Open(o) => ui.active = a
      BY <1>2, <2>1, <2>2, Basics DEF WizardInv, Open, PageTyped
    <3>3. ui.at \notin {"busy", "pay"}
      BY <2>2 DEF WizardInv
    <3>. QED  BY <1>1, <1>4, <1>6, <2>1, <2>2, <3>1, <3>2, <3>3 DEF WizardInv
  <2>. QED  BY <1>1, <1>7, <1>8, <2>3, <2>4, <2>5, CallFrame, BankFrame
<1>. QED  BY <1>10, <1>11

-----------------------------------------------------------------------------
(* The invariant holds throughout.                                         *)

LEMMA InitCheckout == Init => CheckoutInv
<1>. SUFFICES ASSUME Init PROVE CheckoutInv
  OBVIOUS
<1>1. /\ ui = NoUi /\ timer = NoTimer /\ calls = {} /\ replies = {} /\ seen = {} /\ forms = {}
      /\ retired = {} /\ stored = NoOrder
      /\ placed = [o \in Orders |-> 0] /\ notes = [o \in Orders |-> 0]
      /\ shop = [memo |-> NoOrder, shown |-> FALSE, cart |-> FALSE]
      /\ ord = [o \in Orders |-> NoRecord] /\ sales = [o \in Orders |-> "none"]
      /\ \E s \in Shoppers : surface = s.at /\ pays = s.pays /\ fresh = s.refs
  BY DEF Init
<1>2. /\ desk = [o \in Orders |-> NoRow] /\ creating = [o \in Orders |-> "no"]
      /\ afloat = [o \in Orders |-> 0] /\ transfers = <<>> /\ receipts = [t \in 1 .. 0 |-> NoOrder]
      /\ overdue = {} /\ slips = 0
  BY DEF Init, BankInit
<1>3. /\ MaxHandles \in Nat /\ PendingPolls \in Nat /\ ConfirmPolls \in Nat /\ MaxSlips \in Nat
      /\ NoOrder \notin fresh
  BY <1>1, CheckoutAssumption, BankAssumption
<1>4. /\ ui \in UiType /\ ui.h = 0 /\ ui.o = NoOrder /\ ui.at = "none" /\ ~ui.retrying
      /\ ui.active = NoOrder /\ timer \in TimerType /\ timer.h = 0
  BY <1>1, <1>3 DEF NoUi, NoTimer, UiType, TimerType, UiStates, Refs
<1>5. NoRecord \in RecordType /\ NoRecord.st = "none" /\ NoRecord.m = "card"
  BY DEF NoRecord, RecordType, Statuses, Methods
<1>6. UiTyped /\ PageTyped /\ WireTyped
  BY <1>1, <1>4, <1>5 DEF UiTyped, PageTyped, WireTyped, Refs
<1>7. BankTyped
  <2>1. NoRow \in [quoted : BOOLEAN, dispatched : BOOLEAN, instr : Nat]
    BY DEF NoRow
  <2>. QED  BY <1>2, <1>3, <2>1 DEF BankTyped
<1>8. CallInv /\ FreshInv /\ HandleInv
  BY <1>1, <1>3, <1>4 DEF CallInv, FreshInv, HandleInv
<1>9. OrderInv
  BY <1>1, <1>5 DEF OrderInv
<1>10. BankInv
  <2>1. NoRow.dispatched = FALSE /\ NoRow.instr = 0 /\ DOMAIN transfers = {}
    BY <1>2 DEF NoRow
  <2>2. \A o \in Orders : CarryingQuote(o) = {} /\ ord[o] = NoRecord
    BY <1>1, <2>1 DEF CarryingQuote
  <2>. QED  BY <1>2, <1>5, <2>1, <2>2 DEF BankInv, DeskInv, LinkInv, AtMostOne
<1>11. WizardInv
  BY <1>1, <1>4 DEF WizardInv
<1>. QED  BY <1>6, <1>7, <1>8, <1>9, <1>10, <1>11 DEF CheckoutInv

LEMMA CheckoutStep == CheckoutInv /\ [Next]_vars => CheckoutInv'
<1>. SUFFICES ASSUME CheckoutInv, [Next]_vars PROVE CheckoutInv'
  OBVIOUS
<1>1. CASE Store
  BY <1>1, FillCartKeeps, OpenCheckoutKeeps, LeavePayStepKeeps, ScanKeeps, ClickRetryKeeps,
     RetryTimesOutKeeps, CloseBannerKeeps, ClickPayKeeps, NoteArrivesKeeps DEF Store
<1>2. CASE Wizard
  BY <1>2, WizardPayKeeps, WizardAgainKeeps, WizardReloadKeeps DEF Wizard
<1>3. CASE Worker
  BY <1>3, WorkerDiesKeeps, ReauthorizeKeeps, CloseStaleFormKeeps, OpenFormKeeps, TellClientKeeps,
     IntentTimesOutKeeps DEF Worker
<1>4. CASE Server
  BY <1>4, BackendRestartsKeeps, IntentNewKeeps, IntentAgainKeeps, IntentCreatedKeeps,
     PollCardKeeps, PollBankKeeps, SettledKeeps DEF Server
<1>5. CASE Polling
  BY <1>5, TickKeeps, StatusReplyKeeps, ReplyLostKeeps DEF Polling
<1>6. CASE Outside
  BY <1>6, UseFormKeeps, MoneyKeeps, BankWorkKeeps DEF Outside
<1>7. CASE UNCHANGED vars
  <2>1. UNCHANGED clientVars /\ UNCHANGED bankVars /\ UNCHANGED <<calls, replies, forms, ord, sales>>
    BY <1>7 DEF vars, wireVars
  <2>2. Onward /\ UNCHANGED <<overdue, retired, notes, placed>>
    BY <2>1 DEF Onward, bankVars, clientVars
  <2>. QED
    BY <2>1, <2>2, OnwardKeeps, WireFrame, CallFrame, OrderFrame, BankFrame DEF CheckoutInv
<1>. QED  BY <1>1, <1>2, <1>3, <1>4, <1>5, <1>6, <1>7 DEF Next

LEMMA CheckoutInvariant == Spec => []CheckoutInv
BY InitCheckout, CheckoutStep, PTL DEF Spec

-----------------------------------------------------------------------------
(* Theorems.                                                               *)

\* createOnce never has two deposit requests of one order out in the world, in being or on
\* their way, whatever is lost, retried or restarted.
THEOREM OneTransferHolds == Spec => []OneTransfer
<1>1. CheckoutInv => OneTransfer
  <2>. SUFFICES ASSUME CheckoutInv, NEW o \in Orders
                PROVE  Cardinality(CarryingQuote(o)) + afloat[o] <= 1
    BY DEF OneTransfer
  <2>1. AtMostOne(o)
    BY DEF CheckoutInv, BankInv, DeskInv
  <2>2. CASE CarryingQuote(o) = {} /\ afloat[o] \in {0, 1}
    BY <2>2, FS_EmptySet
  <2>3. CASE afloat[o] = 0 /\ \E t \in DOMAIN transfers : CarryingQuote(o) = {t}
    BY <2>3, FS_Singleton
  <2>. QED  BY <2>1, <2>2, <2>3 DEF AtMostOne
<1>. QED  BY <1>1, CheckoutInvariant, PTL

\* An order the storefront replaced was never charged and never will be, and an order under
\* My Orders was paid, whatever replies, forms and intents are under way.
THEOREM StorefrontIsRightHolds == Spec => []StorefrontIsRight
<1>1. CheckoutInv => StorefrontIsRight
  <2>. SUFFICES ASSUME CheckoutInv PROVE StorefrontIsRight
    OBVIOUS
  <2>1. ASSUME NEW o \in retired
        PROVE  ord[o].st = "failed" /\ sales[o] # "charged" /\ CarryingQuote(o) = {}
    <3>1. o \in Orders /\ ord[o].st = "failed" /\ ord[o].m = "card" /\ sales[o] # "charged"
      BY DEF CheckoutInv, OrderInv, PageTyped
    <3>2. ~desk[o].dispatched
      BY <3>1 DEF CheckoutInv, BankInv, LinkInv, NoRow
    <3>. QED  BY <3>1, <3>2 DEF CheckoutInv, BankInv, DeskInv
  <2>2. \A o \in Orders : placed[o] > 0 => ord[o].st = "completed"
    BY DEF CheckoutInv, OrderInv
  <2>. QED  BY <2>1, <2>2 DEF StorefrontIsRight
<1>. QED  BY <1>1, CheckoutInvariant, PTL

\* Every bank order that is paid out has a credit of its own that came in time, even if the
\* anchor names one credit for two orders; and the types (CreditsCoverPayouts includes TypeOK).
THEOREM CreditsCoverPayoutsHolds == Spec => []CreditsCoverPayouts
<1>1. CheckoutInv => TypeOK
  <2>. SUFFICES ASSUME CheckoutInv PROVE TypeOK
    OBVIOUS
  <2>. USE DEF CheckoutInv
  <2>1. /\ \E s \in Shoppers : surface = s.at /\ pays = s.pays /\ fresh \subseteq s.refs
        /\ (forms \cup seen \cup retired) \cap fresh = {}
    BY DEF FreshInv
  <2>2. /\ ui.h \in 0 .. MaxHandles /\ timer.h \in 0 .. MaxHandles
        /\ timer.n \in 0 .. (PendingPolls + ConfirmPolls)
        /\ ui.at \in {"none", "pay", "busy", "polling", "retry", "info", "gaveUp"}
    BY DEF UiTyped, UiType, TimerType, UiStates
  <2>3. \A o \in Orders : /\ ord[o].st \in Statuses
                          /\ ord[o].m = "bank_transfer" /\ ord[o].tok => desk[o].instr # 0
    BY WireFields DEF BankInv, LinkInv
  <2>4. BankTypeOK
    <3>1. /\ \A t \in DOMAIN transfers : transfers[t] \in Transfers
          /\ DOMAIN receipts = DOMAIN transfers
      BY DEF BankTyped
    <3>2. /\ desk \in [Orders -> [quoted : BOOLEAN, dispatched : BOOLEAN, instr : Nat]]
          /\ creating \in [Orders -> {"no", "quote", "deposit", "history"}]
          /\ afloat \in [Orders -> Nat] /\ overdue \subseteq Orders /\ slips \in 0 .. MaxSlips
      BY DEF BankTyped
    <3>. QED  BY <3>1, <3>2, Zenon DEF BankTypeOK, Transfers
  <2>. QED  BY <2>1, <2>2, <2>3, <2>4 DEF TypeOK
<1>2. ASSUME CheckoutInv PROVE CreditsCoverPayouts
  <2>. DEFINE P == {o \in Orders : ord[o].m = "bank_transfer"
                                     /\ ord[o].st \in {"processing", "completed"}}
              R == {t \in DOMAIN transfers : transfers[t].st = "completed" /\ ~transfers[t].late}
              f == [o \in P |-> CHOOSE t \in R : receipts[t] = o]
  <2>1. \A o \in P : \E t \in R : receipts[t] = o
    BY <1>2 DEF CheckoutInv, BankInv, LinkInv, Backed
  <2>2. \A o \in P : f[o] \in R /\ receipts[f[o]] = o
    BY <2>1
  <2>3. f \in Injection(P, R)
    <3>. HIDE DEF P, R
    <3>1. f \in [P -> R]
      BY <2>2
    <3>. HIDE DEF f
    <3>2. \A a, b \in P : f[a] = f[b] => a = b
      BY <2>2
    <3>3. IsInjective(f)
      BY <3>1, <3>2 DEF IsInjective
    <3>. QED  BY <3>1, <3>3 DEF Injection
  <2>4. IsFiniteSet(R)
    <3>1. DOMAIN transfers = 1 .. Len(transfers) /\ Len(transfers) \in Int
      BY <1>2 DEF CheckoutInv, BankTyped
    <3>2. IsFiniteSet(1 .. Len(transfers))
      BY <3>1, FS_Interval
    <3>. QED  BY <3>1, <3>2, FS_Subset
  <2>. HIDE DEF P, R, f
  <2>5. Cardinality(P) <= Cardinality(R)
    BY <2>3, <2>4, FS_Injection
  <2>. QED  BY <1>1, <1>2, <2>5 DEF CreditsCoverPayouts, P, R
<1>. QED  BY <1>2, CheckoutInvariant, PTL

\* The wizard never shows a second set of bank instructions while the first can still be
\* paid: not after a lost answer, a reload or "again".
THEOREM OneOpenTransferHolds == Spec => []OneOpenTransfer
<1>1. CheckoutInv => OneOpenTransfer
  <2>. SUFFICES ASSUME CheckoutInv, surface = "wizard"
                PROVE  Cardinality({o \in seen : ord[o].st = "pending" /\ o \notin overdue}) <= 1
    BY DEF OneOpenTransfer
  <2>. DEFINE S == {o \in seen : ord[o].st = "pending" /\ o \notin overdue}
  <2>1. S \subseteq {stored}
    BY DEF CheckoutInv, WizardInv, Open
  <2>. HIDE DEF S
  <2>2. S = {} \/ S = {stored}
    BY <2>1
  <2>3. Cardinality(S) <= 1
    <3>1. Cardinality({}) = 0 /\ Cardinality({stored}) = 1
      BY FS_EmptySet, FS_Singleton
    <3>. QED  BY <2>2, <3>1
  <2>. QED  BY <2>3 DEF S
<1>. QED  BY <1>1, CheckoutInvariant, PTL
=============================================================================
