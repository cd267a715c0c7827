------------------------------ MODULE Checkout ------------------------------
(***************************************************************************)
(* A checkout from the shopper's side: the storefront page, the            *)
(* extension's content script (or its manual-payment wizard), its          *)
(* background worker, and the HTTP surface of the backend.                 *)
(*                                                                         *)
(* The client keeps a HANDLE (the banner it shows, numbered) and three     *)
(* kinds of messages are under way at any moment: intents, status replies, *)
(* and TROIA_PAID notes to the storefront.  Every one of them carries the  *)
(* handle or the order it was made for and may arrive after the page has   *)
(* moved on.                                                               *)
(*                                                                         *)
(* What happens to a charged order inside the backend is Settlement's      *)
(* matter; here it is the promise of public-status.ts: pending,            *)
(* processing, then completed or review, or failed when nothing was        *)
(* charged.                                                                *)
(***************************************************************************)
EXTENDS BankDesk

CONSTANTS
  Shoppers,    \* who checks out: a client, the methods she picks from, the
               \* order references she gets
  MaxHandles,  \* bound: banners shown, or wizard attempts
  MaxReplies,  \* bound: status requests under way (timeout over poll interval)
  PendingPolls, \* PENDING_MAX_POLLS, scaled down
  ConfirmPolls, \* CONFIRM_MAX_POLLS, scaled down
  MaxIntents,  \* accepted orders per session
  MaxMishaps   \* bound: lost replies, timeouts, worker deaths, restarts

Methods == {"card", "bank_transfer"}

ASSUME CheckoutAssumption ==
  /\ Shoppers \subseteq [at : {"store", "wizard"}, pays : SUBSET Methods,
                     refs : SUBSET Orders]
  /\ {MaxHandles, MaxReplies, PendingPolls, ConfirmPolls, MaxIntents, MaxMishaps} \subseteq Nat

\* statusCopy: the statuses that end the polling; and all of them.
Terminal == {"completed", "failed", "review"}
Statuses == {"none", "pending", "processing"} \cup Terminal

VARIABLES
  surface,   \* the client of this behaviour
  pays,      \* the payment methods its shopper picks from
  fresh,     \* order references not minted yet
  shop,      \* storefront: the order reference, whether its pay step shows, cart
  placed,    \* storefront: how often each order is under My Orders
  retired,   \* orders replaced by a fresh one on TROIA_RETRY
  ui,        \* the client's page: handle, order, what it offers
  timer,     \* the poll interval, if any
  calls,     \* TROIA_INTENT messages under way
  replies,   \* TROIA_STATUS replies under way
  notes,     \* TROIA_PAID notes under way, per order
  seen,      \* orders whose bank instructions the shopper was shown
  stored,    \* wizard: the order kept in localStorage
  forms,     \* hosted card forms open in a tab
  formTab,   \* background: the form it remembers opening for this tab
  sess,      \* the session token held by the background, and its budget
  ord,       \* the backend's order record
  sales,     \* provider: "none", "charged" or "declined" per order (external)
  crossed,   \* a message of one handle stopped the polling of another
  mishaps    \* how much of MaxMishaps is used up

clientVars == <<surface, pays, shop, fresh, placed, retired, ui, timer, notes, seen, stored>>
wireVars == <<calls, replies, forms, formTab, sess>>
vars == <<clientVars, wireVars, ord, sales, crossed, mishaps, bankVars>>

NoUi == [h |-> 0, o |-> NoOrder, at |-> "none", uri |-> NoOrder, retrying |-> FALSE,
         active |-> NoOrder]
NoTimer == [h |-> 0, o |-> NoOrder, saw |-> FALSE, n |-> 0]
NoRecord == [st |-> "none", m |-> "card", tok |-> FALSE, review |-> FALSE]

\* A session token just minted, with its whole budget.
NewSession == [valid |-> TRUE, used |-> 0]

Init ==
  /\ \E s \in Shoppers : surface = s.at /\ pays = s.pays /\ fresh = s.refs
  /\ shop = [memo |-> NoOrder, shown |-> FALSE, cart |-> FALSE]
  /\ placed = [o \in Orders |-> 0]
  /\ retired = {}
  /\ ui = NoUi
  /\ timer = NoTimer
  /\ calls = {}
  /\ replies = {}
  /\ notes = [o \in Orders |-> 0]
  /\ seen = {}
  /\ stored = NoOrder
  /\ forms = {}
  /\ formTab = NoOrder
  /\ sess = NewSession
  /\ ord = [o \in Orders |-> NoRecord]
  /\ sales = [o \in Orders |-> "none"]
  /\ crossed = FALSE
  /\ mishaps = 0
  /\ BankInit

Mishap == mishaps < MaxMishaps /\ mishaps' = mishaps + 1

-----------------------------------------------------------------------------
(* The storefront.                                                         *)

\* A reference never used before.
Fresh == CHOOSE o \in fresh : TRUE

\* The payment request the page carries.
Uri == IF shop.shown THEN shop.memo ELSE NoOrder

FillCart ==
  /\ surface = "store"
  /\ ~shop.cart
  /\ fresh # {}
  /\ shop' = [shop EXCEPT !.cart = TRUE]
  /\ UNCHANGED <<surface, pays, fresh, placed, retired, ui, timer, notes, seen, stored,
                 wireVars, ord, sales, crossed, mishaps, bankVars>>

\* The Checkout component mounts and mints an order reference.
OpenCheckout ==
  /\ shop.cart
  /\ shop.memo = NoOrder
  /\ fresh # {}
  /\ shop' = [shop EXCEPT !.memo = Fresh, !.shown = TRUE]
  /\ fresh' = fresh \ {Fresh}
  /\ UNCHANGED <<surface, pays, placed, retired, ui, timer, notes, seen, stored,
                 wireVars, ord, sales, crossed, mishaps, bankVars>>

\* To another step of the checkout and back, or back to the shop.  The observer's
\* scan of the last change has run by the time the shopper clicks again.
LeavePayStep ==
  /\ shop.memo # NoOrder
  /\ ui.uri = Uri
  /\ shop' \in {[shop EXCEPT !.shown = ~@],
                [shop EXCEPT !.memo = NoOrder, !.shown = FALSE]}
  /\ UNCHANGED <<surface, pays, fresh, placed, retired, ui, timer, notes, seen, stored,
                 wireVars, ord, sales, crossed, mishaps, bankVars>>

\* TROIA_PAID: whatever is in the cart becomes a paid order under that id.
NoteArrives(o) ==
  /\ notes[o] > 0
  /\ notes' = [notes EXCEPT ![o] = @ - 1]
  /\ IF shop.cart
     THEN /\ placed' = [placed EXCEPT ![o] = @ + 1]
          /\ shop' = [memo |-> NoOrder, shown |-> FALSE, cart |-> FALSE]
     ELSE UNCHANGED <<placed, shop>>
  /\ UNCHANGED <<surface, pays, fresh, retired, ui, timer, seen, stored,
                 wireVars, ord, sales, crossed, mishaps, bankVars>>

-----------------------------------------------------------------------------
(* The content script: scan, pay, requestRetry, the banner's buttons.      *)

Intent(h, o, m) == [h |-> h, o |-> o, m |-> m, st |-> "sent"]

\* scan: the request on the page changed; the old banner goes, polling stops, and
\* a fresh order that answers a retry is paid at once.
Scan ==
  /\ surface = "store"
  /\ ui.uri # Uri
  /\ Uri = NoOrder \/ ui.h < MaxHandles
  /\ timer' = NoTimer
  /\ IF Uri = NoOrder
     THEN /\ ui' = [NoUi EXCEPT !.h = ui.h]
          /\ UNCHANGED calls
     ELSE /\ ui' = [NoUi EXCEPT !.h = ui.h + 1, !.o = Uri, !.uri = Uri,
                                !.at = IF ui.retrying THEN "busy" ELSE "pay"]
          /\ calls' = calls \cup
               (IF ui.retrying
                THEN {Intent(ui.h + 1, Uri, m) : m \in {ord[ui.o].m}} ELSE {})
  /\ UNCHANGED <<surface, pays, shop, fresh, placed, retired, notes, seen, stored,
                 replies, forms, formTab, sess, ord, sales, crossed, mishaps, bankVars>>

ClickPay(m) ==
  /\ surface = "store"
  /\ ui.at = "pay"
  /\ ui' = [ui EXCEPT !.at = "busy"]
  /\ calls' = calls \cup {Intent(ui.h, ui.o, m)}
  /\ UNCHANGED <<surface, pays, shop, fresh, placed, retired, timer, notes, seen, stored,
                 replies, forms, formTab, sess, ord, sales, crossed, mishaps, bankVars>>

\* TROIA_RETRY: the storefront mints a fresh reference if it still shows this one.
ClickRetry ==
  /\ surface = "store"
  /\ ui.at = "retry"
  /\ ~ui.retrying
  /\ ui' = [ui EXCEPT !.at = "busy", !.retrying = TRUE]
  /\ IF shop.memo = ui.o /\ fresh # {}
     THEN /\ shop' = [shop EXCEPT !.memo = Fresh]
          /\ fresh' = fresh \ {Fresh}
          /\ retired' = retired \cup {ui.o}
     ELSE UNCHANGED <<shop, fresh, retired>>
  /\ UNCHANGED <<surface, pays, placed, timer, notes, seen, stored,
                 wireVars, ord, sales, crossed, mishaps, bankVars>>

\* The safety net: no fresh order appeared.
RetryTimesOut ==
  /\ ui.retrying
  /\ ui' = [ui EXCEPT !.retrying = FALSE, !.at = "retry"]
  /\ UNCHANGED <<surface, pays, shop, fresh, placed, retired, timer, notes, seen, stored,
                 wireVars, ord, sales, crossed, mishaps, bankVars>>

CloseBanner ==
  /\ surface = "store"
  /\ ui.at # "none"
  /\ ui' = [NoUi EXCEPT !.h = ui.h, !.uri = ui.uri]
  /\ timer' = NoTimer
  /\ UNCHANGED <<surface, pays, shop, fresh, placed, retired, notes, seen, stored,
                 wireVars, ord, sales, crossed, mishaps, bankVars>>

-----------------------------------------------------------------------------
(* The manual-payment wizard.                                              *)

\* "Continue", then "pay": a bank attempt keeps its order id, a card attempt is a
\* new order every time.
WizardPay(m) ==
  /\ surface = "wizard"
  /\ ui.at = "none" \/ (ui.at = "pay" /\ (ui.o = NoOrder \/ m = "bank_transfer"))
  /\ ui.h < MaxHandles
  /\ ui.o # NoOrder \/ fresh # {}
  /\ LET o == IF ui.o # NoOrder THEN ui.o ELSE Fresh IN
       /\ fresh' = fresh \ {o}
       /\ ui' = [ui EXCEPT !.h = @ + 1, !.at = "busy",
                           !.o = IF m = "bank_transfer" THEN o ELSE NoOrder]
       /\ calls' = calls \cup {Intent(ui.h + 1, o, m)}
  /\ UNCHANGED <<surface, pays, shop, placed, retired, timer, notes, seen, stored,
                 replies, forms, formTab, sess, ord, sales, crossed, mishaps, bankVars>>

\* Mutant: "again" forgets a bank order that is still open.
AgainForgets ==
  /\ surface = "wizard"
  /\ ui.at \in {"info", "gaveUp"}
  /\ ui' = [NoUi EXCEPT !.h = ui.h]
  /\ timer' = NoTimer
  /\ UNCHANGED <<surface, pays, shop, fresh, placed, retired, notes, seen, stored,
                 wireVars, ord, sales, crossed, mishaps, bankVars>>

\* "Again": an open bank order is polled again, anything else starts afresh.
WizardAgain ==
  /\ surface = "wizard"
  /\ ui.at \in {"info", "gaveUp"}
  /\ IF ui.active # NoOrder
     THEN /\ ui' = [ui EXCEPT !.at = "polling"]
          /\ timer' = [NoTimer EXCEPT !.h = ui.h, !.o = ui.active]
     ELSE /\ ui' = [NoUi EXCEPT !.h = ui.h]
          /\ timer' = NoTimer
  /\ UNCHANGED <<surface, pays, shop, fresh, placed, retired, notes, seen, stored,
                 wireVars, ord, sales, crossed, mishaps, bankVars>>

\* The wizard's page is reloaded: messages under way find nobody; a stored bank
\* order is resumed.
WizardReload ==
  /\ surface = "wizard"
  /\ ui.h < MaxHandles
  /\ ui.at # "none"
  /\ replies' = {}
  /\ IF stored # NoOrder
     THEN /\ ui' = [NoUi EXCEPT !.h = ui.h + 1, !.o = stored, !.active = stored,
                                !.at = "polling"]
          /\ timer' = [NoTimer EXCEPT !.h = ui.h + 1, !.o = stored]
          /\ seen' = seen \cup {stored}
     ELSE /\ ui' = [NoUi EXCEPT !.h = ui.h + 1]
          /\ timer' = NoTimer
          /\ UNCHANGED seen
  /\ UNCHANGED <<surface, pays, shop, fresh, placed, retired, notes, stored, calls, forms,
                 formTab, sess, ord, sales, crossed, mishaps, bankVars>>

-----------------------------------------------------------------------------
(* The answer to an intent, at the client.                                 *)

Current(h) == h = ui.h /\ ui.at # "none"

\* startPolling: the interval is replaced, whoever owned it.
Succeeded(c) ==
  /\ timer' = IF surface = "store" \/ Current(c.h)
              THEN [NoTimer EXCEPT !.h = c.h, !.o = c.o] ELSE timer
  /\ crossed' = (crossed \/ (~Current(c.h) /\ timer.h # 0 /\ surface = "store"))
  /\ ui' = IF Current(c.h)
           THEN [ui EXCEPT !.at = "polling",
                           !.active = IF c.m = "bank_transfer" THEN c.o ELSE NoOrder]
           ELSE ui
  /\ IF c.m = "bank_transfer" /\ Current(c.h)
     THEN /\ seen' = seen \cup {c.o}
          /\ stored' = IF surface = "wizard" THEN c.o ELSE stored
     ELSE UNCHANGED <<seen, stored>>

\* A clean refusal: the button is offered again; the wizard drops the order id
\* only for the refusals that prove no order was started.
FailedWith(c, error) ==
  /\ ui' = IF ~Current(c.h) THEN ui
           ELSE [ui EXCEPT !.at = "pay",
                           !.o = IF surface = "wizard" /\ error = "clean" THEN NoOrder ELSE @]
  /\ UNCHANGED <<timer, crossed, seen, stored>>

Drop(c) == calls' = calls \ {c}
Now(c, st) == calls' = (calls \ {c}) \cup {[c EXCEPT !.st = st]}

-----------------------------------------------------------------------------
(* The background worker: postIntent, the hosted form's tab.               *)

\* A 401: the session is renewed once.
Reauthorize(c) ==
  /\ c.st \in {"sent", "resent"}
  /\ ~sess.valid
  /\ IF c.st = "sent"
     THEN /\ sess' = NewSession
          /\ Now(c, "resent")
          /\ UNCHANGED <<ui, timer, crossed, seen, stored>>
     ELSE /\ Drop(c)
          /\ FailedWith(c, "clean")
          /\ UNCHANGED sess
  /\ UNCHANGED <<surface, pays, shop, fresh, placed, retired, notes, replies, forms, formTab,
                 ord, sales, mishaps, bankVars>>

\* The reply carries a form: the tab remembered for this storefront is closed ...
CloseStaleForm(c) ==
  /\ c.st = "form"
  /\ forms' = forms \ {formTab}
  /\ formTab' = NoOrder
  /\ Now(c, "opening")
  /\ UNCHANGED <<clientVars, replies, sess, ord, sales, crossed, mishaps, bankVars>>

\* ... the new tab opens, or does not, and the client is told.
OpenForm(c) ==
  /\ c.st = "opening"
  /\ Drop(c)
  /\ \/ /\ forms' = forms \cup {c.o}
        /\ formTab' = c.o
        /\ Succeeded(c)
        /\ UNCHANGED mishaps
     \/ /\ Mishap
        /\ FailedWith(c, "other")
        /\ UNCHANGED <<forms, formTab>>
  /\ UNCHANGED <<surface, pays, shop, fresh, placed, retired, notes, replies, sess, ord,
                 sales, bankVars>>

\* Any other answer goes straight to the client.
TellClient(c) ==
  /\ c.st \in {"bank", "clean", "other"}
  /\ Drop(c)
  /\ IF c.st = "bank" THEN Succeeded(c) ELSE FailedWith(c, c.st)
  /\ UNCHANGED <<surface, pays, shop, fresh, placed, retired, notes, replies, forms, formTab,
                 sess, ord, sales, mishaps, bankVars>>

\* The request's budget runs out: the client is told, the backend may still be
\* working on it (handle 0: nobody waits for the answer).
IntentTimesOut(c) ==
  /\ c.st \in {"sent", "resent", "creating"}
  /\ c.h # 0
  /\ Mishap
  /\ calls' = (calls \ {c}) \cup {[c EXCEPT !.h = 0]}
  /\ FailedWith(c, "other")
  /\ UNCHANGED <<surface, pays, shop, fresh, placed, retired, notes, replies, forms, formTab,
                 sess, ord, sales, bankVars>>

\* The browser stops the worker: its memory goes, every caller sees an error.
WorkerDies ==
  /\ Mishap
  /\ formTab' = NoOrder
  /\ sess' = [sess EXCEPT !.valid = FALSE]
  /\ replies' = {}
  /\ calls' = {[c EXCEPT !.h = 0] :
                 c \in {d \in calls : d.st \in {"sent", "resent", "creating"}}}
  /\ ui' = IF ui.at = "busy" /\ \E c \in calls : c.h = ui.h
           THEN [ui EXCEPT !.at = "pay"] ELSE ui
  /\ UNCHANGED <<surface, pays, shop, fresh, placed, retired, timer, notes, seen, stored,
                 forms, ord, sales, crossed, bankVars>>

-----------------------------------------------------------------------------
(* The backend: POST /intent, GET /status, and what drives an order.       *)

Unlocked(o) == creating[o] = "no"

\* An answer nobody waits for is dropped, and opens no form.
Answer(c, st) == IF c.h = 0 THEN Drop(c) ELSE Now(c, st)

Authorized(c) == c.st \in {"sent", "resent"} /\ sess.valid

\* SessionBudget.take.
BudgetLeft == sess.used < MaxIntents

\* handleIntent on a new order.
IntentNew(c) ==
  /\ Authorized(c)
  /\ ord[c.o].st = "none"
  /\ IF ~BudgetLeft
     THEN /\ Answer(c, "clean")
          /\ UNCHANGED <<ord, sess, bankVars>>
     ELSE /\ sess' = [sess EXCEPT !.used = @ + 1]
          /\ \/ /\ Answer(c, "clean")      \* snapshot, amount, pool or price
                /\ UNCHANGED <<ord, bankVars>>
             \/ /\ c.m = "card"
                /\ \/ /\ ord' = [ord EXCEPT ![c.o] =
                           [st |-> "pending", m |-> "card", tok |-> TRUE, review |-> FALSE]]
                      /\ Answer(c, "form")
                   \/ /\ ord' = [ord EXCEPT ![c.o].st = "failed"]
                      /\ Answer(c, "other")
                /\ UNCHANGED bankVars
             \/ /\ c.m = "bank_transfer"
                /\ ord' = [ord EXCEPT ![c.o] =
                     [st |-> "pending", m |-> "bank_transfer", tok |-> FALSE, review |-> FALSE]]
                /\ CreateBegin(c.o)
                /\ Now(c, "creating")
  /\ UNCHANGED <<clientVars, replies, forms, formTab, sales, crossed, mishaps>>

\* handleIntent on an order that exists: the same form or the same instructions
\* again, or a refusal; nothing is started.
IntentAgain(c) ==
  LET r == ord[c.o]
      open == r.m = c.m /\ r.tok IN
  /\ Authorized(c)
  /\ r.st # "none"
  /\ Unlocked(c.o)
  /\ Answer(c, CASE open /\ c.m = "card" -> "form"
                 [] open /\ c.m # "card" /\ r.st = "pending" /\ ~r.review -> "bank"
                 [] OTHER -> "other")
  /\ UNCHANGED <<clientVars, replies, forms, formTab, sess, ord, sales, crossed, mishaps,
                 bankVars>>

\* initializeBankTransfer: the create left instructions.
Created(o) == desk[o].instr # 0

\* The create started by an intent has returned: its result is put and answered.
IntentCreated(c) ==
  LET done == Created(c.o) IN
  /\ c.st = "creating"
  /\ Unlocked(c.o)
  /\ ord' = [ord EXCEPT ![c.o].tok = done]
  /\ Answer(c, IF done THEN "bank" ELSE "other")
  /\ UNCHANGED <<clientVars, replies, forms, formTab, sess, sales, crossed, mishaps, bankVars>>

\* No intent is inside the order's lock.
Idle(o) == Unlocked(o) /\ \A c \in calls : ~(c.o = o /\ c.st = "creating")

\* The poll worker on a card order: the result of the hosted sale.
PollCard(o) ==
  /\ ord[o].st = "pending" /\ ord[o].m = "card"
  /\ sales[o] # "none"
  /\ ord' = [ord EXCEPT ![o].st = IF sales[o] = "charged" THEN "processing" ELSE "failed"]
  /\ UNCHANGED <<clientVars, wireVars, sales, crossed, mishaps, bankVars>>

\* The poll worker on a bank order: create again with the same key, take over
\* stored instructions, or observe the transfer.
PollBank(o) ==
  /\ ord[o].st = "pending" /\ ord[o].m = "bank_transfer"
  /\ Idle(o)
  /\ \/ ~ord[o].tok /\ CreateBegin(o) /\ UNCHANGED ord
     \/ /\ ~ord[o].tok /\ desk[o].instr # 0
        /\ ord' = [ord EXCEPT ![o].tok = TRUE]
        /\ UNCHANGED bankVars
     \/ /\ ord[o].tok
        /\ \E c \in 0 .. Len(transfers) :
             /\ Observed(o, c)
             /\ ord' = [ord EXCEPT
                  ![o].review = BankEvent(o, c).review,
                  ![o].st = IF BankEvent(o, c).event = "chargeOk" THEN "processing" ELSE @]
  /\ UNCHANGED <<clientVars, wireVars, sales, crossed, mishaps>>

\* The settlement of a charged order ends (module Settlement).
Settled(o) ==
  /\ ord[o].st = "processing"
  /\ \E st \in {"completed", "review"} : ord' = [ord EXCEPT ![o].st = st]
  /\ UNCHANGED <<clientVars, wireVars, sales, crossed, mishaps, bankVars>>

\* The backend restarts: locks and the session secret are gone.
BackendRestarts ==
  /\ Mishap
  /\ creating' = [o \in Orders |-> "no"]
  /\ sess' = [sess EXCEPT !.valid = FALSE]
  /\ calls' = (calls \ {c \in calls : c.st = "creating"}) \cup
              {[c EXCEPT !.st = "other"] : c \in {d \in calls : d.st = "creating" /\ d.h # 0}}
  /\ UNCHANGED <<clientVars, replies, forms, formTab, ord, sales, crossed,
                 desk, afloat, transfers, receipts, overdue, slips>>

\* GET /status: toPublicStatus, with the review override.
PublicStatus(o) == IF ord[o].review THEN "review" ELSE ord[o].st

-----------------------------------------------------------------------------
(* Polling: the tick of the interval, and the reply.                       *)

\* A tick finds its handle gone, or its budget used up, or asks.
Tick ==
  /\ timer.h # 0
  /\ IF surface = "store" /\ ~Current(timer.h)
     THEN timer' = NoTimer /\ UNCHANGED <<ui, replies>>
     ELSE IF timer.n >= (IF timer.saw THEN ConfirmPolls ELSE PendingPolls)
     THEN /\ timer' = NoTimer
          /\ ui' = [ui EXCEPT !.at = "gaveUp"]
          /\ UNCHANGED replies
     ELSE /\ Cardinality(replies) < MaxReplies
          /\ timer' = [timer EXCEPT !.n = @ + 1]
          /\ replies' = replies \cup
               {[h |-> timer.h, o |-> timer.o, n |-> timer.n, st |-> PublicStatus(timer.o)]}
          /\ UNCHANGED ui
  /\ UNCHANGED <<surface, pays, shop, fresh, placed, retired, notes, seen, stored, calls, forms,
                 formTab, sess, ord, sales, crossed, mishaps, bankVars>>

\* Mutant: a retry is offered on every terminal status but success.
OfferRetryAlways(r) == IF r.st \in {"failed", "review"} THEN "retry" ELSE "info"

\* What the page offers on a terminal status: a fresh attempt only after a clean
\* decline seen before any payment.
Offer(r) ==
  IF r.st = "failed" /\ ~(timer.h = r.h /\ timer.saw) /\ surface = "store"
  THEN "retry" ELSE "info"

\* Mutant: the storefront is told only of a payment whose processing was seen.
PaidIfSeen(r) == r.st = "completed" /\ timer.h = r.h /\ timer.saw

\* The storefront is told of the payment.
Paid(r) == r.st = "completed"

\* What the wizard keeps in localStorage once the status is known.
StillStored(r) == IF r.st \in {"completed", "failed"} /\ stored = r.o THEN NoOrder ELSE stored

StatusReply(r) ==
  LET end == r.st \in Terminal
      own == timer.h = r.h IN
  /\ replies' = replies \ {r}
  /\ timer' = IF end /\ (own \/ surface = "store") THEN NoTimer
              ELSE IF own /\ r.st = "processing" /\ ~timer.saw
              THEN [timer EXCEPT !.saw = TRUE, !.n = 0] ELSE timer
  /\ crossed' = (crossed \/ (end /\ ~own /\ timer.h # 0 /\ surface = "store"))
  /\ ui' = IF end /\ Current(r.h)
           THEN [ui EXCEPT !.at = Offer(r),
                           !.active = IF r.st = "review" THEN @ ELSE NoOrder]
           ELSE ui
  /\ stored' = StillStored(r)
  /\ notes' = IF Paid(r) /\ surface = "store" /\ notes[r.o] < MaxReplies
              THEN [notes EXCEPT ![r.o] = @ + 1] ELSE notes
  /\ UNCHANGED <<surface, pays, shop, fresh, placed, retired, seen, calls, forms, formTab, sess,
                 ord, sales, mishaps, bankVars>>

ReplyLost(r) ==
  /\ Mishap
  /\ replies' = replies \ {r}
  /\ UNCHANGED <<clientVars, calls, forms, formTab, sess, ord, sales, crossed, bankVars>>

-----------------------------------------------------------------------------
(* The shopper at the card form and at her bank (external), and the button *)
(* of the sandbox that stands in for her bank.                             *)

UseForm(o) ==
  /\ o \in forms
  /\ forms' = forms \ {o}
  /\ formTab' = IF formTab = o THEN NoOrder ELSE formTab
  /\ IF sales[o] = "none" /\ ord[o].st = "pending"
     THEN sales' \in {sales, [sales EXCEPT ![o] = "charged"], [sales EXCEPT ![o] = "declined"]}
     ELSE UNCHANGED sales
  /\ UNCHANGED <<clientVars, calls, replies, sess, ord, crossed, mishaps, bankVars>>

\* POST /sandbox/bank-transfer/:orderId/simulate, under the order's lock; the button
\* carries the capability that came with the instructions.
Simulate(o) ==
  /\ o \in seen
  /\ sess.valid /\ Idle(o)
  /\ ord[o].st = "pending" /\ ~ord[o].review /\ o \notin overdue
  /\ Simulated(o)
  /\ UNCHANGED <<clientVars, wireVars, ord, sales, crossed, mishaps>>

SendMoney(o) ==
  /\ o \in seen
  /\ desk[o].instr # 0
  /\ Funded(desk[o].instr)
  /\ UNCHANGED <<clientVars, wireVars, ord, sales, crossed, mishaps>>

BankWork(o) ==
  /\ ord[o].m = "bank_transfer"
  /\ QuoteAnswered(o) \/ InstructionsStored(o) \/ CreateThrows(o) \/ AnchorTakes(o)
       \/ (ord[o].st = "pending" /\ Overdue(o))
  /\ UNCHANGED <<clientVars, wireVars, ord, sales, crossed, mishaps>>

-----------------------------------------------------------------------------

Store == FillCart \/ OpenCheckout \/ LeavePayStep \/ Scan \/ ClickRetry \/ RetryTimesOut
           \/ CloseBanner \/ (\E m \in pays : ClickPay(m)) \/ (\E o \in Orders : NoteArrives(o))

Wizard == (\E m \in pays : WizardPay(m)) \/ WizardAgain \/ WizardReload

Worker == WorkerDies \/ \E c \in calls :
            \/ Reauthorize(c) \/ CloseStaleForm(c) \/ OpenForm(c) \/ TellClient(c)
            \/ IntentTimesOut(c)

Server == BackendRestarts
            \/ (\E c \in calls : IntentNew(c) \/ IntentAgain(c) \/ IntentCreated(c))
            \/ (\E o \in Orders : PollCard(o) \/ PollBank(o) \/ Settled(o))

Polling == Tick \/ \E r \in replies : StatusReply(r) \/ ReplyLost(r)

Outside == \E o \in Orders : UseForm(o) \/ SendMoney(o) \/ Simulate(o) \/ BankWork(o)

Next == Store \/ Wizard \/ Worker \/ Server \/ Polling \/ Outside

Spec == Init /\ [][Next]_vars

\* Intervals fire, replies and window messages arrive, the page is rescanned.
\* Nothing is assumed of the shopper, the provider or the anchor.
Fairness ==
  /\ WF_vars(Tick)
  /\ WF_vars(Scan)
  /\ WF_vars(\E r \in replies : StatusReply(r))
  /\ WF_vars(\E o \in Orders : NoteArrives(o))

FairSpec == Spec /\ Fairness

-----------------------------------------------------------------------------
(* Properties.                                                             *)

\* The shape of the client, the wire and the order records; an order record's
\* token is backed by stored instructions.
TypeOK ==
  /\ \E s \in Shoppers : surface = s.at /\ pays = s.pays /\ fresh \subseteq s.refs
  /\ ui.h \in 0 .. MaxHandles
  /\ ui.at \in {"none", "pay", "busy", "polling", "retry", "info", "gaveUp"}
  /\ timer.h \in 0 .. MaxHandles /\ timer.n \in 0 .. (PendingPolls + ConfirmPolls)
  /\ (forms \cup seen \cup retired) \cap fresh = {}
  /\ \A o \in Orders :
       /\ ord[o].st \in Statuses
       /\ ord[o].m = "bank_transfer" /\ ord[o].tok => desk[o].instr # 0
  /\ BankTypeOK

\* What the storefront was told is true, whatever replies, forms and intents are still
\* under way.  An order it replaced on TROIA_RETRY was never charged and never will be
\* (content.ts: a retry is offered only on a clean decline); an order under My Orders was
\* paid (TROIA_PAID is posted on 'completed' only, for the order the reply was about).
StorefrontIsRight ==
  /\ \A o \in retired : /\ ord[o].st = "failed"
                        /\ sales[o] # "charged"
                        /\ \A t \in CarryingQuote(o) : transfers[t].st = "waiting"
  /\ \A o \in Orders : placed[o] > 0 => ord[o].st = "completed"

\* No more bank orders are paid out than credits reached the collection account
\* in time, even if the anchor names one credit for two orders.  (With TypeOK.)
CreditsCoverPayouts ==
  /\ TypeOK
  /\ Cardinality({o \in Orders : ord[o].m = "bank_transfer"
                                   /\ ord[o].st \in {"processing", "completed"}})
       <= Cardinality({t \in DOMAIN transfers :
                         transfers[t].st = "completed" /\ ~transfers[t].late})

\* The wizard never shows a second set of bank instructions while the first can
\* still be paid: not after a lost answer, a reload or "again".
OneOpenTransfer ==
  surface = "wizard" =>
    Cardinality({o \in seen : ord[o].st = "pending" /\ o \notin overdue}) <= 1

\* The banner of a completed order polls or has shown the end, and My Orders lacks it.
Stranded ==
  /\ surface = "store" /\ ui.at \in {"polling", "info"}
  /\ ord[ui.o].st = "completed" /\ placed[ui.o] = 0
  /\ ~crossed

\* An order that completes while its banner polls ends up under My Orders, unless
\* the shopper left it, the poll budget ran out, or a message of an earlier banner
\* stopped the interval: the page is never stranded for good.
CompletedIsPlaced == []<>~Stranded
=============================================================================
