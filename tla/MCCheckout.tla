----------------------------- MODULE MCCheckout -----------------------------
(* The checkout with the bounds of its runs given in the .cfg files.       *)
EXTENDS Checkout

\* The storefront's shoppers: cards with a retry, or one bank order.
MCStorefront ==
  {[at |-> "store", pays |-> {"card"}, refs |-> Orders],
   [at |-> "store", pays |-> {"bank_transfer"}, refs |-> {CHOOSE o \in Orders : TRUE}]}

\* Beside them, both methods in the wizard.
MCShoppers == MCStorefront \cup {[at |-> "wizard", pays |-> Methods, refs |-> Orders]}
=============================================================================
