--------------------------- MODULE TroyPoolProofs ---------------------------
(***************************************************************************)
(* Theorems about the TroyPool contract, for every set of addresses,       *)
(* orders and amounts.                                                     *)
(*                                                                         *)
(* The inductive invariant is the conjunction of the four properties: the  *)
(* replay guard names exactly the orders with an event (PaidOnce), so a    *)
(* call that passes the guard pays an order that has none; a call that     *)
(* answers InsufficientBalance has passed the guard too; and a call that   *)
(* passes the balance guard leaves the pool at zero or more.               *)
(***************************************************************************)
EXTENDS TroyPool, SumsProofs

PoolInv == TypeOK /\ PaidOnce /\ RefundSignalSound /\ NeverOverdrawn

-----------------------------------------------------------------------------
(* What an answer of pay() says about the call.                            *)

\* A successful call has passed every guard.
LEMMA OkPassedGuards ==
  ASSUME NEW signer, NEW tx, NEW amount \in Int, NEW merchant,
         wallet[Pool] \in Int,
         ResultOf(signer, tx, amount, merchant) = "Ok"
  PROVE  /\ signer = operator /\ ~paused /\ amount > 0
         /\ tx \notin processed /\ wallet[Pool] >= amount /\ merchant \in trusts
BY DEF ResultOf, PayResult

\* A call refused for want of funds has passed the replay guard.
LEMMA RefusedPassedReplay ==
  ASSUME NEW signer, NEW tx, NEW amount \in Int, NEW merchant,
         ResultOf(signer, tx, amount, merchant) = "InsufficientBalance"
  PROVE  tx \notin processed
BY DEF ResultOf, PayResult

\* pay() answers with one of the listed results.
LEMMA ResultListed ==
  ASSUME NEW signer, NEW tx, NEW amount \in Int, NEW merchant,
         wallet[Pool] \in Int
  PROVE  ResultOf(signer, tx, amount, merchant) \in PayResults
BY DEF ResultOf, PayResult, PayResults

\* The transfer moves integers between known addresses, and debits the pool by
\* at most the amount.
LEMMA TransferTyped ==
  ASSUME NEW merchant \in Holders, NEW amount \in Int, amount > 0,
         wallet \in [Holders -> Int]
  PROVE  /\ Transferred(merchant, amount) \in [Holders -> Int]
         /\ Transferred(merchant, amount)[Pool] >= wallet[Pool] - amount
<1>1. Pool \in Holders
  BY DEF Holders
<1>2. CASE merchant = Pool
  BY <1>1, <1>2 DEF Transferred
<1>3. CASE merchant # Pool
  BY <1>1, <1>3 DEF Transferred
<1>. QED  BY <1>2, <1>3

-----------------------------------------------------------------------------
(* The invariant.                                                          *)

\* A freshly constructed contract satisfies the invariant.
LEMMA InitPoolInv == Init => PoolInv
<1>. SUFFICES ASSUME Init PROVE PoolInv
  OBVIOUS
<1>1. TypeOK
  <2>1. <<>> \in Seq([tx : TxIds, to : Holders, amount : Amounts])
    OBVIOUS
  <2>2. wallet \in [Holders -> Int]
    BY DEF Init
  <2>3. reply \in [tx : TxIds \cup {"none"}, result : PayResults \cup {"none"}]
    BY DEF Init
  <2>4. funded \in 0 .. MaxFunding
    BY PoolAssumption DEF Init
  <2>5. /\ admin \in Accounts /\ operator \in Accounts /\ paused \in BOOLEAN
        /\ processed \subseteq TxIds /\ trusts \subseteq Holders
        /\ code \in {"troy_pool", "other"}
    BY DEF Init
  <2>6. emitted \in Seq([tx : TxIds, to : Holders, amount : Amounts])
    BY <2>1 DEF Init
  <2>. QED  BY <2>2, <2>3, <2>4, <2>5, <2>6 DEF TypeOK
<1>2. PaidOnce
  BY DEF Init, PaidOnce
<1>3. RefundSignalSound
  BY DEF Init, RefundSignalSound
<1>4. NeverOverdrawn
  BY DEF Init, NeverOverdrawn, Holders
<1>. QED  BY <1>1, <1>2, <1>3, <1>4 DEF PoolInv

\* One event more for an order that had none.
LEMMA PayOkKeeps ==
  ASSUME PoolInv,
         NEW signer \in Accounts, NEW tx \in TxIds, NEW amount \in Amounts,
         NEW merchant \in Holders,
         PayOk(signer, tx, amount, merchant)
  PROVE  PoolInv'
<1>. DEFINE E == [tx : TxIds, to : Holders, amount : Amounts]
            e == [tx |-> tx, to |-> merchant, amount |-> amount]
<1>1. /\ paused \in BOOLEAN /\ wallet \in [Holders -> Int] /\ emitted \in Seq(E)
      /\ amount \in Int /\ wallet[Pool] \in Int
  BY PoolAssumption DEF PoolInv, TypeOK, Holders
<1>2. amount > 0 /\ tx \notin processed /\ wallet[Pool] >= amount
  BY <1>1, OkPassedGuards DEF PayOk
<1>3. TypeOK'
  <2>1. wallet' \in [Holders -> Int]
    BY <1>1, <1>2, TransferTyped DEF PayOk
  <2>2. emitted' \in Seq(E)
    BY <1>1 DEF PayOk
  <2>3. processed' \subseteq TxIds
    BY DEF PayOk, PoolInv, TypeOK
  <2>4. reply' \in [tx : TxIds \cup {"none"}, result : PayResults \cup {"none"}]
    BY DEF PayOk, PayResults
  <2>. QED  BY <2>1, <2>2, <2>3, <2>4 DEF PayOk, PoolInv, TypeOK
<1>4. PaidOnce'
  <2>1. /\ emitted' = Append(emitted, e)
        /\ processed' = processed \cup {tx}
    BY DEF PayOk
  <2>2. /\ DOMAIN emitted = 1 .. Len(emitted) /\ Len(emitted) \in Nat
        /\ DOMAIN emitted' = 1 .. (Len(emitted) + 1)
        /\ \A i \in DOMAIN emitted : emitted'[i] = emitted[i]
        /\ emitted'[Len(emitted) + 1] = e
    BY <1>1, <2>1
  <2>3. \A i \in DOMAIN emitted : emitted[i].tx \in processed
    BY DEF PoolInv, PaidOnce
  <2>4. \A i, j \in DOMAIN emitted' : emitted'[i].tx = emitted'[j].tx => i = j
    <3>. SUFFICES ASSUME NEW i \in DOMAIN emitted', NEW j \in DOMAIN emitted',
                         emitted'[i].tx = emitted'[j].tx
                  PROVE  i = j
      OBVIOUS
    <3>1. CASE i \in DOMAIN emitted /\ j \in DOMAIN emitted
      BY <2>2, <3>1 DEF PoolInv, PaidOnce
    <3>2. CASE i \in DOMAIN emitted /\ j = Len(emitted) + 1
      BY <1>2, <2>2, <2>3, <3>2
    <3>3. CASE i = Len(emitted) + 1 /\ j \in DOMAIN emitted
      BY <1>2, <2>2, <2>3, <3>3
    <3>4. CASE i = Len(emitted) + 1 /\ j = Len(emitted) + 1
      BY <3>4
    <3>. QED  BY <2>2, <3>1, <3>2, <3>3, <3>4
  <2>5. processed' = {emitted'[i].tx : i \in DOMAIN emitted'}
    <3>1. {emitted'[i].tx : i \in DOMAIN emitted'}
            = {emitted[i].tx : i \in DOMAIN emitted} \cup {tx}
      BY <2>2
    <3>. QED  BY <2>1, <3>1 DEF PoolInv, PaidOnce
  <2>. QED  BY <2>4, <2>5 DEF PaidOnce
<1>5. RefundSignalSound'
  BY DEF PayOk, RefundSignalSound
<1>6. NeverOverdrawn'
  <2>1. /\ Transferred(merchant, amount)[Pool] >= wallet[Pool] - amount
        /\ Transferred(merchant, amount)[Pool] \in Int
    BY <1>1, <1>2, TransferTyped DEF Holders
  <2>2. wallet' = Transferred(merchant, amount)
    BY DEF PayOk
  <2>. QED  BY <1>1, <1>2, <2>1, <2>2 DEF NeverOverdrawn
<1>. QED  BY <1>3, <1>4, <1>5, <1>6 DEF PoolInv

\* A refused call changes nothing but the reply.
LEMMA PayErrKeeps ==
  ASSUME PoolInv,
         NEW signer \in Accounts, NEW tx \in TxIds, NEW amount \in Amounts,
         NEW merchant \in Holders,
         PayErr(signer, tx, amount, merchant)
  PROVE  PoolInv'
<1>1. paused \in BOOLEAN /\ amount \in Int /\ wallet[Pool] \in Int
  BY PoolAssumption DEF PoolInv, TypeOK, Holders
<1>2. ResultOf(signer, tx, amount, merchant) \in PayResults
  BY <1>1, ResultListed
<1>3. reply' = [tx |-> tx, result |-> ResultOf(signer, tx, amount, merchant)]
  BY DEF PayErr
<1>4. TypeOK'
  BY <1>2, <1>3 DEF PayErr, PoolInv, TypeOK
<1>5. PaidOnce'
  BY DEF PayErr, PoolInv, PaidOnce
<1>6. RefundSignalSound'
  <2>. SUFFICES ASSUME ResultOf(signer, tx, amount, merchant) = "InsufficientBalance"
                PROVE  tx \notin processed
    BY <1>3 DEF PayErr, RefundSignalSound
  <2>. QED  BY <1>1, RefusedPassedReplay
<1>7. NeverOverdrawn'
  BY DEF PayErr, PoolInv, NeverOverdrawn
<1>. QED  BY <1>4, <1>5, <1>6, <1>7 DEF PoolInv

\* A step that leaves payments, balances and the last reply alone keeps what
\* is said about them.
LEMMA MoneyUntouched ==
  ASSUME PoolInv, UNCHANGED <<processed, wallet, emitted, reply>>
  PROVE  PaidOnce' /\ RefundSignalSound' /\ NeverOverdrawn'
BY DEF PoolInv, PaidOnce, RefundSignalSound, NeverOverdrawn

\* Every entry point, and every step of the token, keeps the invariant.
LEMMA NextPoolInv == PoolInv /\ [Next]_vars => PoolInv'
<1>. SUFFICES ASSUME PoolInv, [Next]_vars PROVE PoolInv'
  OBVIOUS
<1>. USE DEF PoolInv
<1>1. CASE Pay
  BY <1>1, PayOkKeeps, PayErrKeeps DEF Pay
<1>2. ASSUME NEW signer \in Accounts, Pause(signer) PROVE PoolInv'
  <2>1. TypeOK'
    BY <1>2 DEF Pause, TypeOK
  <2>. QED  BY <1>2, <2>1, MoneyUntouched DEF Pause
<1>3. ASSUME NEW signer \in Accounts, Unpause(signer) PROVE PoolInv'
  <2>1. TypeOK'
    BY <1>3 DEF Unpause, TypeOK
  <2>. QED  BY <1>3, <2>1, MoneyUntouched DEF Unpause
<1>4. ASSUME NEW signer \in Accounts, Upgrade(signer) PROVE PoolInv'
  <2>1. TypeOK'
    BY <1>4 DEF Upgrade, TypeOK
  <2>. QED  BY <1>4, <2>1, MoneyUntouched DEF Upgrade
<1>5. ASSUME NEW signer \in Accounts, NEW new \in Accounts, SetOperator(signer, new)
      PROVE  PoolInv'
  <2>1. TypeOK'
    BY <1>5 DEF SetOperator, TypeOK
  <2>. QED  BY <1>5, <2>1, MoneyUntouched DEF SetOperator
<1>6. ASSUME NEW signer \in Accounts, NEW new \in Accounts, SetAdmin(signer, new)
      PROVE  PoolInv'
  <2>1. TypeOK'
    BY <1>6 DEF SetAdmin, TypeOK
  <2>. QED  BY <1>6, <2>1, MoneyUntouched DEF SetAdmin
<1>7. CASE Fund
  <2>1. funded' \in 0 .. MaxFunding /\ wallet' \in [Holders -> Int] /\ wallet'[Pool] >= 0
    BY <1>7, PoolAssumption DEF Fund, TypeOK, NeverOverdrawn, Holders
  <2>. QED  BY <1>7, <2>1 DEF Fund, TypeOK, PaidOnce, RefundSignalSound, NeverOverdrawn
<1>8. ASSUME NEW a \in Accounts, SetTrust(a) PROVE PoolInv'
  <2>1. TypeOK'
    BY <1>8 DEF SetTrust, TypeOK, Holders
  <2>. QED  BY <1>8, <2>1, MoneyUntouched DEF SetTrust
<1>9. CASE UNCHANGED vars
  <2>1. TypeOK'
    BY <1>9 DEF vars, TypeOK
  <2>. QED  BY <1>9, <2>1, MoneyUntouched DEF vars
<1>. QED
  BY <1>1, <1>2, <1>3, <1>4, <1>5, <1>6, <1>7, <1>8, <1>9 DEF Next

\* The invariant holds in every state of the contract's life: the fact the
\* properties below are read off.
THEOREM PoolInvariance == Spec => []PoolInv
  BY InitPoolInv, NextPoolInv, PTL DEF Spec

-----------------------------------------------------------------------------
(* The properties.                                                         *)

\* The contract's storage, its events and its replies keep their shape.
THEOREM PoolTypeCorrect == Spec => []TypeOK
  BY PoolInvariance, PTL DEF PoolInv

\* pay() emits one PaymentMade per tx_id, ever, and the replay guard is set for
\* exactly the orders that were paid.
THEOREM EveryOrderPaidOnce == Spec => []PaidOnce
  BY PoolInvariance, PTL DEF PoolInv

\* pay() never answers InsufficientBalance for an order it has paid: the answer
\* on which the backend refunds the customer is sound.
THEOREM RefundSignalAlwaysSound == Spec => []RefundSignalSound
  BY PoolInvariance, PTL DEF PoolInv

\* pay() never takes the pool's USDC balance below zero.
THEOREM PoolNeverOverdrawn == Spec => []NeverOverdrawn
  BY PoolInvariance, PTL DEF PoolInv

-----------------------------------------------------------------------------
(* The events account for the money.                                       *)

\* The events are finitely many, each with an integer amount.
LEMMA EventsFinite ==
  ASSUME TypeOK
  PROVE  /\ DOMAIN emitted = 1 .. Len(emitted) /\ Len(emitted) \in Nat
         /\ IsFiniteSet(DOMAIN emitted)
         /\ \A i \in DOMAIN emitted : emitted[i].amount \in Int
<1>. DEFINE E == [tx : TxIds, to : Holders, amount : Amounts]
<1>1. emitted \in Seq(E)
  BY DEF TypeOK
<1>2. \A e \in E : e.amount \in Int
  BY PoolAssumption
<1>. HIDE DEF E
<1>3. DOMAIN emitted = 1 .. Len(emitted) /\ Len(emitted) \in Nat
  BY <1>1
<1>4. \A i \in DOMAIN emitted : emitted[i] \in E
  BY <1>1
<1>5. IsFiniteSet(1 .. Len(emitted))
  BY <1>3, FS_Interval
<1>6. IsFiniteSet(DOMAIN emitted)
  BY <1>3, <1>5
<1>7. \A i \in DOMAIN emitted : emitted[i].amount \in Int
  BY <1>2, <1>4
<1>. QED  BY <1>3, <1>6, <1>7

\* A successful call adds one event and takes its amount from the pool, unless the pool
\* pays itself.
LEMMA PayOkConserves ==
  ASSUME PoolInv, PoolConserved,
         NEW signer \in Accounts, NEW tx \in TxIds, NEW amount \in Amounts,
         NEW merchant \in Holders,
         PayOk(signer, tx, amount, merchant)
  PROVE  PoolConserved'
<1>. DEFINE S == DOMAIN emitted
            y == Len(emitted) + 1
            left == IF merchant = Pool THEN 0 ELSE amount
<1>1. wallet \in [Holders -> Int] /\ Pool \in Holders /\ funded \in Int /\ amount \in Int
  BY PoolAssumption DEF PoolInv, TypeOK, Holders
<1>2. /\ S = 1 .. Len(emitted) /\ Len(emitted) \in Nat /\ IsFiniteSet(S) /\ y \notin S
      /\ \A i \in S : emitted[i].amount \in Int
  BY EventsFinite DEF PoolInv
<1>3. /\ DOMAIN emitted' = S \cup {y}
      /\ \A i \in S : emitted'[i] = emitted[i]
      /\ emitted'[y] = [tx |-> tx, to |-> merchant, amount |-> amount]
  <2>1. emitted \in Seq([tx : TxIds, to : Holders, amount : Amounts])
    BY DEF PoolInv, TypeOK
  <2>2. emitted' = Append(emitted, [tx |-> tx, to |-> merchant, amount |-> amount])
    BY DEF PayOk
  <2>. QED  BY <1>2, <2>1, <2>2
<1>. HIDE DEF S, y
<1>4. /\ \A i \in S : Outflow[i] \in Int /\ Outflow'[i] = Outflow[i]
      /\ Outflow'[y] = left
  <2>1. \A i \in S : Outflow[i] = IF emitted[i].to = Pool THEN 0 ELSE emitted[i].amount
    BY DEF Outflow, S
  <2>2. \A i \in S \cup {y} : Outflow'[i] = IF emitted'[i].to = Pool THEN 0 ELSE emitted'[i].amount
    BY <1>3 DEF Outflow
  <2>3. Outflow'[y] = left
    BY <1>3, <2>2
  <2>4. ASSUME NEW i \in S PROVE Outflow[i] \in Int /\ Outflow'[i] = Outflow[i]
    BY <1>2, <1>3, <2>1, <2>2
  <2>. QED  BY <2>3, <2>4
<1>5. SumOf(Outflow', S \cup {y}) = SumOf(Outflow', S) + left
  <2>. DEFINE w == Outflow'
  <2>1. \A i \in S \cup {y} : w[i] \in Int
    BY <1>1, <1>4
  <2>. HIDE DEF w
  <2>2. SumOf(w, S \cup {y}) = SumOf(w, S) + w[y]
    <3>1. IsFiniteSet(S) /\ y \notin S
      BY <1>2
    <3>. QED  BY <2>1, <3>1, SumAdd
  <2>. QED  BY <2>2, <1>4 DEF w
<1>6. SumOf(Outflow', S) = SumOf(Outflow, S) /\ SumOf(Outflow, S) \in Int
  BY <1>2, <1>4, SumSame, SumType
<1>7. wallet'[Pool] = wallet[Pool] - left
  BY <1>1 DEF PayOk, Transferred
<1>8. wallet[Pool] = funded - SumOf(Outflow, S) /\ funded' = funded
  BY DEF PoolConserved, S, PayOk
<1>9. wallet'[Pool] = funded' - SumOf(Outflow', S \cup {y})
  BY <1>1, <1>5, <1>6, <1>7, <1>8
<1>. QED  BY <1>3, <1>9 DEF PoolConserved

LEMMA NextConserves == PoolInv /\ PoolConserved /\ [Next]_vars => PoolConserved'
<1>. SUFFICES ASSUME PoolInv, PoolConserved, [Next]_vars PROVE PoolConserved'
  OBVIOUS
<1>1. ASSUME NEW signer \in Accounts, NEW tx \in TxIds, NEW amount \in Amounts,
             NEW merchant \in Holders, PayOk(signer, tx, amount, merchant)
      PROVE  PoolConserved'
  BY <1>1, PayOkConserves
<1>2. CASE UNCHANGED <<wallet, funded, emitted>>
  BY <1>2 DEF PoolConserved, Outflow
<1>3. CASE Fund
  <2>1. wallet \in [Holders -> Int] /\ Pool \in Holders /\ funded \in Int
    BY PoolAssumption DEF PoolInv, TypeOK, Holders
  <2>2. IsFiniteSet(DOMAIN emitted) /\ \A i \in DOMAIN emitted : emitted[i].amount \in Int
    BY EventsFinite DEF PoolInv
  <2>3. \A i \in DOMAIN emitted : Outflow[i] \in Int
    BY <2>2 DEF Outflow
  <2>4. SumOf(Outflow, DOMAIN emitted) \in Int
    BY <2>2, <2>3, SumType
  <2>5. emitted' = emitted /\ Outflow' = Outflow
    BY <1>3 DEF Fund, Outflow
  <2>6. wallet'[Pool] = wallet[Pool] + 1 /\ funded' = funded + 1
    BY <1>3, <2>1 DEF Fund
  <2>. QED  BY <2>1, <2>4, <2>5, <2>6 DEF PoolConserved
<1>4. \/ \E signer \in Accounts, tx \in TxIds, amount \in Amounts, merchant \in Holders :
           PayOk(signer, tx, amount, merchant)
      \/ UNCHANGED <<wallet, funded, emitted>>
      \/ Fund
  BY DEF Next, Pay, PayErr, Pause, Unpause, Upgrade, SetOperator, SetAdmin, SetTrust, vars
<1>. QED  BY <1>1, <1>2, <1>3, <1>4

\* The contract's USDC balance is what it was sent less what its PaymentMade events say
\* it paid out, after any sequence of calls: drift means value moved without pay().
THEOREM PoolAlwaysConserved == Spec => []PoolConserved
<1>1. Init => PoolConserved
  <2>. SUFFICES ASSUME Init PROVE PoolConserved
    OBVIOUS
  <2>1. DOMAIN emitted = {} /\ wallet[Pool] = 0 /\ funded = 0
    BY DEF Init, Holders
  <2>2. SumOf(Outflow, {}) = 0
    BY SumEmpty
  <2>. QED  BY <2>1, <2>2 DEF PoolConserved
<1>. QED  BY <1>1, NextConserves, PoolInvariance, PTL DEF Spec
=============================================================================
