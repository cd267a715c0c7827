------------------------------- MODULE Quotes -------------------------------
(***************************************************************************)
(* The price of an order: the spot rate agreed by several exchanges, the   *)
(* cached statistics of the daily closes, the spread, the provider's cost  *)
(* on top, and the split that is frozen with the order for the ledger.     *)
(*                                                                         *)
(* Several quotes are computed at once by one quote function; they share   *)
(* the cache of statistics.  A rate shares nothing with another, so the    *)
(* answers of the exchanges to one quote arrive in one step, at any time   *)
(* between the question and the timeout of their second ticker.            *)
(* Arithmetic is that of the code (integers, divisions rounded down) on    *)
(* scaled-down constants.                                                  *)
(***************************************************************************)
EXTENDS LedgerBook, Sequences

CONSTANTS
  Setups,       \* what is looked at: [feeds, requests, psp], the tickers' prices (try,
                \* usdc), the order sizes in stroops (amounts) and what the bank's
                \* anchor may ask for one (sells), in the anchor's decimals of a lira
  Stamped,      \* exchanges whose tickers may carry a time
  Stats,        \* what the closes may give: [mu, sigma], in basis points
  Scale,        \* RATE_SCALE
  BpsDenom,     \* BPS_DENOM
  KurusDivisor, \* KURUS_DIVISOR
  KurusPerTry,  \* KURUS_PER_TRY
  SellPerKurus, \* the anchor's units in a kurus
  BankLimit,    \* the most kurus of a bank transfer
  MarginBps,    \* the policy's marginBps
  MaxAge, DeviationBps, MinQuorum,   \* OraclePolicy
  StatsTtl, StatsMaxStale,           \* statsTtlMs, statsMaxStaleMs
  Patience,     \* timeoutMs of all attempts of one fetch: a ticker, or the closes
  MaxTime       \* bound: the clock

ASSUME QuotesAssumption ==
  /\ \A s \in Setups : /\ s.psp.rateBps \in 0 .. BpsDenom - 1 /\ s.psp.fixedKurus \in Nat
                        /\ s.try \cup s.usdc \cup s.amounts \subseteq Nat \ {0}
                        /\ s.sells \subseteq Nat
  /\ {Scale, BpsDenom, KurusDivisor, KurusPerTry, SellPerKurus, BankLimit, MinQuorum} \subseteq Nat \ {0}
  /\ {MarginBps, MaxAge, DeviationBps, StatsTtl, StatsMaxStale, Patience, MaxTime} \subseteq Nat

VARIABLES
  setup,   \* the deployment
  now,     \* the clock
  cached,  \* the statistics in memory, with the time they were asked for
  req      \* the quotes being computed

vars == <<setup, now, cached, req>>

Requests == setup.requests
Nobody == [at |-> "idle"]
NoStats == [stats |-> [mu |-> 0, sigma |-> 0], at |-> -1, read |-> -1]

Init ==
  /\ setup \in Setups
  /\ now = 0
  /\ cached = NoStats
  /\ req = [r \in setup.requests |-> Nobody]

Goes(r, s) == req' = [req EXCEPT ![r] = s]

-----------------------------------------------------------------------------
(* The spot rate: fetchCexQuote and aggregate.                             *)

\* What the exchange says; the stamps at and past the edges of the window tell all apart.
Stamps(asked) == {asked - MaxAge - 1, asked - MaxAge, asked + MaxAge + 1}

\* A ticker's time: its stamp, if it carries one that can be read, else the question's.
Times(name, asked) == {asked} \cup (IF name \in Stamped THEN Stamps(asked) ELSE {})

\* The answer of an exchange: its two tickers, or nothing that can be used.
Tickers(name, asked) ==
  [name : {name}, try : setup.try, usdc : setup.usdc,
   tryAt : Times(name, asked), usdcAt : Times(name, asked)]
Silent == [name |-> "none"]
Answers(name, asked) == Tickers(name, asked) \cup {Silent}
AnswerLists(asked) ==
  LET all == UNION {Answers(name, asked) : name \in Range(setup.feeds)} IN
  {f \in [DOMAIN setup.feeds -> all] : \A i \in DOMAIN f : f[i] \in Answers(setup.feeds[i], asked)}

\* TRY/USDT times USDT/USDC.
TryPerUsdc(a) == (a.try * a.usdc) \div Scale

\* Mutant: the younger leg's time stands for both.
AsOfYounger(a) == Max({a.tryAt, a.usdcAt})

\* The older leg's time.
AsOf(a) == Min({a.tryAt, a.usdcAt})

\* Positive and within the window around the question, on both sides.
Healthy(a, asked) ==
  /\ a # Silent
  /\ TryPerUsdc(a) > 0
  /\ asked - AsOf(a) \in -MaxAge .. MaxAge

\* One quote for each source, the first healthy one in the list.
Distinct(answers, asked) ==
  {i \in DOMAIN answers :
     /\ Healthy(answers[i], asked)
     /\ \A j \in 1 .. i - 1 : Healthy(answers[j], asked) => answers[j].name # answers[i].name}

\* medianElement: the lower of the two middle ones, a price some source quoted.
Median(answers, S) ==
  LET below(p) == Cardinality({i \in S : TryPerUsdc(answers[i]) < p})
      upto(p) == Cardinality({i \in S : TryPerUsdc(answers[i]) <= p})
      half == (Cardinality(S) - 1) \div 2 IN
  CHOOSE p \in {TryPerUsdc(answers[i]) : i \in S} : below(p) <= half /\ half < upto(p)

Abs(x) == IF x < 0 THEN -x ELSE x

Within(p, center) == Abs(p - center) * BpsDenom <= DeviationBps * center

AllWithin(answers, S, center) == \A i \in S : Within(TryPerUsdc(answers[i]), center)

\* aggregate: no price without a quorum, none when any healthy source disagrees.
Accepts(answers, asked) ==
  LET S == Distinct(answers, asked) IN
  Cardinality(S) >= MinQuorum /\ AllWithin(answers, S, Median(answers, S))

Mid(answers, asked) == Median(answers, Distinct(answers, asked))

-----------------------------------------------------------------------------
(* The price: commission, spread, the provider's cost, the frozen split.   *)

\* mu*n + z*sigma*sqrt(n) + margin, never negative.  Its floating-point terms are
\* inputs here, in whole basis points.
CommissionBps(stats) == Max({0, stats.mu + stats.sigma + MarginBps})

ApplySpread(mid, bps) == (mid * (BpsDenom + bps)) \div BpsDenom

Kurus(stroops, rate) == (stroops * rate) \div KurusDivisor

\* Mutant: the percentage is added to the net price.
GrossAdded(net, psp) == net + (net * psp.rateBps) \div BpsDenom + psp.fixedKurus

\* applyPspPassthrough: what to charge so that the net is left after the cut, rounded up.
Gross(net, psp) ==
  LET denom == BpsDenom - psp.rateBps IN
  ((net + psp.fixedKurus) * BpsDenom + denom - 1) \div denom

\* kurusToTryString and tryToKurus: "N.MM" and back.
KurusToTry(k) == <<k \div KurusPerTry, k % KurusPerTry>>
TryToKurus(t) == t[1] * KurusPerTry + t[2]

\* quoteUsdcWithPsp, and the split frozen in the order.
Priced(stroops, mid, stats) ==
  LET base == Kurus(stroops, mid)
      net == Kurus(stroops, ApplySpread(mid, CommissionBps(stats)))
      gross == Gross(net, setup.psp) IN
  [paid |-> KurusToTry(gross), net |-> net, base |-> base,
   spread |-> (net - base) + (gross - net), fee |-> gross - net]

\* The anchor's price of a bank transfer, in whole kurus and rounded up, and the rate that
\* is frozen with it, rounded up too: the order's value at that rate is never below the price.
BankKurus(sell) == (sell + SellPerKurus - 1) \div SellPerKurus
BankRate(stroops, sell) == (BankKurus(sell) * KurusDivisor + stroops - 1) \div stroops

\* The anchor must answer for the amount it was asked about, and within the limit.
BankAccepts(stroops, sell, buy) == buy = stroops /\ BankKurus(sell) \in 1 .. BankLimit

-----------------------------------------------------------------------------
(* One quote, step by step.                                                *)

\* The order's or the preview's amount is checked, the clock is read.
Ask(r) ==
  /\ req[r].at = "idle"
  /\ \E amount \in setup.amounts : Goes(r, [at |-> "rate", stroops |-> amount, asked |-> now])
  /\ UNCHANGED <<setup, now, cached>>

\* A bank order is priced by the anchor alone: one question, nothing shared.
BankQuoted(r) ==
  /\ req[r].at = "idle"
  /\ \E amount \in setup.amounts, sell \in setup.sells : \E buy \in {amount, amount + 1} :
       /\ BankAccepts(amount, sell, buy)
       /\ Goes(r, [at |-> "bank", stroops |-> amount, sell |-> sell, rate |-> BankRate(amount, sell),
                   paid |-> KurusToTry(BankKurus(sell))])
  /\ UNCHANGED <<setup, now, cached>>

\* All exchanges have answered or timed out.
RateAnswered(r) ==
  /\ req[r].at = "rate"
  /\ \E answers \in AnswerLists(req[r].asked) :
       IF Accepts(answers, req[r].asked)
       THEN Goes(r, [at |-> "stats", stroops |-> req[r].stroops, asked |-> req[r].asked,
                     heard |-> answers, mid |-> Mid(answers, req[r].asked)])
       ELSE Goes(r, Nobody)
  /\ UNCHANGED <<setup, now, cached>>

Age(t) == t - cached.at
Fresh(t) == cached # NoStats /\ Age(t) < Min({StatsTtl, StatsMaxStale})

\* Mutant: during an outage the last good statistics serve for ever.
UsableAlways(t) == cached # NoStats

\* The bounded fallback.
Usable(t) == cached # NoStats /\ Age(t) < StatsMaxStale

Issued(r, s) ==
  [at |-> "issued", stroops |-> req[r].stroops, asked |-> req[r].asked, heard |-> req[r].heard,
   mid |-> req[r].mid, price |-> Priced(req[r].stroops, req[r].mid, s.stats), read |-> s.read]

\* returnStats: the cache, or a question to the history.
StatsLookup(r) ==
  /\ req[r].at = "stats"
  /\ IF Fresh(now)
     THEN Goes(r, Issued(r, cached))
     ELSE Goes(r, [at |-> "history", stroops |-> req[r].stroops, asked |-> req[r].asked,
                   heard |-> req[r].heard, mid |-> req[r].mid, t |-> now])
  /\ UNCHANGED <<setup, now, cached>>

\* The closes arrive; the cache is stamped with the time of the question.
HistoryAnswered(r) ==
  /\ req[r].at = "history"
  /\ \E s \in Stats :
       LET fetched == [stats |-> s, at |-> req[r].t, read |-> now] IN
       /\ cached' = fetched
       /\ Goes(r, Issued(r, fetched))
  /\ UNCHANGED <<setup, now>>

\* They do not: recent statistics are used again, else there is no price.
HistoryFails(r) ==
  /\ req[r].at = "history"
  /\ IF Usable(req[r].t) THEN Goes(r, Issued(r, cached)) ELSE Goes(r, Nobody)
  /\ UNCHANGED <<setup, now, cached>>

\* The answer is sent, the request is over.
Answered(r) ==
  /\ req[r].at \in {"issued", "bank"}
  /\ Goes(r, Nobody)
  /\ UNCHANGED <<setup, now, cached>>

\* A rate takes two tickers, one fetched after the other.
RatePatience == 2 * Patience

\* Time passes; no fetch outlives its timeouts, and between two awaits none passes.
Tick ==
  /\ now < MaxTime
  /\ \A r \in Requests :
       /\ req[r].at = "rate" => now - req[r].asked < RatePatience
       /\ req[r].at = "history" => now - req[r].t < Patience
       /\ req[r].at \notin {"stats", "issued", "bank"}
  /\ now' = now + 1
  /\ UNCHANGED <<setup, cached, req>>

Next ==
  \/ \E r \in Requests : Ask(r) \/ BankQuoted(r) \/ RateAnswered(r) \/ StatsLookup(r) \/ HistoryAnswered(r)
                           \/ HistoryFails(r) \/ Answered(r)
  \/ Tick

Spec == Init /\ [][Next]_vars

-----------------------------------------------------------------------------
(* Properties.                                                             *)

Quoting(r) == req[r].at \in {"stats", "history", "issued"}

\* A price is made of a rate that a quorum of different exchanges really showed: every
\* one of them is within the allowed deviation of it, not both tickers of an exchange are
\* dated ahead of the window, and neither is dated further back when the quote is made
\* than the window and the three fetches allow: two tickers and the closes.  A ticker
\* without a stamp is as old as the question.
RateTrusted ==
  \A r \in Requests : Quoting(r) =>
    LET trusted(a) ==
          /\ a # Silent
          /\ Within(TryPerUsdc(a), req[r].mid)
          /\ \A t \in {a.tryAt, a.usdcAt} : now - t <= MaxAge + 3 * Patience
          /\ \E t \in {a.tryAt, a.usdcAt} : t - now <= MaxAge IN
    Cardinality({a.name : a \in {b \in Range(req[r].heard) : trusted(b)}}) >= MinQuorum

\* No price rests on statistics older than the ceiling, counted from the moment they were
\* read, but for the time a failing fetch takes; whoever filled the cache and whatever
\* fetch answered last.
StatsBounded ==
  \A r \in Requests : req[r].at = "issued" => now - req[r].read < StatsMaxStale + Patience

\* A price can be kept and booked: what is left of it after the provider's cut covers the
\* net price, the frozen split makes an entry the ledger takes, and the entry values the
\* USDC at the rate.  An order so small that its value rounds to nothing is the exception.
\* A bank's price covers what the anchor asks, its frozen rate gives the price back to the
\* kurus, and it too makes an entry the ledger takes.
QuoteBooks ==
  /\ \A r \in Requests : req[r].at = "bank" =>
       LET paid == TryToKurus(req[r].paid)
           e == SettlementEntry("order", req[r].stroops, paid, 0, 0) IN
       /\ paid * SellPerKurus >= req[r].sell
       /\ Kurus(req[r].stroops, req[r].rate) = paid
       /\ ValidSettlement(req[r].stroops, paid, 0, 0)
       /\ MayPost({}, e)
       /\ BalanceKurus({e}, "USDC_POOL") = -paid
  /\ \A r \in Requests : req[r].at = "issued" =>
       LET p == req[r].price
           paid == TryToKurus(p.paid)
           e == SettlementEntry("order", req[r].stroops, paid, p.spread, p.fee) IN
       /\ paid * (BpsDenom - setup.psp.rateBps) >= (p.net + setup.psp.fixedKurus) * BpsDenom
       /\ p.base > 0 => /\ ValidSettlement(req[r].stroops, paid, p.spread, p.fee)
                        /\ MayPost({}, e)
                        /\ NativeBalance({e}, "USDC_POOL") = -req[r].stroops
                        /\ BalanceKurus({e}, "USDC_POOL") = -p.base
=============================================================================
