------------------------------ MODULE MCQuotes ------------------------------
(* Two quotes that share a cache over two exchanges; one over three; a list *)
(* that names one exchange twice.                                          *)
EXTENDS Quotes

Card == [rateBps |-> 4, fixedKurus |-> 2]
Bank == [rateBps |-> 0, fixedKurus |-> 0]

MCSetups ==
  {[feeds |-> <<"binance", "bybit">>, requests |-> {1, 2}, psp |-> Card,
    try |-> {20}, usdc |-> {10}, amounts |-> {40}, sells |-> {}],
   [feeds |-> <<"binance", "bybit", "okx">>, requests |-> {1}, psp |-> Bank,
    try |-> {20, 22}, usdc |-> {9}, amounts |-> {40}, sells |-> {}],
   [feeds |-> <<"binance", "bybit", "bybit">>, requests |-> {1}, psp |-> Card,
    try |-> {20, 21}, usdc |-> {10}, amounts |-> {3, 7, 40}, sells |-> 0 .. 13]}
MCStats == {[mu |-> -9, sigma |-> 2], [mu |-> 3, sigma |-> 4]}
=============================================================================
