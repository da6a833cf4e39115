------------------------------ MODULE MCTrade ------------------------------
(* Two accounts that both trade and view, and a price in each currency.    *)
EXTENDS TradePage

CONSTANTS a, b

MCQuotes ==
    {[currency |-> "Arch", price |-> 1], [currency |-> "Btc", price |-> 2]}
=============================================================================
