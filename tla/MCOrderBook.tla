---------------------------- MODULE MCOrderBook ----------------------------
(* Instances of OrderBook for TLC. *)
EXTENDS OrderBook

Limit(w, a, out, price, q, e) ==
    [wallet |-> w, action |-> a, outcome |-> out, type |-> "limit",
     limit |-> price, qty |-> q, spend |-> 0, expire |-> e]

Market(w, a, out, price, q, s) ==
    [wallet |-> w, action |-> a, outcome |-> out, type |-> "market",
     limit |-> price, qty |-> q, spend |-> s, expire |-> 0]

\* Limit orders of two wallets on both sides of the YES book, one of them
\* through NO, with two expiry times, and the three kinds of market order.
MixedCommands ==
    { Limit("a", "sell", "yes", 2, 2, 1), Limit("a", "sell", "yes", 3, 2, 2),
      Limit("b", "sell", "yes", 2, 1, 2), Limit("a", "buy", "no", 2, 1, 1),
      Limit("b", "buy", "yes", 3, 2, 2),  Limit("a", "buy", "yes", 2, 1, 1),
      Limit("b", "buy", "yes", 1, 1, 2),
      Market("b", "buy", "yes", 3, 0, 2), Market("b", "buy", "yes", 3, 0, 1),
      Market("b", "buy", "no", 3, 0, 1),
      Market("b", "sell", "yes", 1, 2, 0) }

TwoTimes == {0, 1, 2}
=============================================================================
