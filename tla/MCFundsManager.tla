--------------------------- MODULE MCFundsManager ---------------------------
(* An instance of FundsManager for TLC.  Prices are quarters, so that parts *)
(* of an order can round.                                                   *)
EXTENDS FundsManager

TwoWallets == {"w1", "w2"}

Limit(w, action, outcome, tick, size) ==
    [wallet |-> w, action |-> action, outcome |-> outcome, type |-> "limit",
     tick |-> tick, size |-> size]

\* w1 buys YES twice, with a limit and at the market; w2 sells YES and buys NO.
MixedOrders ==
    [o \in 1 .. 4 |->
        CASE o = 1 -> Limit("w1", "buy", "yes", 3, 2)
          [] o = 2 -> Limit("w2", "sell", "yes", 2, 2)
          [] o = 3 -> Limit("w2", "buy", "no", 1, 2)
          [] o = 4 -> [Limit("w1", "buy", "yes", 1, 1) EXCEPT !.type = "market"]]

StartBalances ==
    [w \in Wallets |-> IF w = "w1" THEN [usdc |-> 2, yes |-> 1, no |-> 0]
                                   ELSE [usdc |-> 1, yes |-> 2, no |-> 0]]

OneWithdrawal == {[wallet |-> "w1", kind |-> "withdraw", amount |-> 1]}
TwoBatches == {1, 2}
=============================================================================
