--------------------------- MODULE MCFundsReserve ---------------------------
(* An instance of FundsReserve for TLC: orders in one or two markets. *)
EXTENDS FundsReserve

ThreeOrders == 1 .. 3

\* Orders 1 and 3 are in one market, order 2 in another.
Alternating == [o \in Orders |-> IF o = 2 THEN "m2" ELSE "m1"]
TwoMarkets == {"m1", "m2"}

\* Order 3 needs the whole balance.
SmallAndLarge == [o \in Orders |-> IF o = 3 THEN 2 ELSE 1]
=============================================================================
