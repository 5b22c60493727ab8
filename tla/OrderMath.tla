----------------------------- MODULE OrderMath -----------------------------
(***************************************************************************)
(* The integer arithmetic of prices, lots and spend that the matcher uses  *)
(* (matching/math.go and the helpers of matching/book.go).  A price is a   *)
(* number of ticks strictly between 0 and Scale; Scale is 100 in the code. *)
(* The book is a single book of YES shares: an order on NO is turned into  *)
(* an order on YES of the other side at the complementary price.           *)
(***************************************************************************)
EXTENDS Integers

CONSTANT Scale

ASSUME ScaleAssumption == Scale \in Nat /\ Scale >= 2

Prices == 1 .. (Scale - 1)

Opposite(side) == IF side = "buy" THEN "sell" ELSE "buy"

\* The gateway's normalizeToYesBook: which side of the YES book an order
\* works on, and at which price.
NormalizedSide(action, outcome) ==
    IF outcome = "yes" THEN action ELSE Opposite(action)

NormalizedPrice(outcome, limit) ==
    IF outcome = "yes" THEN limit ELSE Scale - limit

\* What one lot costs the owner of an order, in ticks, when the YES book
\* trades at price.
EffectivePrice(outcome, price) ==
    IF outcome = "no" THEN Scale - price ELSE price

ceilMulDiv(a, b) ==
    IF a = 0 \/ b = 0 THEN 0 ELSE (a * b + Scale - 1) \div Scale

actualUnitsForOrder(outcome, qty, price) ==
    ceilMulDiv(qty, EffectivePrice(outcome, price))

costForLots(qty, price) == ceilMulDiv(qty, price)

lotsForSpend(spend, price) ==
    IF price = 0 THEN 0 ELSE (spend * Scale) \div price

lotsForOrderSpend(outcome, spend, price) ==
    lotsForSpend(spend, EffectivePrice(outcome, price))
=============================================================================
