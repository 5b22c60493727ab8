-------------------------- MODULE FundsManagerProofs --------------------------
(***************************************************************************)
(* Proofs about FundsManager for every set of wallets, orders, batches and *)
(* transfers, every price scale and all bounds.                            *)
(***************************************************************************)
EXTENDS FundsManager, ArithmeticProofs

-----------------------------------------------------------------------------
(* What the fills of a batch bring and cost a wallet *)

Fill == [maker : Orders, taker : Orders, qty : Nat, price : Prices]

\* Sum is the sum of a function over its domain.
LEMMA SumIs == ASSUME NEW f PROVE Sum(f) = SumOver(f, DOMAIN f)
BY SumOfMap, Zenon DEF Sum

\* The same for a part of a function's domain.
LEMMA SumOfPart ==
  ASSUME NEW g, NEW S, NEW T, IsFiniteSet(T), S \subseteq T, NEW f, DOMAIN f = S,
         \A x \in S : f[x] = g[x]
  PROVE  Sum(f) = SumOver(g, S)
<1>1. IsFiniteSet(S)
  BY FS_Subset
<1>2. SumOver(f, S) = SumOver(g, S)
  BY <1>1, SumOverSame
<1> QED
  BY <1>2, SumIs

\* The units of an order are a number.
LEMMA CostType ==
  ASSUME NEW o \in Orders, NEW q \in Nat, NEW p \in Prices
  PROVE  Cost(o, q, p) \in Nat
<1>1. EffectivePrice(Order[o].outcome, p) \in Nat
  BY ScaleAssumption DEF EffectivePrice, Prices
<1>2. ASSUME NEW b \in Nat PROVE ceilMulDiv(q, b) \in Nat
  <2>1. q * b \in Nat
    OBVIOUS
  <2>2. \A z \in Nat : (z + Scale - 1) \div Scale \in Nat
    BY ScaleAssumption, DivBounds
  <2> QED
    BY <2>1, <2>2 DEF ceilMulDiv
<1> QED
  BY <1>1, <1>2 DEF Cost, actualUnitsForOrder

\* An order of wallet w with this action on one of these outcomes.
IsLeg(o, w, action, outcomes) ==
    Order[o].wallet = w /\ Order[o].action = action /\ Order[o].outcome \in outcomes

\* A batch has finitely many legs.
LEMMA LegsFinite ==
  ASSUME NEW f \in Seq(Fill), NEW w, NEW action, NEW outcomes
  PROVE  /\ IsFiniteSet(Orders \X DOMAIN f)
         /\ Legs(f, w, action, outcomes) \subseteq Orders \X DOMAIN f
         /\ IsFiniteSet(Legs(f, w, action, outcomes))
<1>1. DOMAIN f = 1 .. Len(f) /\ Len(f) \in Nat
  OBVIOUS
<1>2. IsFiniteSet(DOMAIN f)
  BY <1>1, FS_Interval
<1>3. IsFiniteSet(Orders \X DOMAIN f)
  BY <1>2, ManagerAssumption, FS_Product
<1>4. Legs(f, w, action, outcomes) \subseteq Orders \X DOMAIN f
  BY DEF Legs
<1> QED
  BY <1>3, <1>4, FS_Subset

\* One fill more has one leg more for the wallet of its maker and one for that of its taker.
LEMMA LegsAppend ==
  ASSUME NEW f \in Seq(Fill), NEW r \in Fill, NEW w, NEW action, NEW outcomes
  PROVE  Legs(Append(f, r), w, action, outcomes) =
            Legs(f, w, action, outcomes)
              \union {<<o, Len(f) + 1>> : o \in {o \in {r.maker, r.taker} : IsLeg(o, w, action, outcomes)}}
<1> DEFINE g == Append(f, r)
           n == Len(f) + 1
           New == {o \in {r.maker, r.taker} : IsLeg(o, w, action, outcomes)}
           L == Legs(f, w, action, outcomes)
           M == Legs(g, w, action, outcomes)
<1>1. /\ DOMAIN f = 1 .. Len(f) /\ Len(f) \in Nat
      /\ DOMAIN g = 1 .. n
      /\ \A i \in DOMAIN f : g[i] = f[i]
      /\ g[n] = r
  OBVIOUS
<1>2. r.maker \in Orders /\ r.taker \in Orders
  BY DEF Fill
<1> HIDE DEF g, n
<1>3. \A l : l \in M <=> /\ l \in Orders \X DOMAIN g
                         /\ l[1] \in {g[l[2]].maker, g[l[2]].taker}
                         /\ IsLeg(l[1], w, action, outcomes)
  BY DEF Legs, IsLeg
<1>4. \A l : l \in L <=> /\ l \in Orders \X DOMAIN f
                         /\ l[1] \in {f[l[2]].maker, f[l[2]].taker}
                         /\ IsLeg(l[1], w, action, outcomes)
  BY DEF Legs, IsLeg
<1>5. \A i : i \in DOMAIN g <=> i \in DOMAIN f \/ i = n
  BY <1>1 DEF n
<1>6. n \notin DOMAIN f
  BY <1>1 DEF n
<1> HIDE DEF L, M
<1>7. ASSUME NEW l \in M PROVE l \in L \/ l \in {<<o, n>> : o \in New}
  <2>1. l \in Orders \X DOMAIN g /\ l[1] \in {g[l[2]].maker, g[l[2]].taker} /\ IsLeg(l[1], w, action, outcomes)
    BY <1>3
  <2>2. l = <<l[1], l[2]>> /\ l[1] \in Orders /\ l[2] \in DOMAIN g
    BY <2>1
  <2>3. CASE l[2] \in DOMAIN f
    <3>1. g[l[2]] = f[l[2]] /\ l \in Orders \X DOMAIN f
      BY <1>1, <2>2, <2>3
    <3> QED
      BY <1>4, <2>1, <3>1
  <2>4. CASE l[2] = n
    <3>1. l[1] \in {r.maker, r.taker}
      BY <1>1, <2>1, <2>4
    <3> QED
      BY <2>1, <2>2, <2>4, <3>1
  <2> QED
    BY <1>5, <2>2, <2>3, <2>4
<1>8. ASSUME NEW l \in L PROVE l \in M
  <2>1. l \in Orders \X DOMAIN f /\ l[1] \in {f[l[2]].maker, f[l[2]].taker} /\ IsLeg(l[1], w, action, outcomes)
    BY <1>4
  <2>2. l[2] \in DOMAIN f /\ l \in Orders \X DOMAIN g
    BY <1>5, <2>1
  <2> QED
    BY <1>1, <1>3, <2>1, <2>2
<1>9. ASSUME NEW o \in New PROVE <<o, n>> \in M
  <2>1. <<o, n>> \in Orders \X DOMAIN g /\ <<o, n>>[1] = o /\ <<o, n>>[2] = n
    BY <1>2, <1>5
  <2> QED
    BY <1>1, <1>3, <2>1
<1>10. M = L \union {<<o, n>> : o \in New}
  BY <1>7, <1>8, <1>9
<1> QED
  BY <1>10 DEF M, L, g, n

\* The values of the legs of a batch, in units and in lots.
MoneyOf(f) == [l \in Orders \X DOMAIN f |-> Cost(l[1], f[l[2]].qty, f[l[2]].price)]
LotsOf(f)  == [l \in Orders \X DOMAIN f |-> f[l[2]].qty]

LEMMA LegValues ==
  ASSUME NEW f \in Seq(Fill)
  PROVE  \A l \in Orders \X DOMAIN f : MoneyOf(f)[l] \in Nat /\ LotsOf(f)[l] \in Nat
<1> TAKE l \in Orders \X DOMAIN f
<1>1. l[1] \in Orders /\ f[l[2]] \in Fill
  OBVIOUS
<1>2. f[l[2]].qty \in Nat /\ f[l[2]].price \in Prices
  BY <1>1 DEF Fill
<1>3. Cost(l[1], f[l[2]].qty, f[l[2]].price) \in Nat
  BY <1>1, <1>2, CostType
<1> QED
  BY <1>2, <1>3 DEF MoneyOf, LotsOf

\* Money and Lots are sums of these values over the legs.
LEMMA MoneyIs ==
  ASSUME NEW f \in Seq(Fill), NEW w, NEW action, NEW outcomes
  PROVE  LET L == Legs(f, w, action, outcomes)
         IN  /\ Money(f, L) = SumOver(MoneyOf(f), L) /\ Money(f, L) \in Nat
             /\ Lots(f, L) = SumOver(LotsOf(f), L) /\ Lots(f, L) \in Nat
<1> DEFINE L == Legs(f, w, action, outcomes)
           T == Orders \X DOMAIN f
           m == [l \in L |-> Cost(l[1], f[l[2]].qty, f[l[2]].price)]
           k == [l \in L |-> f[l[2]].qty]
<1>1. IsFiniteSet(T) /\ L \subseteq T /\ IsFiniteSet(L)
  BY LegsFinite
<1> HIDE DEF L
<1>2. DOMAIN m = L /\ \A l \in L : m[l] = MoneyOf(f)[l]
  BY <1>1 DEF MoneyOf
<1>3. DOMAIN k = L /\ \A l \in L : k[l] = LotsOf(f)[l]
  BY <1>1 DEF LotsOf
<1>4. Money(f, L) = Sum(m) /\ Lots(f, L) = Sum(k)
  BY DEF Money, Lots
<1> HIDE DEF m, k, T
<1>5. Sum(m) = SumOver(MoneyOf(f), L)
  BY <1>1, <1>2, SumOfPart
<1>6. Sum(k) = SumOver(LotsOf(f), L)
  BY <1>1, <1>3, SumOfPart
<1>7. \A l \in L : MoneyOf(f)[l] \in Nat /\ LotsOf(f)[l] \in Nat
  BY <1>1, LegValues DEF T
<1>8. SumOver(MoneyOf(f), L) \in Nat /\ SumOver(LotsOf(f), L) \in Nat
  BY <1>1, <1>7, SumOverNat
<1> QED
  BY <1>4, <1>5, <1>6, <1>8 DEF L

\* u has the values of v for the legs of f.
Agree(f, v, u) == \A l \in Orders \X DOMAIN f : v[l] \in Int /\ u[l] = v[l]

\* The sum over the legs is larger by the value of the leg of the last fill, if there is one.
GrowsBy(f, r, w, action, outcomes, v, u) ==
    LET L == Legs(f, w, action, outcomes)
        M == Legs(Append(f, r), w, action, outcomes)
    IN  /\ \A o \in {r.maker, r.taker} :
              IsLeg(o, w, action, outcomes) /\ u[<<o, Len(f) + 1>>] \in Int =>
                  SumOver(u, M) = SumOver(v, L) + u[<<o, Len(f) + 1>>]
        /\ (\A o \in {r.maker, r.taker} : ~IsLeg(o, w, action, outcomes)) =>
                  SumOver(u, M) = SumOver(v, L)

LEMMA LegSumAppend ==
  ASSUME NEW f \in Seq(Fill), NEW r \in Fill, NEW w, NEW action, NEW outcomes,
         Order[r.maker].wallet # Order[r.taker].wallet, NEW v, NEW u, Agree(f, v, u)
  PROVE  GrowsBy(f, r, w, action, outcomes, v, u)
<1> DEFINE L == Legs(f, w, action, outcomes)
           M == Legs(Append(f, r), w, action, outcomes)
           n == Len(f) + 1
           New == {o \in {r.maker, r.taker} : IsLeg(o, w, action, outcomes)}
<1>1. M = L \union {<<o, n>> : o \in New}
  BY LegsAppend
<1>2. IsFiniteSet(L) /\ L \subseteq Orders \X DOMAIN f
  BY LegsFinite
<1>3. DOMAIN f = 1 .. Len(f) /\ Len(f) \in Nat
  OBVIOUS
<1>4. \A o : <<o, n>> \notin L
  BY <1>2, <1>3
<1> HIDE DEF L, M
<1>5. /\ \A l \in L : v[l] \in Int /\ u[l] = v[l]
      /\ SumOver(u, L) = SumOver(v, L) /\ SumOver(v, L) \in Int
  <2>1. \A l \in L : v[l] \in Int /\ u[l] = v[l]
    BY <1>2 DEF Agree
  <2> QED
    BY <1>2, <2>1, SumOverSame, SumOverType
<1>6. ASSUME NEW o \in {r.maker, r.taker}, IsLeg(o, w, action, outcomes), u[<<o, n>>] \in Int
      PROVE  SumOver(u, M) = SumOver(v, L) + u[<<o, n>>]
  <2>1. New = {o}
    BY <1>6 DEF IsLeg
  <2>2. M = L \union {<<o, n>>}
    BY <1>1, <2>1
  <2> DEFINE z == <<o, n>>
  <2>3. z \notin L /\ u[z] \in Int
    BY <1>4, <1>6
  <2>4. \A l \in L \union {z} : u[l] \in Int
    BY <1>5, <2>3
  <2> HIDE DEF z
  <2>5. SumOver(u, L \union {z}) = u[z] + SumOver(u, L)
    BY <1>2, <2>3, <2>4, SumOverAdd
  <2>6. M = L \union {z}
    BY <2>2 DEF z
  <2>7. SumOver(u, M) = SumOver(v, L) + u[z]
    BY <1>5, <2>3, <2>5, <2>6
  <2> QED
    BY <2>7 DEF z
<1>7. ASSUME \A o \in {r.maker, r.taker} : ~IsLeg(o, w, action, outcomes)
      PROVE  SumOver(u, M) = SumOver(v, L)
  <2>1. M = L
    BY <1>1, <1>7
  <2> QED
    BY <1>5, <2>1
<1> QED
  BY <1>6, <1>7 DEF L, M, GrowsBy

\* A fill adds the cost and the lots of the leg that the wallet has in it.
LEMMA MoneyAppend ==
  ASSUME NEW f \in Seq(Fill), NEW r \in Fill, NEW w, NEW action, NEW outcomes,
         Order[r.maker].wallet # Order[r.taker].wallet
  PROVE  LET L == Legs(f, w, action, outcomes)
             M == Legs(Append(f, r), w, action, outcomes)
         IN  /\ \A o \in {r.maker, r.taker} :
                   IsLeg(o, w, action, outcomes) =>
                       /\ Money(Append(f, r), M) = Money(f, L) + Cost(o, r.qty, r.price)
                       /\ Lots(Append(f, r), M) = Lots(f, L) + r.qty
             /\ (\A o \in {r.maker, r.taker} : ~IsLeg(o, w, action, outcomes)) =>
                       /\ Money(Append(f, r), M) = Money(f, L)
                       /\ Lots(Append(f, r), M) = Lots(f, L)
<1> DEFINE g == Append(f, r)
           n == Len(f) + 1
           L == Legs(f, w, action, outcomes)
           M == Legs(g, w, action, outcomes)
<1>1. g \in Seq(Fill)
  OBVIOUS
<1>2. r.maker \in Orders /\ r.taker \in Orders /\ r.qty \in Nat /\ r.price \in Prices
  BY DEF Fill
<1>3. /\ DOMAIN f = 1 .. Len(f) /\ Len(f) \in Nat /\ DOMAIN g = 1 .. n
      /\ \A i \in DOMAIN f : g[i] = f[i]
      /\ g[n] = r
  OBVIOUS
<1> HIDE DEF g
<1>4. \A l \in Orders \X DOMAIN f : l \in Orders \X DOMAIN g /\ g[l[2]] = f[l[2]]
  BY <1>3
<1>5. \A l \in Orders \X DOMAIN f :
         /\ MoneyOf(f)[l] \in Int /\ MoneyOf(g)[l] = MoneyOf(f)[l]
         /\ LotsOf(f)[l] \in Int /\ LotsOf(g)[l] = LotsOf(f)[l]
  <2>1. \A l \in Orders \X DOMAIN f : MoneyOf(f)[l] \in Int /\ LotsOf(f)[l] \in Int
    BY LegValues
  <2>2. \A l \in Orders \X DOMAIN f : MoneyOf(g)[l] = MoneyOf(f)[l] /\ LotsOf(g)[l] = LotsOf(f)[l]
    BY <1>4 DEF MoneyOf, LotsOf
  <2> QED
    BY <2>1, <2>2
<1>6. ASSUME NEW o \in {r.maker, r.taker}
      PROVE  /\ MoneyOf(g)[<<o, n>>] = Cost(o, r.qty, r.price) /\ Cost(o, r.qty, r.price) \in Int
             /\ LotsOf(g)[<<o, n>>] = r.qty
  <2>1. <<o, n>> \in Orders \X DOMAIN g /\ <<o, n>>[1] = o /\ <<o, n>>[2] = n
    BY <1>2, <1>3
  <2> QED
    BY <1>2, <1>3, <2>1, CostType DEF MoneyOf, LotsOf
<1>7. /\ Money(f, L) = SumOver(MoneyOf(f), L) /\ Lots(f, L) = SumOver(LotsOf(f), L)
      /\ Money(g, M) = SumOver(MoneyOf(g), M) /\ Lots(g, M) = SumOver(LotsOf(g), M)
  BY <1>1, MoneyIs
<1>8. ASSUME NEW v, NEW u, Agree(f, v, u)
      PROVE  /\ \A o \in {r.maker, r.taker} :
                   IsLeg(o, w, action, outcomes) /\ u[<<o, n>>] \in Int =>
                       SumOver(u, M) = SumOver(v, L) + u[<<o, n>>]
             /\ (\A o \in {r.maker, r.taker} : ~IsLeg(o, w, action, outcomes)) =>
                       SumOver(u, M) = SumOver(v, L)
  <2>1. GrowsBy(f, r, w, action, outcomes, v, u)
    BY <1>8, LegSumAppend, Zenon
  <2> QED
    BY <2>1 DEF GrowsBy, g
<1> HIDE DEF L, M, n
<1> DEFINE mf == MoneyOf(f)
           mg == MoneyOf(g)
           lf == LotsOf(f)
           lg == LotsOf(g)
<1>a. Agree(f, mf, mg) /\ Agree(f, lf, lg)
  BY <1>5 DEF Agree
<1>9. /\ \A o \in {r.maker, r.taker} : IsLeg(o, w, action, outcomes) =>
            /\ SumOver(mg, M) = SumOver(mf, L) + mg[<<o, n>>]
            /\ SumOver(lg, M) = SumOver(lf, L) + lg[<<o, n>>]
      /\ (\A o \in {r.maker, r.taker} : ~IsLeg(o, w, action, outcomes)) =>
            SumOver(mg, M) = SumOver(mf, L) /\ SumOver(lg, M) = SumOver(lf, L)
  <2>1. \A o \in {r.maker, r.taker} : mg[<<o, n>>] \in Int /\ lg[<<o, n>>] \in Int
    BY <1>2, <1>6
  <2> HIDE DEF mf, mg, lf, lg
  <2> QED
    BY <1>8, <1>a, <2>1
<1>10. ASSUME NEW o \in {r.maker, r.taker}, IsLeg(o, w, action, outcomes)
       PROVE  Money(g, M) = Money(f, L) + Cost(o, r.qty, r.price) /\ Lots(g, M) = Lots(f, L) + r.qty
  BY <1>6, <1>7, <1>9, <1>10
<1>11. ASSUME \A o \in {r.maker, r.taker} : ~IsLeg(o, w, action, outcomes)
       PROVE  Money(g, M) = Money(f, L) /\ Lots(g, M) = Lots(f, L)
  BY <1>7, <1>9, <1>11
<1> QED
  BY <1>10, <1>11 DEF L, M, g

\* What a batch brings wallet w of asset x, and what it takes.
Gain(f, w, x) == IF x = "usdc" THEN Earned(f, w) ELSE Bought(f, w, x)
Loss(f, w, x) == IF x = "usdc" THEN Spent(f, w) ELSE Sold(f, w, x)

\* The asset an order brings in; how much a fill brings and takes.
Gets(o) == IF Buys(o) THEN Order[o].outcome ELSE "usdc"
Got(o, qty, price)  == IF Buys(o) THEN qty ELSE Cost(o, qty, price)
Paid(o, qty, price) == IF Buys(o) THEN Cost(o, qty, price) ELSE qty

\* An order and the assets it moves.
LEMMA OrderType ==
  ASSUME NEW o \in Orders
  PROVE  /\ Order[o].wallet \in Wallets /\ Order[o].action \in {"buy", "sell"}
         /\ Order[o].outcome \in {"yes", "no"} /\ Order[o].type \in {"limit", "market"}
         /\ Order[o].tick \in Prices /\ Order[o].size \in Nat \ {0}
         /\ Pays(o) \in Assets /\ Gets(o) \in Assets /\ Pays(o) # Gets(o)
<1>1. Order[o] \in [wallet : Wallets, action : {"buy", "sell"}, outcome : {"yes", "no"},
                    type : {"limit", "market"}, tick : Prices, size : Nat \ {0}]
  BY ManagerAssumption
<1> QED
  BY <1>1 DEF Pays, Gets, Buys, Assets

\* Both are numbers, and nothing for an empty batch.
LEMMA GainType ==
  ASSUME NEW f \in Seq(Fill), NEW w, NEW x
  PROVE  Gain(f, w, x) \in Nat /\ Loss(f, w, x) \in Nat
BY MoneyIs DEF Gain, Loss, Earned, Spent, Bought, Sold

LEMMA NoLegs ==
  ASSUME NEW f \in Seq(Fill), NEW w, NEW x, f = <<>> \/ w \notin Parties(f)
  PROVE  Gain(f, w, x) = 0 /\ Loss(f, w, x) = 0
<1>1. ASSUME NEW action, NEW outcomes PROVE Legs(f, w, action, outcomes) = {}
  <2> SUFFICES ASSUME NEW l \in Legs(f, w, action, outcomes) PROVE FALSE
    OBVIOUS
  <2>1. /\ l[2] \in DOMAIN f /\ l[1] \in {f[l[2]].maker, f[l[2]].taker} /\ Order[l[1]].wallet = w
    BY DEF Legs
  <2>2. w \in Parties(f)
    BY <2>1 DEF Parties
  <2>3. f # <<>>
    BY <2>1
  <2> QED
    BY <2>2, <2>3
<1>2. \A action, outcomes : LET L == Legs(f, w, action, outcomes) IN Money(f, L) = 0 /\ Lots(f, L) = 0
  <2> TAKE action, outcomes
  <2> DEFINE L == Legs(f, w, action, outcomes)
  <2>1. L = {}
    BY <1>1
  <2>2. Money(f, L) = SumOver(MoneyOf(f), L) /\ Lots(f, L) = SumOver(LotsOf(f), L)
    BY MoneyIs
  <2> QED
    BY <2>1, <2>2, SumOverEmpty
<1> QED
  BY <1>2 DEF Gain, Loss, Earned, Spent, Bought, Sold

\* What one leg of a fill adds to the gains and losses of its wallet.
LEMMA FillEffect ==
  ASSUME NEW f \in Seq(Fill), NEW r \in Fill, Order[r.maker].wallet # Order[r.taker].wallet,
         NEW o \in {r.maker, r.taker}, NEW w, Order[o].wallet = w, NEW x \in Assets
  PROVE  /\ Gain(Append(f, r), w, x)
              = Gain(f, w, x) + (IF x = Gets(o) THEN Got(o, r.qty, r.price) ELSE 0)
         /\ Loss(Append(f, r), w, x)
              = Loss(f, w, x) + (IF x = Pays(o) THEN Paid(o, r.qty, r.price) ELSE 0)
<1> DEFINE g == Append(f, r)
           c == Cost(o, r.qty, r.price)
           Mo(h, action, outcomes) == Money(h, Legs(h, w, action, outcomes))
           Lo(h, action, outcomes) == Lots(h, Legs(h, w, action, outcomes))
<1>0. o \in Orders /\ r.qty \in Nat /\ c \in Nat
  BY CostType DEF Fill
<1>1. Order[o].action \in {"buy", "sell"} /\ Order[o].outcome \in {"yes", "no"}
  BY <1>0, OrderType
<1>2. ASSUME NEW action, NEW outcomes
      PROVE  /\ Mo(f, action, outcomes) \in Nat /\ Lo(f, action, outcomes) \in Nat
             /\ Mo(g, action, outcomes)
                  = Mo(f, action, outcomes)
                      + (IF Order[o].action = action /\ Order[o].outcome \in outcomes THEN c ELSE 0)
             /\ Lo(g, action, outcomes)
                  = Lo(f, action, outcomes)
                      + (IF Order[o].action = action /\ Order[o].outcome \in outcomes THEN r.qty ELSE 0)
  <2>0. Mo(f, action, outcomes) \in Nat /\ Lo(f, action, outcomes) \in Nat
    BY MoneyIs
  <2>1. CASE Order[o].action = action /\ Order[o].outcome \in outcomes
    <3>1. IsLeg(o, w, action, outcomes)
      BY <2>1 DEF IsLeg
    <3>2. Mo(g, action, outcomes) = Mo(f, action, outcomes) + c
          /\ Lo(g, action, outcomes) = Lo(f, action, outcomes) + r.qty
      BY <3>1, MoneyAppend
    <3> QED
      BY <2>0, <2>1, <3>2
  <2>2. CASE ~(Order[o].action = action /\ Order[o].outcome \in outcomes)
    <3>1. \A p \in {r.maker, r.taker} : ~IsLeg(p, w, action, outcomes)
      BY <2>2 DEF IsLeg
    <3>2. Mo(g, action, outcomes) = Mo(f, action, outcomes) /\ Lo(g, action, outcomes) = Lo(f, action, outcomes)
      BY <3>1, MoneyAppend
    <3> HIDE DEF Mo, Lo, g
    <3> QED
      BY <2>0, <2>2, <3>2
  <2> QED
    BY <2>1, <2>2
<1> HIDE DEF Mo, Lo, g, c
<1>3. /\ \A h : Earned(h, w) = Mo(h, "sell", {"yes", "no"}) /\ Spent(h, w) = Mo(h, "buy", {"yes", "no"})
      /\ \A h, y : Bought(h, w, y) = Lo(h, "buy", {y}) /\ Sold(h, w, y) = Lo(h, "sell", {y})
  BY Zenon DEF Earned, Spent, Bought, Sold, Mo, Lo
<1>4. CASE x = "usdc"
  <2>1. Gain(g, w, x) = Mo(g, "sell", {"yes", "no"}) /\ Gain(f, w, x) = Mo(f, "sell", {"yes", "no"})
        /\ Loss(g, w, x) = Mo(g, "buy", {"yes", "no"}) /\ Loss(f, w, x) = Mo(f, "buy", {"yes", "no"})
    BY <1>3, <1>4 DEF Gain, Loss
  <2>2. (x = Gets(o) <=> Order[o].action = "sell") /\ (x = Pays(o) <=> Order[o].action = "buy")
    BY <1>1, <1>4 DEF Gets, Pays, Buys
  <2> QED
    BY <1>0, <1>1, <1>2, <2>1, <2>2 DEF Got, Paid, Buys, g, c
<1>5. CASE x # "usdc"
  <2>1. Gain(g, w, x) = Lo(g, "buy", {x}) /\ Gain(f, w, x) = Lo(f, "buy", {x})
        /\ Loss(g, w, x) = Lo(g, "sell", {x}) /\ Loss(f, w, x) = Lo(f, "sell", {x})
    BY <1>3, <1>5 DEF Gain, Loss
  <2>2. /\ x = Gets(o) <=> Order[o].action = "buy" /\ Order[o].outcome \in {x}
        /\ x = Pays(o) <=> Order[o].action = "sell" /\ Order[o].outcome \in {x}
    BY <1>1, <1>5 DEF Gets, Pays, Buys
  <2> QED
    BY <1>0, <1>1, <1>2, <2>1, <2>2 DEF Got, Paid, Buys, g, c
<1> QED
  BY <1>4, <1>5

\* And nothing to those of other wallets.
LEMMA FillElsewhere ==
  ASSUME NEW f \in Seq(Fill), NEW r \in Fill, Order[r.maker].wallet # Order[r.taker].wallet,
         NEW w, w \notin {Order[r.maker].wallet, Order[r.taker].wallet}, NEW x
  PROVE  Gain(Append(f, r), w, x) = Gain(f, w, x) /\ Loss(Append(f, r), w, x) = Loss(f, w, x)
<1>1. ASSUME NEW action, NEW outcomes
      PROVE  /\ Money(Append(f, r), Legs(Append(f, r), w, action, outcomes)) = Money(f, Legs(f, w, action, outcomes))
             /\ Lots(Append(f, r), Legs(Append(f, r), w, action, outcomes)) = Lots(f, Legs(f, w, action, outcomes))
  <2>1. \A p \in {r.maker, r.taker} : ~IsLeg(p, w, action, outcomes)
    BY DEF IsLeg
  <2> QED
    BY <2>1, MoneyAppend
<1> QED
  BY <1>1, Zenon DEF Gain, Loss, Earned, Spent, Bought, Sold

-----------------------------------------------------------------------------
(* The account operations *)

AcctType == [usdc : Bal, yes : Bal, no : Bal, coll : Nat]

\* The balances of an account, by asset.
LEMMA AcctFields ==
  ASSUME NEW a \in AcctType
  PROVE  /\ DOMAIN a = {"usdc", "yes", "no", "coll"} /\ a.coll \in Nat
         /\ \A x \in Assets : /\ a[x] \in Bal /\ a[x].avail \in Nat
                              /\ a[x].locked \in Nat /\ a[x].pending \in Nat
BY DEF AcctType, Assets, Bal

\* An account whose balances and collateral are of their types is one.
LEMMA AcctIs ==
  ASSUME NEW a, a = [x \in {"usdc", "yes", "no", "coll"} |-> a[x]],
         \A x \in Assets : a[x] \in Bal, a.coll \in Nat
  PROVE  a \in AcctType
BY DEF AcctType, Assets

\* One asset and the collateral are set: the other assets stay.
Put(a, x, b, k) == [a EXCEPT ![x] = b, !.coll = k]

LEMMA PutFacts ==
  ASSUME NEW a \in AcctType, NEW x \in Assets, NEW b \in Bal, NEW k \in Nat
  PROVE  /\ Put(a, x, b, k) \in AcctType
         /\ Put(a, x, b, k)[x] = b
         /\ \A y \in Assets \ {x} : Put(a, x, b, k)[y] = a[y]
         /\ Put(a, x, b, k).coll = k
BY DEF AcctType, Assets, Put

\* A change that leaves no part below zero gives a balance again.
LEMMA ChangeFacts ==
  ASSUME NEW b \in Bal, NEW i \in Int, NEW j \in Int, NEW k \in Int,
         b.avail + i >= 0, b.locked + j >= 0, b.pending + k >= 0
  PROVE  /\ Change(b, i, j, k) \in Bal
         /\ Change(b, i, j, k).avail = b.avail + i
         /\ Change(b, i, j, k).locked = b.locked + j
         /\ Change(b, i, j, k).pending = b.pending + k
BY DEF Bal, Change

\* The move of a reservation.
LEMMA LockFacts ==
  ASSUME NEW a \in AcctType, NEW o \in Orders, NEW n \in Nat, a[Pays(o)].avail >= n
  PROVE  LET c == Lock(a, o, n)
             p == Pays(o)
         IN  /\ c \in AcctType
             /\ c[p].avail = a[p].avail - n /\ c[p].locked = a[p].locked + n
             /\ c[p].pending = a[p].pending
             /\ \A y \in Assets \ {p} : c[y] = a[y]
             /\ c.coll = IF Buys(o) THEN a.coll + n ELSE a.coll
<1> DEFINE p == Pays(o)
           b == Change(a[p], -n, n, 0)
           k == IF Buys(o) THEN a.coll + n ELSE a.coll
<1>1. p \in Assets
  BY OrderType
<1>2. /\ DOMAIN a = {"usdc", "yes", "no", "coll"} /\ a.coll \in Nat
      /\ a[p] \in Bal /\ a[p].avail \in Nat /\ a[p].locked \in Nat /\ a[p].pending \in Nat
  BY <1>1, AcctFields
<1>3. /\ b \in Bal /\ b.avail = a[p].avail - n /\ b.locked = a[p].locked + n
      /\ b.pending = a[p].pending
  BY <1>2, ChangeFacts
<1>4. k \in Nat
  BY <1>2
<1>5. Lock(a, o, n) = Put(a, p, b, k)
  <2>1. p # "coll" /\ p \in DOMAIN a
    BY <1>1, <1>2 DEF Assets
  <2> QED
    BY <2>1, <1>2 DEF Lock, Put
<1> HIDE DEF p, b, k
<1>6. /\ Put(a, p, b, k) \in AcctType /\ Put(a, p, b, k)[p] = b
      /\ \A y \in Assets \ {p} : Put(a, p, b, k)[y] = a[y]
      /\ Put(a, p, b, k).coll = k
  BY <1>1, <1>3, <1>4, PutFacts
<1> QED
  BY <1>3, <1>5, <1>6 DEF p, k

\* What a fill takes from the lock of its order, and what there is of it.
ReserveOf(o, qty, price) ==
    IF Buys(o) /\ ~MarketBuy(o) THEN reserveUnitsForLots(qty, Order[o].tick) ELSE Paid(o, qty, price)
Taken(a, o, qty, price) == Smaller(ReserveOf(o, qty, price), a[Pays(o)].locked)

LEMMA ReserveType ==
  ASSUME NEW o \in Orders, NEW q \in Nat
  PROVE  /\ reserveUnitsForLots(q, Order[o].tick) \in Nat
         /\ Required(o, q) \in Nat
         /\ \A p \in Prices : ReserveOf(o, q, p) \in Nat /\ Paid(o, q, p) \in Nat /\ Got(o, q, p) \in Nat
<1>1. Order[o].tick \in Nat /\ Order[o].tick \in Prices
  BY OrderType, ScaleAssumption DEF Prices
<1>2. reserveUnitsForLots(q, Order[o].tick) \in Nat
  <2>1. q * Order[o].tick \in Nat
    BY <1>1
  <2>2. \A z \in Nat : (z + Scale - 1) \div Scale \in Nat
    BY ScaleAssumption, DivBounds
  <2> QED
    BY <2>1, <2>2 DEF reserveUnitsForLots, ceilMulDiv
<1>3. \A p \in Prices : Cost(o, q, p) \in Nat
  BY CostType
<1> QED
  BY <1>2, <1>3 DEF Required, ReserveOf, Paid, Got

\* The smaller of two numbers.
LEMMA SmallerFacts ==
  ASSUME NEW x \in Nat, NEW y \in Nat
  PROVE  Smaller(x, y) \in Nat /\ Smaller(x, y) <= x /\ Smaller(x, y) <= y /\ Smaller(x, y) \in {x, y}
BY DEF Smaller

Set(a, x, b) == [a EXCEPT ![x] = b]

LEMMA SetFacts ==
  ASSUME NEW a \in AcctType, NEW x \in Assets, NEW b \in Bal
  PROVE  /\ Set(a, x, b) \in AcctType
         /\ Set(a, x, b)[x] = b
         /\ \A y \in Assets \ {x} : Set(a, x, b)[y] = a[y]
         /\ Set(a, x, b).coll = a.coll
BY DEF AcctType, Assets, Set

\* What applyFillForOrder does to the two assets of the order, and to nothing else.
FillDone(a, c, o, qty, price) ==
    LET p == Pays(o)
        g == Gets(o)
        t == Taken(a, o, qty, price)
    IN  /\ c \in AcctType
        /\ c[p].avail = a[p].avail + (IF Buys(o) /\ t > Cost(o, qty, price)
                                      THEN t - Cost(o, qty, price) ELSE 0)
        /\ c[p].locked = a[p].locked - t /\ c[p].pending = a[p].pending
        /\ c[g].avail = a[g].avail /\ c[g].locked = a[g].locked
        /\ c[g].pending = a[g].pending + Got(o, qty, price)
        /\ \A y \in Assets \ {p, g} : c[y] = a[y]
        /\ c.coll = IF Buys(o) THEN a.coll - Smaller(t, a.coll) ELSE a.coll

LEMMA FillFacts ==
  ASSUME NEW a \in AcctType, NEW o \in Orders, NEW q \in Nat, NEW pr \in Prices
  PROVE  FillDone(a, applyFillForOrder(a, o, q, pr), o, q, pr)
<1> DEFINE p == Pays(o)
           g == Gets(o)
           cost == Cost(o, q, pr)
           t == Taken(a, o, q, pr)
           back == IF Buys(o) /\ t > cost THEN t - cost ELSE 0
           B == Change(a[p], back, -t, 0)
           D == Change(a[g], 0, 0, Got(o, q, pr))
           k == a.coll - Smaller(t, a.coll)
<1>1. p \in Assets /\ g \in Assets /\ p # g /\ Order[o].outcome \in {"yes", "no"}
  BY OrderType
<1>2. /\ DOMAIN a = {"usdc", "yes", "no", "coll"} /\ a.coll \in Nat
      /\ a[p] \in Bal /\ a[p].avail \in Nat /\ a[p].locked \in Nat /\ a[p].pending \in Nat
      /\ a[g] \in Bal /\ a[g].avail \in Nat /\ a[g].locked \in Nat /\ a[g].pending \in Nat
  BY <1>1, AcctFields
<1>3. cost \in Nat /\ Got(o, q, pr) \in Nat /\ ReserveOf(o, q, pr) \in Nat
  BY CostType, ReserveType
<1>4. t \in Nat /\ t <= a[p].locked
  BY <1>2, <1>3, SmallerFacts DEF Taken
<1>5. back \in Nat
  BY <1>3, <1>4
<1>6. /\ B \in Bal /\ B.avail = a[p].avail + back /\ B.locked = a[p].locked - t
      /\ B.pending = a[p].pending
  <2> HIDE DEF back, t, p
  <2> QED
    BY <1>2, <1>4, <1>5, ChangeFacts
<1>7. /\ D \in Bal /\ D.avail = a[g].avail /\ D.locked = a[g].locked
      /\ D.pending = a[g].pending + Got(o, q, pr)
  <2> HIDE DEF g
  <2> QED
    BY <1>2, <1>3, ChangeFacts
<1>8. k \in Nat
  <2> HIDE DEF t
  <2>1. Smaller(t, a.coll) \in Nat /\ Smaller(t, a.coll) <= a.coll
    BY <1>2, <1>4, SmallerFacts
  <2> QED
    BY <1>2, <2>1
<1>9. CASE Buys(o)
  <2>1. p = "usdc" /\ g = Order[o].outcome
    BY <1>9 DEF Pays, Gets
  <2>2. t = Smaller(IF MarketBuy(o) THEN cost ELSE reserveUnitsForLots(q, Order[o].tick), a.usdc.locked)
    BY <1>9, <2>1 DEF Taken, ReserveOf, Paid
  <2>3. back = IF t > cost THEN t - cost ELSE 0
    BY <1>9
  <2>4. Got(o, q, pr) = q
    BY <1>9 DEF Got
  <2>5. applyFillForOrder(a, o, q, pr) = Set(Put(a, p, B, k), g, D)
    <3> DEFINE e == Put(a, p, B, k)
    <3>1. e = [a EXCEPT !.usdc = Change(@, IF t > cost THEN t - cost ELSE 0, -t, 0), !.coll = @ - Smaller(t, @)]
      <4>1. a["usdc"] = a[p]
        BY <2>1
      <4> HIDE DEF t, cost
      <4> QED
        BY <1>2, <2>1, <2>3, <4>1 DEF Put
    <3>2. applyFillForOrder(a, o, q, pr) = [e EXCEPT ![g] = Change(a[g], 0, 0, q)]
      <4> DEFINE z == Smaller(IF MarketBuy(o) THEN cost ELSE reserveUnitsForLots(q, Order[o].tick),
                              a.usdc.locked)
      <4>1. applyFillForOrder(a, o, q, pr)
              = [a EXCEPT !.usdc = Change(@, IF z > cost THEN z - cost ELSE 0, -z, 0),
                          !.coll = @ - Smaller(z, @),
                          ![Order[o].outcome] = Change(@, 0, 0, q)]
        BY <1>9 DEF applyFillForOrder
      <4>2. z = t
        BY <2>2
      <4> HIDE DEF e, z, t, g, cost
      <4> QED
        BY <2>1, <3>1, <4>1, <4>2, Zenon
    <3> HIDE DEF e, g
    <3> QED
      BY <2>4, <3>2 DEF Set, e
  <2> HIDE DEF p, g, B, D, k, t
  <2>6. /\ Put(a, p, B, k) \in AcctType /\ Put(a, p, B, k)[p] = B
        /\ \A y \in Assets \ {p} : Put(a, p, B, k)[y] = a[y]
        /\ Put(a, p, B, k).coll = k
    BY <1>1, <1>6, <1>8, PutFacts
  <2> DEFINE e == Put(a, p, B, k)
             c == Set(e, g, D)
  <2>7. c \in AcctType /\ c[g] = D /\ (\A y \in Assets \ {g} : c[y] = e[y]) /\ c.coll = e.coll
    <3> HIDE DEF e
    <3> QED
      BY <1>1, <1>7, <2>6, SetFacts DEF e
  <2> HIDE DEF c, e
  <2>8. c[p] = B /\ c.coll = k /\ \A y \in Assets \ {p, g} : c[y] = a[y]
    BY <1>1, <2>6, <2>7 DEF e
  <2>9. FillDone(a, c, o, q, pr)
    BY <1>1, <1>6, <1>7, <1>9, <2>7, <2>8 DEF FillDone, p, g, t, k
  <2> QED
    BY <2>5, <2>9 DEF c, e
<1>10. CASE ~Buys(o)
  <2>1. g = "usdc" /\ p = Order[o].outcome
    BY <1>10 DEF Pays, Gets
  <2>2. t = Smaller(q, a[p].locked) /\ back = 0 /\ Got(o, q, pr) = cost
    BY <1>10, <2>1 DEF Taken, ReserveOf, Paid, Got
  <2> DEFINE e == Set(a, p, B)
  <2>3. e = [a EXCEPT ![p] = Change(@, 0, -Smaller(q, @.locked), 0)]
    <3> HIDE DEF p, back, t
    <3> QED
      BY <2>2 DEF Set
  <2>4. applyFillForOrder(a, o, q, pr) = [e EXCEPT !.usdc = Change(a.usdc, 0, 0, cost)]
    <3>1. applyFillForOrder(a, o, q, pr)
            = [a EXCEPT ![Order[o].outcome] = Change(@, 0, -Smaller(q, @.locked), 0),
                        !.usdc = Change(@, 0, 0, cost)]
      BY <1>10 DEF applyFillForOrder
    <3> HIDE DEF e, p, cost
    <3> QED
      BY <2>1, <2>3, <3>1, Zenon
  <2>5. /\ e \in AcctType /\ e[p] = B /\ e.coll = a.coll
        /\ \A y \in Assets \ {p} : e[y] = a[y]
    <3> HIDE DEF p, B
    <3> QED
      BY <1>1, <1>6, SetFacts
  <2> HIDE DEF e
  <2>6. applyFillForOrder(a, o, q, pr) = Set(e, g, D)
    <3> HIDE DEF g, cost
    <3> QED
      BY <2>1, <2>2, <2>4 DEF Set
  <2> HIDE DEF p, g, B, D, k, t
  <2> DEFINE c == Set(e, g, D)
  <2>7. c \in AcctType /\ c[g] = D /\ (\A y \in Assets \ {g} : c[y] = e[y]) /\ c.coll = e.coll
    BY <1>1, <1>7, <2>5, SetFacts
  <2> HIDE DEF c
  <2>8. c[p] = B /\ c.coll = a.coll /\ \A y \in Assets \ {p, g} : c[y] = a[y]
    BY <1>1, <2>5, <2>7
  <2>9. FillDone(a, c, o, q, pr)
    BY <1>1, <1>6, <1>7, <1>10, <2>7, <2>8 DEF FillDone, p, g, t
  <2> QED
    BY <2>6, <2>9 DEF c
<1> QED
  BY <1>9, <1>10

\* What ReleaseOrder does.
ReleaseDone(a, c, o, n) ==
    LET p == Pays(o)
        t == Smaller(Required(o, n), a[p].locked)
    IN  /\ c \in AcctType
        /\ c[p].avail = a[p].avail + t /\ c[p].locked = a[p].locked - t /\ c[p].pending = a[p].pending
        /\ \A y \in Assets \ {p} : c[y] = a[y]
        /\ c.coll = IF Buys(o) THEN a.coll - Smaller(t, a.coll) ELSE a.coll

LEMMA ReleaseFacts ==
  ASSUME NEW a \in AcctType, NEW o \in Orders, NEW n \in Nat
  PROVE  ReleaseDone(a, ReleaseOrder(a, o, n), o, n)
<1> DEFINE p == Pays(o)
           t == Smaller(Required(o, n), a[p].locked)
           b == Change(a[p], t, -t, 0)
           k == IF Buys(o) THEN a.coll - Smaller(t, a.coll) ELSE a.coll
<1>1. p \in Assets
  BY OrderType
<1>2. /\ DOMAIN a = {"usdc", "yes", "no", "coll"} /\ a.coll \in Nat
      /\ a[p] \in Bal /\ a[p].avail \in Nat /\ a[p].locked \in Nat /\ a[p].pending \in Nat
  BY <1>1, AcctFields
<1>3. Required(o, n) \in Nat
  BY ReserveType
<1>4. t \in Nat /\ t <= a[p].locked
  BY <1>2, <1>3, SmallerFacts
<1>5. ReleaseOrder(a, o, n) = Put(a, p, b, k)
  <2> DEFINE u == Smaller(IF Buys(o) /\ releaseRefundForOrder(o, n) > 0 THEN releaseRefundForOrder(o, n)
                          ELSE Required(o, n), a[Pays(o)].locked)
  <2>1. ReleaseOrder(a, o, n) = [a EXCEPT ![Pays(o)] = Change(@, u, -u, 0),
                                          !.coll = IF Buys(o) THEN @ - Smaller(u, @) ELSE @]
    BY DEF ReleaseOrder
  <2>2. u = t
    BY DEF releaseRefundForOrder
  <2> HIDE DEF u, t
  <2> QED
    BY <2>1, <2>2, Zenon DEF Put
<1>6. /\ b \in Bal /\ b.avail = a[p].avail + t /\ b.locked = a[p].locked - t
      /\ b.pending = a[p].pending
  <2> HIDE DEF t, p
  <2> QED
    BY <1>2, <1>4, ChangeFacts
<1>7. k \in Nat
  <2> HIDE DEF t
  <2>1. Smaller(t, a.coll) \in Nat /\ Smaller(t, a.coll) <= a.coll
    BY <1>2, <1>4, SmallerFacts
  <2> QED
    BY <1>2, <2>1
<1> HIDE DEF p, b, k
<1>8. /\ Put(a, p, b, k) \in AcctType /\ Put(a, p, b, k)[p] = b
      /\ \A y \in Assets \ {p} : Put(a, p, b, k)[y] = a[y]
      /\ Put(a, p, b, k).coll = k
  BY <1>1, <1>6, <1>7, PutFacts
<1> QED
  BY <1>5, <1>6, <1>8 DEF ReleaseDone, p, k

\* The deltas of a wallet: what it gains less what it loses.
LEMMA DeltaFacts ==
  ASSUME NEW f \in Seq(Fill), NEW w
  PROVE  /\ \A x \in Assets : BatchDeltas(f, w)[x] = Gain(f, w, x) - Loss(f, w, x)
         /\ BatchDeltas(f, w).usdc = Gain(f, w, "usdc") - Loss(f, w, "usdc")
         /\ BatchDeltas(f, w).yesLocked = Loss(f, w, "yes") /\ BatchDeltas(f, w).noLocked = Loss(f, w, "no")
BY DEF BatchDeltas, Gain, Loss, Assets

\* What of the gain of a batch is transferred, and what a failed batch gives back.
Net(f, w, x) == Gain(f, w, x) - Loss(f, w, x)
Part(a, f, w, x) == IF Net(f, w, x) > 0 THEN Smaller(Net(f, w, x), a[x].pending) ELSE 0
Returned(f, w, x) ==
    IF x = "usdc" THEN (IF Net(f, w, x) < 0 THEN -Net(f, w, x) ELSE 0) ELSE Loss(f, w, x)

LEMMA PartType ==
  ASSUME NEW a \in AcctType, NEW f \in Seq(Fill), NEW w, NEW x \in Assets
  PROVE  /\ Net(f, w, x) \in Int
         /\ Part(a, f, w, x) \in Nat /\ Part(a, f, w, x) <= a[x].pending
         /\ Transferable(a, BatchDeltas(f, w), x) = Part(a, f, w, x)
         /\ Returned(f, w, x) \in Nat
<1>1. Gain(f, w, x) \in Nat /\ Loss(f, w, x) \in Nat
  BY GainType
<1>2. Net(f, w, x) \in Int
  BY <1>1 DEF Net
<1>3. a[x].pending \in Nat
  BY AcctFields
<1>4. Part(a, f, w, x) \in Nat /\ Part(a, f, w, x) <= a[x].pending
  <2>1. CASE Net(f, w, x) > 0
    <3>1. Net(f, w, x) \in Nat
      BY <1>2, <2>1
    <3> QED
      BY <1>3, <2>1, <3>1, SmallerFacts DEF Part
  <2>2. CASE ~(Net(f, w, x) > 0)
    BY <1>3, <2>2 DEF Part
  <2> QED
    BY <2>1, <2>2
<1>5. Transferable(a, BatchDeltas(f, w), x) = Part(a, f, w, x)
  BY DeltaFacts DEF Transferable, Part, Net
<1>6. Returned(f, w, x) \in Nat
  BY <1>1, <1>2 DEF Returned
<1> QED
  BY <1>2, <1>4, <1>5, <1>6

\* The two ways a batch ends, for an account.
ConfirmDone(a, c, f, w) ==
    /\ c \in AcctType /\ c.coll = a.coll
    /\ \A x \in Assets : /\ c[x].avail = a[x].avail + Part(a, f, w, x) /\ c[x].locked = a[x].locked
                         /\ c[x].pending = a[x].pending - Part(a, f, w, x)

FailDone(a, c, f, w) ==
    /\ c \in AcctType /\ c.coll = a.coll
    /\ \A x \in Assets : /\ c[x].avail = a[x].avail + Returned(f, w, x) /\ c[x].locked = a[x].locked
                         /\ c[x].pending = a[x].pending - Part(a, f, w, x)

LEMMA ConfirmFacts ==
  ASSUME NEW a \in AcctType, NEW f \in Seq(Fill), NEW w
  PROVE  ConfirmDone(a, ConfirmedForWallet(a, BatchDeltas(f, w)), f, w)
<1> DEFINE c == ConfirmedForWallet(a, BatchDeltas(f, w))
<1>1. DOMAIN a = {"usdc", "yes", "no", "coll"} /\ a.coll \in Nat
  BY AcctFields
<1>2. c = [x \in {"usdc", "yes", "no", "coll"} |-> c[x]] /\ c.coll = a.coll
  BY <1>1 DEF ConfirmedForWallet
<1>3. ASSUME NEW x \in Assets
      PROVE  /\ c[x] \in Bal /\ c[x].avail = a[x].avail + Part(a, f, w, x) /\ c[x].locked = a[x].locked
             /\ c[x].pending = a[x].pending - Part(a, f, w, x)
  <2> DEFINE t == Part(a, f, w, x)
  <2>1. t \in Nat /\ t <= a[x].pending /\ Transferable(a, BatchDeltas(f, w), x) = t
    BY PartType
  <2>2. c[x] = Change(a[x], t, 0, -t)
    <3>1. x \in DOMAIN a /\ x # "coll"
      BY <1>1 DEF Assets
    <3> HIDE DEF t
    <3> QED
      BY <2>1, <3>1 DEF ConfirmedForWallet
  <2>3. a[x] \in Bal /\ a[x].avail \in Nat /\ a[x].locked \in Nat /\ a[x].pending \in Nat
    BY AcctFields
  <2> HIDE DEF c, t
  <2> QED
    BY <2>1, <2>2, <2>3, ChangeFacts DEF t
<1> HIDE DEF c
<1>4. c \in AcctType
  BY <1>1, <1>2, <1>3, AcctIs
<1> QED
  BY <1>2, <1>3, <1>4 DEF ConfirmDone, c

LEMMA FailFacts ==
  ASSUME NEW a \in AcctType, NEW f \in Seq(Fill), NEW w
  PROVE  FailDone(a, FailedForWallet(a, BatchDeltas(f, w)), f, w)
<1> DEFINE d == BatchDeltas(f, w)
           c == FailedForWallet(a, d)
           back == [usdc |-> IF d.usdc < 0 THEN -d.usdc ELSE 0, yes |-> d.yesLocked, no |-> d.noLocked]
<1>1. DOMAIN a = {"usdc", "yes", "no", "coll"} /\ a.coll \in Nat
  BY AcctFields
<1>2. c = [x \in {"usdc", "yes", "no", "coll"} |->
             IF x = "coll" THEN a[x] ELSE Change(a[x], back[x], 0, -Transferable(a, d, x))]
  BY <1>1 DEF FailedForWallet
<1>3. /\ back["usdc"] = Returned(f, w, "usdc") /\ back["yes"] = Returned(f, w, "yes")
      /\ back["no"] = Returned(f, w, "no")
  BY DeltaFacts DEF Returned, Net
<1>4. ASSUME NEW x \in Assets
      PROVE  /\ c[x] \in Bal /\ c[x].avail = a[x].avail + Returned(f, w, x) /\ c[x].locked = a[x].locked
             /\ c[x].pending = a[x].pending - Part(a, f, w, x)
  <2> DEFINE t == Part(a, f, w, x)
             r == Returned(f, w, x)
  <2>1. t \in Nat /\ t <= a[x].pending /\ Transferable(a, BatchDeltas(f, w), x) = t /\ r \in Nat
    BY PartType
  <2>2. c[x] = Change(a[x], r, 0, -t)
    <3>1. x \in {"usdc", "yes", "no", "coll"} /\ x # "coll" /\ back[x] = r
      BY <1>3 DEF Assets
    <3> HIDE DEF t, r, back, c
    <3> QED
      BY <1>2, <2>1, <3>1
  <2>3. a[x] \in Bal /\ a[x].avail \in Nat /\ a[x].locked \in Nat /\ a[x].pending \in Nat
    BY AcctFields
  <2> HIDE DEF c, t, r
  <2>4. a[x].avail + r >= 0 /\ a[x].locked + 0 >= 0 /\ a[x].pending + (-t) >= 0
    BY <2>1, <2>3
  <2>5. /\ Change(a[x], r, 0, -t) \in Bal /\ Change(a[x], r, 0, -t).avail = a[x].avail + r
        /\ Change(a[x], r, 0, -t).locked = a[x].locked + 0
        /\ Change(a[x], r, 0, -t).pending = a[x].pending + (-t)
    BY <2>1, <2>3, <2>4, ChangeFacts
  <2>6. /\ c[x] \in Bal /\ c[x].avail = a[x].avail + r /\ c[x].locked = a[x].locked
        /\ c[x].pending = a[x].pending - t
    BY <2>1, <2>2, <2>3, <2>5
  <2> QED
    BY <2>6 DEF t, r
<1>5. c = [x \in {"usdc", "yes", "no", "coll"} |-> c[x]] /\ c.coll = a.coll
  <2> DEFINE E(x) == IF x = "coll" THEN a[x] ELSE Change(a[x], back[x], 0, -Transferable(a, d, x))
  <2>1. c = [x \in {"usdc", "yes", "no", "coll"} |-> E(x)] /\ E("coll") = a["coll"]
    BY <1>2
  <2> HIDE DEF c, E
  <2> QED
    BY <2>1
<1> HIDE DEF c
<1>6. c \in AcctType
  BY <1>1, <1>4, <1>5, AcctIs
<1> QED
  BY <1>4, <1>5, <1>6 DEF FailDone, c

\* A deposit or a withdrawal.
TransferDone(a, c, t) ==
    /\ c \in AcctType /\ c.coll = a.coll
    /\ Unpaid(a, t) \in Nat
    /\ c.usdc.avail = a.usdc.avail + (IF t.kind = "deposit" THEN t.amount ELSE -t.amount) + Unpaid(a, t)
    /\ c.usdc.locked = a.usdc.locked /\ c.usdc.pending = a.usdc.pending
    /\ c.yes = a.yes /\ c.no = a.no

LEMMA TransferFacts ==
  ASSUME NEW a \in AcctType, NEW t \in Transfers
  PROVE  TransferDone(a, Transferred(a, t), t)
<1> DEFINE n == IF t.kind = "deposit" THEN t.amount ELSE -Smaller(t.amount, a.usdc.avail)
           b == Change(a.usdc, n, 0, 0)
<1>1. t.amount \in Nat
  BY ManagerAssumption
<1>2. a["usdc"] \in Bal /\ a.usdc.avail \in Nat /\ a.usdc.locked \in Nat /\ a.usdc.pending \in Nat
  BY AcctFields DEF Assets
<1>3. /\ Smaller(t.amount, a.usdc.avail) \in Nat /\ Smaller(t.amount, a.usdc.avail) <= t.amount
      /\ Smaller(t.amount, a.usdc.avail) <= a.usdc.avail
  BY <1>1, <1>2, SmallerFacts
<1>4. n \in Int /\ a.usdc.avail + n >= 0
  BY <1>1, <1>2, <1>3
<1>5. Unpaid(a, t) \in Nat /\ n = (IF t.kind = "deposit" THEN t.amount ELSE -t.amount) + Unpaid(a, t)
  BY <1>1, <1>3 DEF Unpaid
<1>6. Transferred(a, t) = Set(a, "usdc", b)
  BY DEF Transferred, Set
<1> HIDE DEF n
<1>7. /\ b \in Bal /\ b.avail = a.usdc.avail + n /\ b.locked = a.usdc.locked
      /\ b.pending = a.usdc.pending
  BY <1>2, <1>4, ChangeFacts
<1> HIDE DEF b
<1>8. /\ Set(a, "usdc", b) \in AcctType /\ Set(a, "usdc", b)["usdc"] = b
      /\ \A y \in Assets \ {"usdc"} : Set(a, "usdc", b)[y] = a[y]
      /\ Set(a, "usdc", b).coll = a.coll
  BY <1>7, SetFacts DEF Assets
<1>9. b.avail = a.usdc.avail + (IF t.kind = "deposit" THEN t.amount ELSE -t.amount) + Unpaid(a, t)
  BY <1>1, <1>2, <1>5, <1>7
<1> QED
  BY <1>5, <1>6, <1>7, <1>8, <1>9 DEF TransferDone, Assets

-----------------------------------------------------------------------------
(* The sums that the invariant relates the accounts to *)

Phases == {"none", "filling", "applied", "confirmed", "failed"}

EvType ==
    [count : Nat, booked : SUBSET Orders, left : [Orders -> Nat], ended : [Orders -> Nat],
     again : SUBSET Orders, phase : [Batches -> Phases], fills : [Batches -> Seq(Fill)],
     moved : SUBSET Transfers, short : [Wallets -> [Assets -> Nat]],
     strained : SUBSET Wallets, netted : SUBSET Wallets]

FlightOf(e) == {b \in Batches : e.phase[b] \in {"filling", "applied"}}
StandOf(e)  == {b \in Batches : e.phase[b] \in {"filling", "applied", "confirmed"}}
OpenOf(e, w, x) == {o \in e.booked : Order[o].wallet = w /\ Pays(o) = x}
MovedOf(e, w) == {t \in e.moved : t.wallet = w}

Gains(e, w, x) == [b \in Batches |-> Gain(e.fills[b], w, x)]
Nets(e, w, x) == [b \in Batches |-> Net(e.fills[b], w, x)]
Needs(e) == [o \in Orders |-> Required(o, e.left[o])]
Worth == [t \in Transfers |-> IF t.kind = "deposit" THEN t.amount ELSE -t.amount]

\* What the batches in flight will bring a wallet, what the batches that stand
\* brought it less what they cost, what its open orders need, and what was
\* deposited less what was withdrawn.
Coming(e, w, x) == SumOver(Gains(e, w, x), FlightOf(e))
Stands(e, w, x) == SumOver(Nets(e, w, x), StandOf(e))
Needed(e, w, x) == SumOver(Needs(e), OpenOf(e, w, x))
Moved(e, w)     == SumOver(Worth, MovedOf(e, w))

\* The fields of the events, and their types.
LEMMA EvFields ==
  ASSUME NEW e \in EvType
  PROVE  /\ e.count \in Nat /\ e.booked \subseteq Orders /\ e.left \in [Orders -> Nat]
         /\ e.ended \in [Orders -> Nat] /\ e.again \subseteq Orders
         /\ e.phase \in [Batches -> Phases] /\ e.fills \in [Batches -> Seq(Fill)]
         /\ e.moved \subseteq Transfers /\ e.short \in [Wallets -> [Assets -> Nat]]
         /\ e.strained \subseteq Wallets /\ e.netted \subseteq Wallets
BY DEF EvType

\* The sums are over finite sets of numbers.
LEMMA SumTerms ==
  ASSUME NEW e \in EvType, NEW w, NEW x
  PROVE  /\ IsFiniteSet(FlightOf(e)) /\ IsFiniteSet(StandOf(e))
         /\ IsFiniteSet(OpenOf(e, w, x)) /\ IsFiniteSet(MovedOf(e, w))
         /\ \A b \in Batches : /\ Gains(e, w, x)[b] = Gain(e.fills[b], w, x) /\ Gains(e, w, x)[b] \in Nat
                               /\ Nets(e, w, x)[b] = Net(e.fills[b], w, x) /\ Nets(e, w, x)[b] \in Int
         /\ \A o \in Orders : Needs(e)[o] = Required(o, e.left[o]) /\ Needs(e)[o] \in Nat
         /\ \A t \in Transfers : Worth[t] \in Int
<1>1. /\ e.booked \subseteq Orders /\ e.left \in [Orders -> Nat]
      /\ e.fills \in [Batches -> Seq(Fill)] /\ e.moved \subseteq Transfers
  BY EvFields
<1>2. IsFiniteSet(Orders) /\ IsFiniteSet(Batches) /\ IsFiniteSet(Transfers)
  BY ManagerAssumption
<1>3. /\ FlightOf(e) \subseteq Batches /\ StandOf(e) \subseteq Batches
      /\ OpenOf(e, w, x) \subseteq Orders /\ MovedOf(e, w) \subseteq Transfers
  BY <1>1 DEF FlightOf, StandOf, OpenOf, MovedOf
<1>4. /\ IsFiniteSet(FlightOf(e)) /\ IsFiniteSet(StandOf(e))
      /\ IsFiniteSet(OpenOf(e, w, x)) /\ IsFiniteSet(MovedOf(e, w))
  BY <1>2, <1>3, FS_Subset
<1>5. ASSUME NEW b \in Batches
      PROVE  /\ Gains(e, w, x)[b] = Gain(e.fills[b], w, x) /\ Gains(e, w, x)[b] \in Nat
             /\ Nets(e, w, x)[b] = Net(e.fills[b], w, x) /\ Nets(e, w, x)[b] \in Int
  <2>1. e.fills[b] \in Seq(Fill)
    BY <1>1
  <2>2. Gain(e.fills[b], w, x) \in Nat /\ Loss(e.fills[b], w, x) \in Nat
    BY <2>1, GainType
  <2> QED
    BY <2>2 DEF Gains, Nets, Net
<1>6. ASSUME NEW o \in Orders
      PROVE  Needs(e)[o] = Required(o, e.left[o]) /\ Needs(e)[o] \in Nat
  <2>1. e.left[o] \in Nat
    BY <1>1
  <2>2. Required(o, e.left[o]) \in Nat
    BY <2>1, ReserveType
  <2> QED
    BY <2>2 DEF Needs
<1>7. \A t \in Transfers : Worth[t] \in Int
  BY ManagerAssumption DEF Worth
<1> QED
  BY <1>4, <1>5, <1>6, <1>7

\* The four sums are numbers.
LEMMA SumTypes ==
  ASSUME NEW e \in EvType, NEW w, NEW x
  PROVE  /\ Coming(e, w, x) \in Nat /\ Stands(e, w, x) \in Int
         /\ Needed(e, w, x) \in Nat /\ Moved(e, w) \in Int
<1>1. \A b \in FlightOf(e) : Gains(e, w, x)[b] \in Nat
  BY SumTerms DEF FlightOf
<1>2. \A b \in StandOf(e) : Nets(e, w, x)[b] \in Int
  BY SumTerms DEF StandOf
<1>3. \A o \in OpenOf(e, w, x) : Needs(e)[o] \in Nat
  BY SumTerms, EvFields DEF OpenOf
<1>4. \A t \in MovedOf(e, w) : Worth[t] \in Int
  BY SumTerms, EvFields DEF MovedOf
<1>5. /\ IsFiniteSet(FlightOf(e)) /\ IsFiniteSet(StandOf(e))
      /\ IsFiniteSet(OpenOf(e, w, x)) /\ IsFiniteSet(MovedOf(e, w))
  BY SumTerms
<1>6. Coming(e, w, x) \in Nat
  BY <1>1, <1>5, SumOverNat DEF Coming
<1>7. Stands(e, w, x) \in Int
  BY <1>2, <1>5, SumOverType DEF Stands
<1>8. Needed(e, w, x) \in Nat
  BY <1>3, <1>5, SumOverNat DEF Needed
<1>9. Moved(e, w) \in Int
  BY <1>4, <1>5, SumOverType DEF Moved
<1> QED
  BY <1>6, <1>7, <1>8, <1>9

\* They depend on the phases and fills, on the orders booked and what is left
\* of them, and on the transfers.
LEMMA SumsSame ==
  ASSUME NEW e, NEW g
  PROVE  /\ g.fills = e.fills /\ g.phase = e.phase =>
               \A w, x : Coming(g, w, x) = Coming(e, w, x) /\ Stands(g, w, x) = Stands(e, w, x)
         /\ g.booked = e.booked /\ g.left = e.left => \A w, x : Needed(g, w, x) = Needed(e, w, x)
         /\ g.moved = e.moved => \A w : Moved(g, w) = Moved(e, w)
<1>1. ASSUME g.fills = e.fills, g.phase = e.phase, NEW w, NEW x
      PROVE  Coming(g, w, x) = Coming(e, w, x) /\ Stands(g, w, x) = Stands(e, w, x)
  BY <1>1 DEF Coming, Stands, Gains, Nets, FlightOf, StandOf
<1>2. ASSUME g.booked = e.booked, g.left = e.left, NEW w, NEW x
      PROVE  Needed(g, w, x) = Needed(e, w, x)
  BY <1>2 DEF Needed, Needs, OpenOf
<1>3. ASSUME g.moved = e.moved, NEW w
      PROVE  Moved(g, w) = Moved(e, w)
  BY <1>3 DEF Moved, MovedOf
<1> QED
  BY <1>1, <1>2, <1>3

\* A handler that reaches the end of its batch changes none of them.
LEMMA SumsEnd ==
  ASSUME NEW e \in EvType, NEW g, NEW b \in Batches, e.phase[b] = "filling",
         g.fills = e.fills, g.phase = [e.phase EXCEPT ![b] = "applied"], NEW w, NEW x
  PROVE  Coming(g, w, x) = Coming(e, w, x) /\ Stands(g, w, x) = Stands(e, w, x)
<1>1. e.phase \in [Batches -> Phases]
  BY EvFields
<1>2. FlightOf(g) = FlightOf(e) /\ StandOf(g) = StandOf(e)
  BY <1>1 DEF FlightOf, StandOf
<1>3. Gains(g, w, x) = Gains(e, w, x) /\ Nets(g, w, x) = Nets(e, w, x)
  BY DEF Gains, Nets
<1> QED
  BY <1>2, <1>3 DEF Coming, Stands

\* One term changes, or one that was nothing is added.
TermSet(f, g, S, b) ==
    /\ \A y \in S \union {b} : f[y] \in Int /\ g[y] \in Int
    /\ \A y \in S \ {b} : g[y] = f[y]
    /\ b \notin S => f[b] = 0

LEMMA SumOverSet ==
  ASSUME NEW S, IsFiniteSet(S), NEW f, NEW g, NEW b, TermSet(f, g, S, b)
  PROVE  SumOver(g, S \union {b}) = SumOver(f, S) + (g[b] - f[b])
<1>0. /\ \A y \in S \union {b} : f[y] \in Int /\ g[y] \in Int
      /\ \A y \in S \ {b} : g[y] = f[y]
      /\ b \notin S => f[b] = 0
  BY DEF TermSet
<1>1. CASE b \in S
  <2>1. S \union {b} = S
    BY <1>1
  <2>2. SumOver(g, S) = SumOver(f, S) + (g[b] - f[b])
    BY <1>0, <1>1, SumOverChange
  <2> QED
    BY <2>1, <2>2
<1>2. CASE b \notin S
  <2>1. SumOver(g, S \union {b}) = g[b] + SumOver(g, S)
    BY <1>0, <1>2, SumOverAdd
  <2>2. SumOver(g, S) = SumOver(f, S)
    BY <1>0, <1>2, SumOverSame
  <2>3. SumOver(f, S) \in Int
    BY <1>0, SumOverType
  <2>4. f[b] = 0 /\ g[b] \in Int
    BY <1>0, <1>2
  <2> QED
    BY <2>1, <2>2, <2>3, <2>4
<1> QED
  BY <1>1, <1>2

\* A batch without a phase has no fills.
Unstarted(e) == \A b \in Batches : e.phase[b] = "none" => e.fills[b] = <<>>

\* The events after a fill, except for what it did not find.
Fills(e, g, b, m, t, q, pr) ==
    /\ e.phase[b] \in {"none", "filling"}
    /\ g.phase = [e.phase EXCEPT ![b] = "filling"]
    /\ g.fills = [e.fills EXCEPT ![b] = Append(@, [maker |-> m, taker |-> t, qty |-> q, price |-> pr])]
    /\ g.left = [o \in Orders |-> e.left[o] - IF o \in {m, t} THEN Used(o, q, pr) ELSE 0]
    /\ g.strained = e.strained \union
          {Order[o].wallet : o \in {o \in {m, t} : o \notin e.booked \/ Rounds(o, e.left[o], Used(o, q, pr))}}
    /\ g.booked = e.booked /\ g.moved = e.moved /\ g.netted = e.netted

\* The sums after a fill, for a wallet.
FilledSums(e, g, b, f, w, x) ==
    /\ Coming(g, w, x) = Coming(e, w, x) + (Gain(f, w, x) - Gain(e.fills[b], w, x))
    /\ Stands(g, w, x) = Stands(e, w, x) + (Net(f, w, x) - Net(e.fills[b], w, x))

LEMMA SumsFill ==
  ASSUME NEW e \in EvType, Unstarted(e), NEW g \in EvType, NEW b \in Batches, NEW m, NEW t, NEW q, NEW pr,
         Fills(e, g, b, m, t, q, pr), NEW w, NEW x,
         NEW new, new = Append(e.fills[b], [maker |-> m, taker |-> t, qty |-> q, price |-> pr])
  PROVE  FilledSums(e, g, b, new, w, x)
<1>1. /\ e.phase[b] \in {"none", "filling"} /\ g.phase = [e.phase EXCEPT ![b] = "filling"]
      /\ g.fills = [e.fills EXCEPT ![b] = new]
  BY DEF Fills
<1>2. e.fills \in [Batches -> Seq(Fill)] /\ g.fills \in [Batches -> Seq(Fill)]
  BY EvFields
<1>3. g.fills[b] = new /\ \A c \in Batches \ {b} : g.fills[c] = e.fills[c]
  BY <1>1, <1>2
<1>4. e.phase[b] = "none" => e.fills[b] = <<>>
  BY DEF Unstarted
<1>5. e.phase \in [Batches -> Phases] /\ e.fills[b] \in Seq(Fill)
  BY EvFields
<1>6. FlightOf(g) = FlightOf(e) \union {b} /\ StandOf(g) = StandOf(e) \union {b}
  BY <1>1, <1>5 DEF FlightOf, StandOf
<1>7. b \notin FlightOf(e) \/ b \notin StandOf(e) => Gain(e.fills[b], w, x) = 0 /\ Net(e.fills[b], w, x) = 0
  <2> SUFFICES ASSUME e.phase[b] = "none" PROVE Gain(e.fills[b], w, x) = 0 /\ Net(e.fills[b], w, x) = 0
    BY <1>1 DEF FlightOf, StandOf
  <2>1. Gain(e.fills[b], w, x) = 0 /\ Loss(e.fills[b], w, x) = 0
    BY <1>4, <1>5, NoLegs
  <2> QED
    BY <2>1 DEF Net
<1>8. /\ IsFiniteSet(FlightOf(e)) /\ IsFiniteSet(StandOf(e))
      /\ \A c \in Batches : /\ Gains(e, w, x)[c] = Gain(e.fills[c], w, x) /\ Gains(e, w, x)[c] \in Nat
                            /\ Nets(e, w, x)[c] = Net(e.fills[c], w, x) /\ Nets(e, w, x)[c] \in Int
      /\ \A c \in Batches : /\ Gains(g, w, x)[c] = Gain(g.fills[c], w, x) /\ Gains(g, w, x)[c] \in Nat
                            /\ Nets(g, w, x)[c] = Net(g.fills[c], w, x) /\ Nets(g, w, x)[c] \in Int
  BY SumTerms
<1>9. FlightOf(e) \subseteq Batches /\ StandOf(e) \subseteq Batches
  BY DEF FlightOf, StandOf
<1> DEFINE F == FlightOf(e)
           S == StandOf(e)
           f == Gains(e, w, x)
           h == Gains(g, w, x)
           k == Nets(e, w, x)
           l == Nets(g, w, x)
<1>10. TermSet(f, h, F, b)
  BY <1>3, <1>7, <1>8, <1>9 DEF TermSet
<1>11. TermSet(k, l, S, b)
  BY <1>3, <1>7, <1>8, <1>9 DEF TermSet
<1>12. IsFiniteSet(F) /\ IsFiniteSet(S)
  BY <1>8
<1>13. /\ f[b] = Gain(e.fills[b], w, x) /\ h[b] = Gain(g.fills[b], w, x)
      /\ k[b] = Net(e.fills[b], w, x) /\ l[b] = Net(g.fills[b], w, x)
  BY <1>8
<1>14. Coming(e, w, x) = SumOver(f, F) /\ Coming(g, w, x) = SumOver(h, F \union {b})
  BY <1>6 DEF Coming
<1>15. Stands(e, w, x) = SumOver(k, S) /\ Stands(g, w, x) = SumOver(l, S \union {b})
  BY <1>6 DEF Stands
<1> HIDE DEF F, S, f, h, k, l
<1>16. SumOver(h, F \union {b}) = SumOver(f, F) + (h[b] - f[b])
  BY <1>10, <1>12, SumOverSet
<1>17. SumOver(l, S \union {b}) = SumOver(k, S) + (l[b] - k[b])
  BY <1>11, <1>12, SumOverSet
<1> QED
  BY <1>3, <1>13, <1>14, <1>15, <1>16, <1>17 DEF FilledSums

\* The events after the outcome of batch b.
Settles(e, g, b, outcome) ==
    /\ e.phase[b] = "applied" /\ g.phase = [e.phase EXCEPT ![b] = outcome] /\ g.fills = e.fills
    /\ g.booked = e.booked /\ g.left = e.left /\ g.moved = e.moved /\ g.short = e.short
    /\ g.netted = e.netted \union Netted(e.fills[b]) /\ g.strained = e.strained

\* A settled batch is no longer in flight, and stands if it was confirmed.
SettledSums(e, g, b, outcome, w, x) ==
    /\ Coming(e, w, x) = Coming(g, w, x) + Gain(e.fills[b], w, x) /\ Coming(g, w, x) \in Nat
    /\ Stands(e, w, x) = Stands(g, w, x) + (IF outcome = "failed" THEN Net(e.fills[b], w, x) ELSE 0)

LEMMA SumsSettle ==
  ASSUME NEW e \in EvType, NEW g, NEW b \in Batches, NEW outcome \in {"confirmed", "failed"},
         Settles(e, g, b, outcome), NEW w, NEW x
  PROVE  SettledSums(e, g, b, outcome, w, x)
<1>0. e.phase[b] = "applied" /\ g.phase = [e.phase EXCEPT ![b] = outcome] /\ g.fills = e.fills
  BY DEF Settles
<1>1. e.phase \in [Batches -> Phases]
  BY EvFields
<1> DEFINE F == FlightOf(e)
           S == StandOf(e)
           f == Gains(e, w, x)
           k == Nets(e, w, x)
<1>2. FlightOf(g) = F \ {b} /\ b \in F
  BY <1>0, <1>1 DEF FlightOf
<1>3. StandOf(g) = (IF outcome = "failed" THEN S \ {b} ELSE S) /\ b \in S
  BY <1>0, <1>1 DEF StandOf
<1>4. Gains(g, w, x) = f /\ Nets(g, w, x) = k
  BY <1>0 DEF Gains, Nets
<1>5. /\ IsFiniteSet(F) /\ IsFiniteSet(S) /\ F \subseteq Batches /\ S \subseteq Batches
      /\ \A c \in Batches : f[c] \in Nat /\ k[c] \in Int
      /\ f[b] = Gain(e.fills[b], w, x) /\ k[b] = Net(e.fills[b], w, x)
  <2>1. F \subseteq Batches /\ S \subseteq Batches
    BY DEF FlightOf, StandOf
  <2> HIDE DEF F, S
  <2> QED
    BY <2>1, SumTerms DEF F, S
<1>6. Coming(e, w, x) = SumOver(f, F) /\ Coming(g, w, x) = SumOver(f, F \ {b})
  BY <1>2, <1>4 DEF Coming
<1>7. /\ Stands(e, w, x) = SumOver(k, S)
      /\ Stands(g, w, x) = SumOver(k, IF outcome = "failed" THEN S \ {b} ELSE S)
  BY <1>3, <1>4 DEF Stands
<1> HIDE DEF F, S, f, k
<1>8. SumOver(f, F) = f[b] + SumOver(f, F \ {b}) /\ SumOver(f, F \ {b}) \in Nat
  <2>1. (\A c \in F : f[c] \in Int) /\ \A c \in F \ {b} : f[c] \in Nat
    BY <1>5
  <2>2. IsFiniteSet(F \ {b})
    BY <1>5, FS_Subset
  <2>3. SumOver(f, F) = f[b] + SumOver(f, F \ {b})
    BY <1>2, <1>5, <2>1, SumOverRemove
  <2>4. SumOver(f, F \ {b}) \in Nat
    BY <2>1, <2>2, SumOverNat
  <2> QED
    BY <2>3, <2>4
<1>9. SumOver(k, S) = k[b] + SumOver(k, S \ {b}) /\ SumOver(k, S \ {b}) \in Int /\ SumOver(k, S) \in Int
  <2>1. (\A c \in S : k[c] \in Int) /\ \A c \in S \ {b} : k[c] \in Int
    BY <1>5
  <2>2. IsFiniteSet(S \ {b})
    BY <1>5, FS_Subset
  <2>3. SumOver(k, S) = k[b] + SumOver(k, S \ {b})
    BY <1>3, <1>5, <2>1, SumOverRemove
  <2>4. SumOver(k, S \ {b}) \in Int /\ SumOver(k, S) \in Int
    BY <1>5, <2>1, <2>2, SumOverType
  <2> QED
    BY <2>3, <2>4
<1>10. f[b] \in Nat /\ k[b] \in Int
  BY <1>5
<1>11. Coming(e, w, x) = Coming(g, w, x) + f[b] /\ Coming(g, w, x) \in Nat
  BY <1>6, <1>8, <1>10
<1>12. Stands(e, w, x) = Stands(g, w, x) + (IF outcome = "failed" THEN k[b] ELSE 0)
  <2>1. CASE outcome = "failed"
    BY <1>7, <1>9, <1>10, <2>1
  <2>2. CASE outcome # "failed"
    BY <1>7, <1>9, <2>2
  <2> QED
    BY <2>1, <2>2
<1> QED
  BY <1>5, <1>11, <1>12 DEF SettledSums

\* A reserved order needs its reserve.
LEMMA NeededBooked ==
  ASSUME NEW e \in EvType, NEW g, NEW o \in Orders, o \notin e.booked,
         g.booked = e.booked \union {o}, g.left = e.left, NEW w, NEW x
  PROVE  Needed(g, w, x) = Needed(e, w, x)
            + (IF Order[o].wallet = w /\ Pays(o) = x THEN Required(o, e.left[o]) ELSE 0)
<1> DEFINE S == OpenOf(e, w, x)
           f == Needs(e)
<1>1. Needs(g) = f
  BY DEF Needs
<1>2. IsFiniteSet(S) /\ f[o] = Required(o, e.left[o]) /\ \A p \in Orders : f[p] \in Nat
  BY SumTerms
<1>3. S \subseteq Orders /\ o \notin S
  BY EvFields DEF OpenOf
<1>4. OpenOf(g, w, x) = IF Order[o].wallet = w /\ Pays(o) = x THEN S \union {o} ELSE S
  BY DEF OpenOf
<1>5. Needed(e, w, x) = SumOver(f, S) /\ Needed(g, w, x) = SumOver(f, OpenOf(g, w, x))
  BY <1>1 DEF Needed
<1>6. SumOver(f, S) \in Nat
  BY <1>5, SumTypes
<1> HIDE DEF S, f
<1>7. SumOver(f, S \union {o}) = f[o] + SumOver(f, S)
  <2>1. \A y \in S \union {o} : f[y] \in Int
    BY <1>2, <1>3
  <2> QED
    BY <1>2, <1>3, <2>1, SumOverAdd
<1>8. CASE Order[o].wallet = w /\ Pays(o) = x
  BY <1>2, <1>4, <1>5, <1>6, <1>7, <1>8
<1>9. CASE ~(Order[o].wallet = w /\ Pays(o) = x)
  BY <1>4, <1>5, <1>6, <1>9
<1> QED
  BY <1>8, <1>9

\* Of the wallet's open orders only o has less left.
OnlyLeft(e, g, w, x, o) == \A p \in OpenOf(e, w, x) \ {o} : g.left[p] = e.left[p]

\* What the wallet needs changes by what that order needs less.
NeedsLess(e, g, w, x, o) ==
    /\ o \in OpenOf(e, w, x) => Needed(g, w, x) = Needed(e, w, x)
                                    + (Required(o, g.left[o]) - Required(o, e.left[o]))
    /\ o \notin OpenOf(e, w, x) => Needed(g, w, x) = Needed(e, w, x)

LEMMA NeededLeft ==
  ASSUME NEW e \in EvType, NEW g \in EvType, NEW o \in Orders, g.booked = e.booked, NEW w, NEW x,
         OnlyLeft(e, g, w, x, o)
  PROVE  NeedsLess(e, g, w, x, o)
<1> DEFINE S == OpenOf(e, w, x)
           f == Needs(e)
           h == Needs(g)
<1>1. OpenOf(g, w, x) = S
  BY DEF OpenOf
<1>2. IsFiniteSet(S) /\ S \subseteq Orders
  <2>1. S \subseteq Orders
    BY EvFields DEF OpenOf
  <2> QED
    BY <2>1, SumTerms
<1>3. /\ \A p \in Orders : f[p] = Required(p, e.left[p]) /\ f[p] \in Nat
      /\ \A p \in Orders : h[p] = Required(p, g.left[p]) /\ h[p] \in Nat
  BY SumTerms
<1>4. Needed(e, w, x) = SumOver(f, S) /\ Needed(g, w, x) = SumOver(h, S)
  BY <1>1 DEF Needed
<1>5. \A y \in S \ {o} : h[y] = f[y]
  BY <1>2, <1>3 DEF OnlyLeft
<1>6. \A y \in S : f[y] \in Int /\ h[y] \in Int
  BY <1>2, <1>3
<1> HIDE DEF S, f, h
<1>7. CASE o \in S
  <2>1. SumOver(h, S) = SumOver(f, S) + (h[o] - f[o])
    BY <1>2, <1>5, <1>6, <1>7, SumOverChange
  <2> QED
    BY <1>3, <1>4, <1>7, <2>1 DEF S, NeedsLess
<1>8. CASE o \notin S
  <2>1. SumOver(h, S) = SumOver(f, S)
    BY <1>2, <1>5, <1>8, SumOverSame
  <2> QED
    BY <1>4, <1>8, <2>1 DEF S, NeedsLess
<1> QED
  BY <1>7, <1>8

\* An open order's need is part of what its wallet needs.
LEMMA NeededBounds ==
  ASSUME NEW e \in EvType, NEW w, NEW x, NEW o \in OpenOf(e, w, x)
  PROVE  Required(o, e.left[o]) <= Needed(e, w, x)
<1>1. OpenOf(e, w, x) \subseteq Orders
  BY EvFields DEF OpenOf
<1>2. /\ IsFiniteSet(OpenOf(e, w, x)) /\ Needs(e)[o] = Required(o, e.left[o])
      /\ \A p \in OpenOf(e, w, x) : Needs(e)[p] \in Nat
  BY <1>1, SumTerms
<1>3. Needs(e)[o] <= SumOver(Needs(e), OpenOf(e, w, x))
  BY <1>2, SumOverBounds
<1> QED
  BY <1>2, <1>3 DEF Needed

\* A transfer is added.
LEMMA MovedAdd ==
  ASSUME NEW e \in EvType, NEW g, NEW t \in Transfers, t \notin e.moved,
         g.moved = e.moved \union {t}, NEW w
  PROVE  Moved(g, w) = Moved(e, w) + (IF t.wallet = w THEN Worth[t] ELSE 0)
<1> DEFINE S == MovedOf(e, w)
<1>1. MovedOf(g, w) = IF t.wallet = w THEN S \union {t} ELSE S
  BY DEF MovedOf
<1>2. IsFiniteSet(S) /\ S \subseteq Transfers /\ t \notin S /\ \A y \in Transfers : Worth[y] \in Int
  BY SumTerms, EvFields DEF MovedOf
<1>3. Moved(e, w) = SumOver(Worth, S) /\ Moved(g, w) = SumOver(Worth, MovedOf(g, w))
  BY DEF Moved
<1>4. SumOver(Worth, S) \in Int
  BY <1>3, SumTypes
<1> HIDE DEF S
<1>5. SumOver(Worth, S \union {t}) = Worth[t] + SumOver(Worth, S)
  <2>1. \A y \in S \union {t} : Worth[y] \in Int
    BY <1>2
  <2> QED
    BY <1>2, <2>1, SumOverAdd
<1>6. Worth[t] \in Int
  BY <1>2
<1> QED
  BY <1>1, <1>3, <1>4, <1>5, <1>6

-----------------------------------------------------------------------------
(* The invariant of the accounts *)

BalTotal(b) == b.avail + b.locked + b.pending

\* Every unit of asset x that wallet w holds has an origin.
Balanced(c, e, w, x) ==
    x = "usdc" \/ w \notin e.netted =>
        BalTotal(c[x]) = Start[w][x] + (IF x = "usdc" THEN Moved(e, w) ELSE 0)
                           + e.short[w][x] + Stands(e, w, x)

\* At least what the batches in flight will bring is pending.
Covered(c, e, w, x) ==
    /\ c[x].pending >= Coming(e, w, x)
    /\ w \notin e.netted => c[x].pending = Coming(e, w, x)

\* What is locked is what the open orders need.
Backed(c, e, w, x) ==
    w \notin e.strained =>
        c[x].locked = Needed(e, w, x) /\ e.short[w][x] = 0 /\ c.coll = c["usdc"].locked

Sound(c, e, w) == \A x \in Assets : Balanced(c, e, w, x) /\ Covered(c, e, w, x) /\ Backed(c, e, w, x)

\* Nothing was filled of an order that is not reserved yet, or the wallet is strained.
Untouched(e) == \A o \in Orders \ e.booked : e.left[o] = Order[o].size \/ Order[o].wallet \in e.strained

\* The accounts a are right after the events e.
Good(a, e) ==
    /\ a \in [Wallets -> AcctType] /\ e \in EvType /\ Untouched(e) /\ Unstarted(e)
    /\ \A w \in Wallets : Sound(a[w], e, w)

\* An event that does not concern a wallet.
Elsewhere(e, g, w) ==
    /\ \A x \in Assets : /\ Coming(g, w, x) = Coming(e, w, x) /\ Stands(g, w, x) = Stands(e, w, x)
                         /\ Needed(g, w, x) = Needed(e, w, x)
    /\ Moved(g, w) = Moved(e, w)
    /\ g.short[w] = e.short[w]
    /\ w \in e.strained => w \in g.strained
    /\ w \in e.netted => w \in g.netted

LEMMA SoundElsewhere ==
  ASSUME NEW c, NEW e, NEW g, NEW w, Sound(c, e, w), Elsewhere(e, g, w)
  PROVE  Sound(c, g, w)
BY DEF Sound, Elsewhere, Balanced, Covered, Backed

\* The parts of the invariant, for one wallet and asset.
LEMMA GoodParts ==
  ASSUME NEW a, NEW e, Good(a, e), NEW w \in Wallets
  PROVE  /\ a[w] \in AcctType /\ e \in EvType /\ Sound(a[w], e, w)
         /\ \A x \in Assets :
              /\ Balanced(a[w], e, w, x) /\ Covered(a[w], e, w, x) /\ Backed(a[w], e, w, x)
              /\ a[w][x].avail \in Nat /\ a[w][x].locked \in Nat /\ a[w][x].pending \in Nat
              /\ Start[w][x] \in Nat /\ e.short[w][x] \in Nat
              /\ Coming(e, w, x) \in Nat /\ Stands(e, w, x) \in Int /\ Needed(e, w, x) \in Nat
         /\ Moved(e, w) \in Int /\ a[w].coll \in Nat
<1>1. a[w] \in AcctType /\ e \in EvType /\ Sound(a[w], e, w)
  BY DEF Good
<1>2. ASSUME NEW x \in Assets
      PROVE  /\ Balanced(a[w], e, w, x) /\ Covered(a[w], e, w, x) /\ Backed(a[w], e, w, x)
             /\ a[w][x].avail \in Nat /\ a[w][x].locked \in Nat /\ a[w][x].pending \in Nat
             /\ Start[w][x] \in Nat /\ e.short[w][x] \in Nat
             /\ Coming(e, w, x) \in Nat /\ Stands(e, w, x) \in Int /\ Needed(e, w, x) \in Nat
  <2>1. Balanced(a[w], e, w, x) /\ Covered(a[w], e, w, x) /\ Backed(a[w], e, w, x)
    BY <1>1 DEF Sound
  <2>2. a[w][x].avail \in Nat /\ a[w][x].locked \in Nat /\ a[w][x].pending \in Nat
    BY <1>1, AcctFields
  <2>3. Start[w][x] \in Nat
    BY ManagerAssumption
  <2>4. e.short[w][x] \in Nat
    <3>1. e.short \in [Wallets -> [Assets -> Nat]]
      BY <1>1, EvFields
    <3> QED
      BY <3>1
  <2>5. Coming(e, w, x) \in Nat /\ Stands(e, w, x) \in Int /\ Needed(e, w, x) \in Nat
    BY <1>1, SumTypes
  <2> QED
    BY <2>1, <2>2, <2>3, <2>4, <2>5
<1>3. Moved(e, w) \in Int /\ a[w].coll \in Nat
  BY <1>1, SumTypes, AcctFields
<1> QED
  BY <1>1, <1>2, <1>3

\* Only the accounts of one wallet change.
LEMMA GoodOne ==
  ASSUME NEW a, NEW e, Good(a, e), NEW g \in EvType, Untouched(g), Unstarted(g), NEW v \in Wallets,
         NEW c \in AcctType, Sound(c, g, v), \A w \in Wallets \ {v} : Elsewhere(e, g, w)
  PROVE  Good([a EXCEPT ![v] = c], g)
<1>1. a \in [Wallets -> AcctType] /\ \A w \in Wallets : Sound(a[w], e, w)
  BY DEF Good
<1> DEFINE b == [a EXCEPT ![v] = c]
<1>2. b \in [Wallets -> AcctType] /\ b[v] = c /\ \A w \in Wallets \ {v} : b[w] = a[w]
  BY <1>1
<1> HIDE DEF b
<1>3. ASSUME NEW w \in Wallets PROVE Sound(b[w], g, w)
  <2>1. CASE w = v
    BY <1>2, <2>1
  <2>2. CASE w # v
    <3>1. Sound(a[w], e, w) /\ Elsewhere(e, g, w) /\ b[w] = a[w]
      BY <1>1, <1>2, <2>2
    <3> QED
      BY <3>1, SoundElsewhere
  <2> QED
    BY <2>1, <2>2
<1>4. Good(b, g)
  BY <1>2, <1>3 DEF Good
<1> QED
  BY <1>4 DEF b

\* The events after an order was reserved, or found no money.
Books(e, g, o, strained) ==
    /\ o \notin e.booked /\ g.booked = e.booked \union {o} /\ g.left = e.left
    /\ g.fills = e.fills /\ g.phase = e.phase /\ g.moved = e.moved /\ g.short = e.short
    /\ g.strained = strained /\ g.netted = e.netted

\* The events after n of an order was released.
Releases(e, g, o, n) ==
    /\ g.booked = e.booked /\ g.left = [e.left EXCEPT ![o] = @ - n] /\ g.fills = e.fills
    /\ g.phase = e.phase /\ g.moved = e.moved /\ g.short = e.short /\ g.netted = e.netted
    /\ g.strained = IF o \notin e.booked \/ Rounds(o, e.left[o], n)
                    THEN e.strained \union {Order[o].wallet} ELSE e.strained

\* The events after it was released again, and account a became c.
ReleasesAgain(e, g, w, a, c) ==
    /\ g.booked = e.booked /\ g.left = e.left /\ g.fills = e.fills
    /\ g.phase = e.phase /\ g.moved = e.moved /\ g.short = e.short /\ g.netted = e.netted
    /\ g.strained = IF c # a THEN e.strained \union {w} ELSE e.strained

\* The events after a transfer of which u was not found.
Moves(e, g, t, u) ==
    /\ t \notin e.moved /\ g.moved = e.moved \union {t}
    /\ g.booked = e.booked /\ g.left = e.left /\ g.fills = e.fills /\ g.phase = e.phase
    /\ g.short = [e.short EXCEPT ![t.wallet]["usdc"] = @ + u] /\ g.netted = e.netted
    /\ g.strained = IF u > 0 THEN e.strained \union {t.wallet} ELSE e.strained

\* The events after the end of batch b was reached.
Ends(e, g, b) ==
    /\ e.phase[b] = "filling" /\ g.phase = [e.phase EXCEPT ![b] = "applied"]
    /\ g.booked = e.booked /\ g.left = e.left /\ g.fills = e.fills /\ g.moved = e.moved
    /\ g.short = e.short /\ g.netted = e.netted /\ g.strained = e.strained

\* Reserving an order moves what it needs from available to locked.
LEMMA GoodReserve ==
  ASSUME NEW a, NEW e, Good(a, e), NEW o \in Orders, NEW v, v = Order[o].wallet,
         NEW n, n = Required(o, Order[o].size), a[v][Pays(o)].avail >= n,
         NEW g \in EvType, Books(e, g, o, e.strained)
  PROVE  Good([a EXCEPT ![v] = Lock(@, o, n)], g)
<1> USE DEF Books
<1> DEFINE p == Pays(o)
           c == Lock(a[v], o, n)
<1>0. e \in EvType /\ Untouched(e) /\ Unstarted(e)
  BY DEF Good
<1>1. v \in Wallets /\ p \in Assets /\ n \in Nat /\ (Buys(o) <=> p = "usdc")
  <2>1. v \in Wallets /\ p \in Assets /\ Order[o].size \in Nat /\ Order[o].outcome \in {"yes", "no"}
    BY OrderType
  <2>2. n \in Nat
    BY <2>1, ReserveType
  <2> QED
    BY <2>1, <2>2 DEF Pays
<1>2. /\ a[v] \in AcctType
      /\ \A x \in Assets :
              /\ Balanced(a[v], e, v, x) /\ Covered(a[v], e, v, x) /\ Backed(a[v], e, v, x)
              /\ a[v][x].avail \in Nat /\ a[v][x].locked \in Nat /\ a[v][x].pending \in Nat
              /\ Needed(e, v, x) \in Nat
      /\ a[v].coll \in Nat
  BY <1>1, GoodParts
<1>3. /\ c \in AcctType
      /\ c[p].avail = a[v][p].avail - n /\ c[p].locked = a[v][p].locked + n
      /\ c[p].pending = a[v][p].pending
      /\ \A y \in Assets \ {p} : c[y] = a[v][y]
      /\ c.coll = IF Buys(o) THEN a[v].coll + n ELSE a[v].coll
  BY <1>1, <1>2, LockFacts
<1>4. \A w, x : /\ Coming(g, w, x) = Coming(e, w, x) /\ Stands(g, w, x) = Stands(e, w, x)
                /\ Moved(g, w) = Moved(e, w)
  BY SumsSame
<1>5. \A w, x : Needed(g, w, x) = Needed(e, w, x) + (IF v = w /\ p = x THEN Required(o, e.left[o]) ELSE 0)
  BY <1>0, NeededBooked
<1>6. v \notin e.strained => Required(o, e.left[o]) = n
  BY <1>0 DEF Untouched
<1>7. e.left[o] \in Nat /\ Required(o, e.left[o]) \in Nat
  <2>1. e.left[o] \in Nat
    BY <1>0, EvFields
  <2> QED
    BY <2>1, ReserveType
<1> HIDE DEF p, c
<1>8. Sound(c, g, v)
  <2> SUFFICES ASSUME NEW x \in Assets
               PROVE  Balanced(c, g, v, x) /\ Covered(c, g, v, x) /\ Backed(c, g, v, x)
    BY DEF Sound
  <2>1. BalTotal(c[x]) = BalTotal(a[v][x]) /\ c[x].pending = a[v][x].pending
    BY <1>1, <1>2, <1>3 DEF BalTotal
  <2>2. Balanced(c, g, v, x)
    BY <1>2, <1>4, <2>1 DEF Balanced
  <2>3. Covered(c, g, v, x)
    BY <1>2, <1>4, <2>1 DEF Covered
  <2>4. ASSUME v \notin e.strained
        PROVE  c[x].locked = Needed(g, v, x) /\ g.short[v][x] = 0 /\ c.coll = c["usdc"].locked
    <3>1. /\ a[v][x].locked = Needed(e, v, x) /\ e.short[v][x] = 0 /\ a[v].coll = a[v]["usdc"].locked
      BY <1>2, <2>4 DEF Backed
    <3>2. c[x].locked = Needed(g, v, x)
      BY <1>1, <1>2, <1>3, <1>5, <1>6, <1>7, <2>4, <3>1
    <3>3. c.coll = c["usdc"].locked
      BY <1>1, <1>3, <3>1 DEF Assets
    <3> QED
      BY <3>1, <3>2, <3>3
  <2>5. Backed(c, g, v, x)
    BY <2>4 DEF Backed
  <2> QED
    BY <2>2, <2>3, <2>5
<1>9. \A w \in Wallets \ {v} : Elsewhere(e, g, w)
  <2> TAKE w \in Wallets \ {v}
  <2>1. \A x \in Assets : Needed(e, w, x) \in Nat
    BY <1>0, SumTypes
  <2>2. \A x \in Assets : Needed(g, w, x) = Needed(e, w, x)
    BY <1>5, <2>1
  <2> QED
    BY <1>4, <2>2 DEF Elsewhere
<1>10. Untouched(g) /\ Unstarted(g)
  BY <1>0 DEF Untouched, Unstarted
<1>11. Good([a EXCEPT ![v] = c], g)
  BY <1>1, <1>3, <1>8, <1>9, <1>10, GoodOne
<1> QED
  BY <1>11 DEF c

\* An order that finds no money strains its wallet.
LEMMA GoodUnreserved ==
  ASSUME NEW a, NEW e, Good(a, e), NEW o \in Orders, NEW g \in EvType,
         Books(e, g, o, e.strained \union {Order[o].wallet})
  PROVE  Good(a, g)
<1> USE DEF Books
<1> DEFINE v == Order[o].wallet
<1>0. e \in EvType /\ Untouched(e) /\ Unstarted(e) /\ a \in [Wallets -> AcctType]
  BY DEF Good
<1>4. \A w, x : /\ Coming(g, w, x) = Coming(e, w, x) /\ Stands(g, w, x) = Stands(e, w, x)
                /\ Moved(g, w) = Moved(e, w)
  BY SumsSame
<1>5. \A w, x : Needed(g, w, x) = Needed(e, w, x) + (IF v = w /\ Pays(o) = x THEN Required(o, e.left[o]) ELSE 0)
  BY <1>0, NeededBooked
<1> HIDE DEF v
<1>6. ASSUME NEW w \in Wallets PROVE Sound(a[w], g, w)
  <2>1. Sound(a[w], e, w)
    BY DEF Good
  <2>2. CASE w = v
    <3>1. w \in g.strained
      BY <2>2 DEF v
    <3> QED
      BY <1>4, <2>1, <3>1 DEF Sound, Balanced, Covered, Backed
  <2>3. CASE w # v
    <3>1. \A x \in Assets : Needed(e, w, x) \in Nat
      BY <1>0, SumTypes
    <3>2. \A x \in Assets : Needed(g, w, x) = Needed(e, w, x)
      BY <1>5, <2>3, <3>1
    <3>3. Elsewhere(e, g, w)
      BY <1>4, <3>2 DEF Elsewhere
    <3> QED
      BY <2>1, <3>3, SoundElsewhere
  <2> QED
    BY <2>2, <2>3
<1>10. Untouched(g) /\ Unstarted(g)
  BY <1>0 DEF Untouched, Unstarted
<1> QED
  BY <1>0, <1>6, <1>10 DEF Good

\* A release gives back what is locked for the part released: all of its
\* reserve, unless the wallet is strained.
LEMMA GoodRelease ==
  ASSUME NEW a, NEW e, Good(a, e), NEW o \in Orders, NEW v, v = Order[o].wallet,
         NEW n \in 1 .. e.left[o], NEW g \in EvType, Releases(e, g, o, n)
  PROVE  Good([a EXCEPT ![v] = ReleaseOrder(@, o, n)], g)
<1> USE DEF Releases
<1> DEFINE p == Pays(o)
           c == ReleaseOrder(a[v], o, n)
           L == e.left[o]
           t == Smaller(Required(o, n), a[v][p].locked)
<1>0. e \in EvType /\ Untouched(e) /\ Unstarted(e)
  BY DEF Good
<1>1. v \in Wallets /\ p \in Assets /\ (Buys(o) <=> p = "usdc")
  <2>1. v \in Wallets /\ p \in Assets /\ Order[o].outcome \in {"yes", "no"}
    BY OrderType
  <2> QED
    BY <2>1 DEF Pays
<1>2. /\ a[v] \in AcctType
      /\ \A x \in Assets :
              /\ Balanced(a[v], e, v, x) /\ Covered(a[v], e, v, x) /\ Backed(a[v], e, v, x)
              /\ a[v][x].avail \in Nat /\ a[v][x].locked \in Nat /\ a[v][x].pending \in Nat
              /\ Needed(e, v, x) \in Nat
      /\ a[v].coll \in Nat
  BY <1>1, GoodParts
<1>3. e.left \in [Orders -> Nat] /\ L \in Nat /\ n \in Nat /\ L - n \in Nat
  BY <1>0, EvFields
<1>4. g.left[o] = L - n /\ \A q \in Orders \ {o} : g.left[q] = e.left[q]
  BY <1>3
<1>5. Required(o, n) \in Nat /\ Required(o, L) \in Nat /\ Required(o, L - n) \in Nat
  BY <1>3, ReserveType
<1>6. /\ c \in AcctType
      /\ c[p].avail = a[v][p].avail + t /\ c[p].locked = a[v][p].locked - t
      /\ c[p].pending = a[v][p].pending
      /\ \A y \in Assets \ {p} : c[y] = a[v][y]
      /\ c.coll = IF Buys(o) THEN a[v].coll - Smaller(t, a[v].coll) ELSE a[v].coll
  <2>1. ReleaseDone(a[v], c, o, n)
    BY <1>2, <1>3, ReleaseFacts, Zenon
  <2> QED
    BY <2>1 DEF ReleaseDone
<1>7. t \in Nat
  BY <1>1, <1>2, <1>5, SmallerFacts
<1>8. \A w, x : /\ Coming(g, w, x) = Coming(e, w, x) /\ Stands(g, w, x) = Stands(e, w, x)
                /\ Moved(g, w) = Moved(e, w)
  BY SumsSame
<1>9. ASSUME NEW w, NEW x
      PROVE  /\ o \in OpenOf(e, w, x) => Needed(g, w, x) = Needed(e, w, x) + (Required(o, L - n) - Required(o, L))
             /\ o \notin OpenOf(e, w, x) => Needed(g, w, x) = Needed(e, w, x)
  <2>1. OnlyLeft(e, g, w, x, o)
    BY <1>0, <1>4, EvFields DEF OpenOf, OnlyLeft
  <2>2. NeedsLess(e, g, w, x, o)
    BY <1>0, <2>1, NeededLeft
  <2> QED
    BY <1>4, <2>2 DEF NeedsLess
<1> HIDE DEF p, c, L
<1>10. ASSUME v \notin g.strained
       PROVE  /\ v \notin e.strained /\ o \in OpenOf(e, v, p) /\ t = Required(o, n)
              /\ Required(o, L) = Required(o, n) + Required(o, L - n)
              /\ t <= a[v][p].locked
  <2>1. v \notin e.strained /\ o \in e.booked /\ ~Rounds(o, e.left[o], n)
    BY <1>10
  <2>2. o \in OpenOf(e, v, p)
    BY <2>1 DEF OpenOf, p
  <2>3. Required(o, L) = Required(o, n) + Required(o, L - n)
    BY <2>1 DEF Rounds, L
  <2>4. Required(o, L) <= Needed(e, v, p)
    BY <1>0, <2>2, NeededBounds DEF L
  <2>5. a[v][p].locked = Needed(e, v, p)
    BY <1>1, <1>2, <2>1 DEF Backed
  <2>6. Required(o, n) <= a[v][p].locked
    BY <1>1, <1>2, <1>5, <2>3, <2>4, <2>5
  <2>7. t = Required(o, n)
    BY <1>1, <1>2, <1>5, <2>6 DEF Smaller
  <2> QED
    BY <2>1, <2>2, <2>3, <2>6, <2>7
<1> HIDE DEF t
<1>11. Sound(c, g, v)
  <2> SUFFICES ASSUME NEW x \in Assets
               PROVE  Balanced(c, g, v, x) /\ Covered(c, g, v, x) /\ Backed(c, g, v, x)
    BY DEF Sound
  <2>1. BalTotal(c[x]) = BalTotal(a[v][x]) /\ c[x].pending = a[v][x].pending
    BY <1>1, <1>2, <1>6, <1>7 DEF BalTotal
  <2>2. Balanced(c, g, v, x)
    BY <1>2, <1>8, <2>1 DEF Balanced
  <2>3. Covered(c, g, v, x)
    BY <1>2, <1>8, <2>1 DEF Covered
  <2>4. ASSUME v \notin g.strained
        PROVE  c[x].locked = Needed(g, v, x) /\ g.short[v][x] = 0 /\ c.coll = c["usdc"].locked
    <3>1. /\ a[v][x].locked = Needed(e, v, x) /\ e.short[v][x] = 0 /\ a[v].coll = a[v]["usdc"].locked
      BY <1>2, <1>10, <2>4 DEF Backed
    <3>2. c[x].locked = Needed(g, v, x)
      <4>1. CASE x = p
        BY <1>1, <1>2, <1>5, <1>6, <1>9, <1>10, <2>4, <3>1, <4>1
      <4>2. CASE x # p
        <5>1. o \notin OpenOf(e, v, x)
          BY <4>2 DEF OpenOf, p
        <5> QED
          BY <1>6, <1>9, <3>1, <4>2, <5>1
      <4> QED
        BY <4>1, <4>2
    <3>3. c.coll = c["usdc"].locked
      <4>1. CASE Buys(o)
        <5>1. p = "usdc" /\ t <= a[v].coll
          BY <1>1, <1>10, <2>4, <3>1, <4>1
        <5>2. Smaller(t, a[v].coll) = t
          BY <1>2, <1>7, <5>1 DEF Smaller
        <5> QED
          BY <1>6, <3>1, <4>1, <5>1, <5>2
      <4>2. CASE ~Buys(o)
        BY <1>1, <1>6, <3>1, <4>2 DEF Assets
      <4> QED
        BY <4>1, <4>2
    <3> QED
      BY <3>1, <3>2, <3>3
  <2>5. Backed(c, g, v, x)
    BY <2>4 DEF Backed
  <2> QED
    BY <2>2, <2>3, <2>5
<1>12. \A w \in Wallets \ {v} : Elsewhere(e, g, w)
  <2> TAKE w \in Wallets \ {v}
  <2>1. \A x \in Assets : Needed(g, w, x) = Needed(e, w, x)
    BY <1>9 DEF OpenOf
  <2> QED
    BY <1>8, <2>1 DEF Elsewhere
<1>13. Untouched(g) /\ Unstarted(g)
  <2>1. ASSUME NEW q \in Orders \ g.booked PROVE g.left[q] = Order[q].size \/ Order[q].wallet \in g.strained
    BY <1>0, <1>4 DEF Untouched
  <2>2. Unstarted(g)
    BY <1>0 DEF Unstarted
  <2> QED
    BY <2>1, <2>2 DEF Untouched
<1>14. Good([a EXCEPT ![v] = c], g)
  BY <1>1, <1>6, <1>11, <1>12, <1>13, GoodOne
<1> QED
  BY <1>14 DEF c

\* A second release moves money from locked to available, and strains the wallet if it does.
LEMMA GoodReleaseAgain ==
  ASSUME NEW a, NEW e, Good(a, e), NEW o \in Orders, NEW v, v = Order[o].wallet,
         NEW n \in Nat, NEW c, c = ReleaseOrder(a[v], o, n),
         NEW g \in EvType, ReleasesAgain(e, g, v, a[v], c)
  PROVE  Good([a EXCEPT ![v] = c], g)
<1> USE DEF ReleasesAgain
<1> DEFINE p == Pays(o)
           t == Smaller(Required(o, n), a[v][p].locked)
<1>0. e \in EvType /\ Untouched(e) /\ Unstarted(e)
  BY DEF Good
<1>1. v \in Wallets /\ p \in Assets
  BY OrderType
<1>2. /\ a[v] \in AcctType
      /\ \A x \in Assets :
              /\ Balanced(a[v], e, v, x) /\ Covered(a[v], e, v, x) /\ Backed(a[v], e, v, x)
              /\ a[v][x].avail \in Nat /\ a[v][x].locked \in Nat /\ a[v][x].pending \in Nat
  BY <1>1, GoodParts
<1>3. Required(o, n) \in Nat
  BY ReserveType
<1>6. /\ c \in AcctType
      /\ c[p].avail = a[v][p].avail + t /\ c[p].locked = a[v][p].locked - t
      /\ c[p].pending = a[v][p].pending
      /\ \A y \in Assets \ {p} : c[y] = a[v][y]
  <2>1. ReleaseDone(a[v], c, o, n)
    BY <1>2, ReleaseFacts, Zenon
  <2> QED
    BY <2>1 DEF ReleaseDone
<1>7. t \in Nat
  BY <1>1, <1>2, <1>3, SmallerFacts
<1>8. \A w, x : /\ Coming(g, w, x) = Coming(e, w, x) /\ Stands(g, w, x) = Stands(e, w, x)
                /\ Moved(g, w) = Moved(e, w) /\ Needed(g, w, x) = Needed(e, w, x)
  BY SumsSame
<1> HIDE DEF p, t
<1>11. Sound(c, g, v)
  <2> SUFFICES ASSUME NEW x \in Assets
               PROVE  Balanced(c, g, v, x) /\ Covered(c, g, v, x) /\ Backed(c, g, v, x)
    BY DEF Sound
  <2>1. BalTotal(c[x]) = BalTotal(a[v][x]) /\ c[x].pending = a[v][x].pending
    BY <1>1, <1>2, <1>6, <1>7 DEF BalTotal
  <2>2. Balanced(c, g, v, x)
    BY <1>2, <1>8, <2>1 DEF Balanced
  <2>3. Covered(c, g, v, x)
    BY <1>2, <1>8, <2>1 DEF Covered
  <2>4. ASSUME v \notin g.strained PROVE c = a[v] /\ v \notin e.strained
    BY <2>4
  <2>5. Backed(c, g, v, x)
    BY <1>2, <1>8, <2>4 DEF Backed
  <2> QED
    BY <2>2, <2>3, <2>5
<1>12. \A w \in Wallets \ {v} : Elsewhere(e, g, w)
  BY <1>8 DEF Elsewhere
<1>13. Untouched(g) /\ Unstarted(g)
  BY <1>0 DEF Untouched, Unstarted
<1> QED
  BY <1>1, <1>6, <1>11, <1>12, <1>13, GoodOne

\* A deposit or a withdrawal; what it does not find strains the wallet.
LEMMA GoodTransfer ==
  ASSUME NEW a, NEW e, Good(a, e), NEW t \in Transfers, NEW v, v = t.wallet,
         NEW u, u = Unpaid(a[v], t), NEW g \in EvType, Moves(e, g, t, u)
  PROVE  Good([a EXCEPT ![v] = Transferred(@, t)], g)
<1> USE DEF Moves
<1> DEFINE c == Transferred(a[v], t)
<1>0. e \in EvType /\ Untouched(e) /\ Unstarted(e)
  BY DEF Good
<1>1. v \in Wallets /\ t.kind \in {"deposit", "withdraw"} /\ t.amount \in Nat
  BY ManagerAssumption
<1>2. /\ a[v] \in AcctType
      /\ \A x \in Assets :
              /\ Balanced(a[v], e, v, x) /\ Covered(a[v], e, v, x) /\ Backed(a[v], e, v, x)
              /\ a[v][x].avail \in Nat /\ a[v][x].locked \in Nat /\ a[v][x].pending \in Nat
              /\ Start[v][x] \in Nat /\ e.short[v][x] \in Nat /\ Stands(e, v, x) \in Int
      /\ Moved(e, v) \in Int
  BY <1>1, GoodParts
<1>3. Worth[t] = (IF t.kind = "deposit" THEN t.amount ELSE -t.amount) /\ Worth[t] \in Int
  BY <1>1 DEF Worth
<1>4. /\ c \in AcctType /\ c.coll = a[v].coll /\ u \in Nat
      /\ c.usdc.avail = a[v].usdc.avail + Worth[t] + u
      /\ c.usdc.locked = a[v].usdc.locked /\ c.usdc.pending = a[v].usdc.pending
      /\ c.yes = a[v].yes /\ c.no = a[v].no
  <2>1. TransferDone(a[v], c, t)
    BY <1>2, TransferFacts
  <2> QED
    BY <1>3, <2>1 DEF TransferDone
<1>5. \A w, x : /\ Coming(g, w, x) = Coming(e, w, x) /\ Stands(g, w, x) = Stands(e, w, x)
                /\ Needed(g, w, x) = Needed(e, w, x)
  BY SumsSame
<1>6. \A w : Moved(g, w) = Moved(e, w) + (IF v = w THEN Worth[t] ELSE 0)
  BY <1>0, MovedAdd
<1>7. /\ g.short[v]["usdc"] = e.short[v]["usdc"] + u
      /\ \A x \in Assets \ {"usdc"} : g.short[v][x] = e.short[v][x]
      /\ \A w \in Wallets \ {v} : g.short[w] = e.short[w]
  <2>1. e.short \in [Wallets -> [Assets -> Nat]]
    BY <1>0, EvFields
  <2> QED
    BY <1>1, <2>1 DEF Assets
<1> HIDE DEF c
<1>8. Sound(c, g, v)
  <2>1. \A x \in Assets : c[x].locked = a[v][x].locked /\ c[x].pending = a[v][x].pending
    BY <1>4 DEF Assets
  <2>2. Balanced(c, g, v, "usdc")
    <3>1. "usdc" \in Assets
      BY DEF Assets
    <3>2. BalTotal(a[v]["usdc"]) = Start[v]["usdc"] + Moved(e, v) + e.short[v]["usdc"] + Stands(e, v, "usdc")
      BY <1>2, <3>1 DEF Balanced
    <3>3. Moved(g, v) = Moved(e, v) + Worth[t]
      BY <1>6
    <3>4. BalTotal(c["usdc"]) = Start[v]["usdc"] + Moved(g, v) + g.short[v]["usdc"] + Stands(g, v, "usdc")
      <4>1. BalTotal(c["usdc"]) = BalTotal(a[v]["usdc"]) + Worth[t] + u
        BY <1>2, <1>3, <1>4, <3>1 DEF BalTotal
      <4>2. g.short[v]["usdc"] = e.short[v]["usdc"] + u /\ Stands(g, v, "usdc") = Stands(e, v, "usdc")
        BY <1>5, <1>7
      <4>3. Start[v]["usdc"] \in Int /\ Moved(e, v) \in Int /\ e.short[v]["usdc"] \in Int
            /\ Stands(e, v, "usdc") \in Int /\ u \in Int
        BY <1>2, <1>4, <3>1
      <4> HIDE DEF Moves
      <4> QED
        BY <1>3, <3>2, <3>3, <4>1, <4>2, <4>3
    <3> QED
      BY <3>4 DEF Balanced
  <2>3. \A x \in Assets \ {"usdc"} : Balanced(c, g, v, x)
    <3> TAKE x \in Assets \ {"usdc"}
    <3>1. c[x] = a[v][x]
      BY <1>4 DEF Assets
    <3> QED
      BY <1>2, <1>5, <1>7, <3>1 DEF Balanced
  <2>4. \A x \in Assets : Covered(c, g, v, x)
    BY <1>2, <1>5, <2>1 DEF Covered
  <2>5. ASSUME NEW x \in Assets PROVE Backed(c, g, v, x)
    <3> SUFFICES ASSUME v \notin g.strained
                 PROVE  c[x].locked = Needed(g, v, x) /\ g.short[v][x] = 0 /\ c.coll = c["usdc"].locked
      BY DEF Backed
    <3>1. v \notin e.strained /\ u = 0
      BY <1>4
    <3>2. a[v][x].locked = Needed(e, v, x) /\ e.short[v][x] = 0 /\ a[v].coll = a[v]["usdc"].locked
      BY <1>2, <3>1 DEF Backed
    <3> QED
      BY <1>4, <1>5, <1>7, <2>1, <3>1, <3>2 DEF Assets
  <2> QED
    BY <2>2, <2>3, <2>4, <2>5 DEF Sound
<1>9. \A w \in Wallets \ {v} : Elsewhere(e, g, w)
  <2> TAKE w \in Wallets \ {v}
  <2>1. Moved(e, w) \in Int
    BY <1>0, SumTypes
  <2>2. Moved(g, w) = Moved(e, w)
    BY <1>6, <2>1
  <2> QED
    BY <1>5, <1>7, <2>2 DEF Elsewhere
<1>10. Untouched(g) /\ Unstarted(g)
  BY <1>0 DEF Untouched, Unstarted
<1>11. Good([a EXCEPT ![v] = c], g)
  BY <1>1, <1>4, <1>8, <1>9, <1>10, GoodOne
<1> QED
  BY <1>11 DEF c

\* A wallet that is not on both sides of a batch gains or loses of an asset.
LEMMA OneSided ==
  ASSUME NEW f \in Seq(Fill), NEW w \in Wallets \ Netted(f), NEW x \in Assets
  PROVE  Gain(f, w, x) = 0 \/ Loss(f, w, x) = 0
<1>1. Gain(f, w, x) \in Nat /\ Loss(f, w, x) \in Nat
  BY GainType
<1>2. CASE x = "usdc"
  <2>1. ~(Spent(f, w) > 0 /\ Earned(f, w) > 0)
    BY DEF Netted
  <2> QED
    BY <1>1, <1>2, <2>1 DEF Gain, Loss
<1>3. CASE x # "usdc"
  <2>1. x \in {"yes", "no"}
    BY <1>3 DEF Assets
  <2>2. ~(Bought(f, w, x) > 0 /\ Sold(f, w, x) > 0)
    BY <2>1 DEF Netted
  <2> QED
    BY <1>1, <1>3, <2>2 DEF Gain, Loss
<1> QED
  BY <1>2, <1>3

\* What a settled batch does to one account.
SettledTo(a, c, f, w, outcome) ==
    c = IF w \notin Parties(f) THEN a
        ELSE IF outcome = "confirmed" THEN ConfirmedForWallet(a, BatchDeltas(f, w))
             ELSE FailedForWallet(a, BatchDeltas(f, w))

\* What comes into available when a batch is settled.
Released(a, f, w, x, outcome) == IF outcome = "confirmed" THEN Part(a, f, w, x) ELSE Returned(f, w, x)

LEMMA SettledFacts ==
  ASSUME NEW a \in AcctType, NEW f \in Seq(Fill), NEW w, NEW c, NEW outcome \in {"confirmed", "failed"},
         SettledTo(a, c, f, w, outcome)
  PROVE  /\ c \in AcctType /\ c.coll = a.coll
         /\ \A x \in Assets : /\ c[x].avail = a[x].avail + Released(a, f, w, x, outcome)
                              /\ c[x].locked = a[x].locked
                              /\ c[x].pending = a[x].pending - Part(a, f, w, x)
<1>1. CASE w \notin Parties(f)
  <2>1. c = a
    BY <1>1 DEF SettledTo
  <2>2. ASSUME NEW x \in Assets
        PROVE  Part(a, f, w, x) = 0 /\ Returned(f, w, x) = 0
    <3>1. Gain(f, w, x) = 0 /\ Loss(f, w, x) = 0
      BY <1>1, NoLegs
    <3> QED
      BY <3>1 DEF Part, Returned, Net
  <2>3. \A x \in Assets : Released(a, f, w, x, outcome) = 0
    BY <2>2 DEF Released
  <2>4. \A x \in Assets : a[x].avail \in Nat /\ a[x].pending \in Nat
    BY AcctFields
  <2> QED
    BY <2>1, <2>2, <2>3, <2>4
<1>2. CASE w \in Parties(f) /\ outcome = "confirmed"
  <2>1. c = ConfirmedForWallet(a, BatchDeltas(f, w))
    BY <1>2 DEF SettledTo
  <2>2. ConfirmDone(a, c, f, w)
    BY <2>1, ConfirmFacts
  <2> QED
    BY <1>2, <2>2 DEF ConfirmDone, Released
<1>3. CASE w \in Parties(f) /\ outcome = "failed"
  <2>1. c = FailedForWallet(a, BatchDeltas(f, w))
    BY <1>3 DEF SettledTo
  <2>2. FailDone(a, c, f, w)
    BY <2>1, FailFacts
  <2> QED
    BY <1>3, <2>2 DEF FailDone, Released
<1> QED
  BY <1>1, <1>2, <1>3

\* The account is as right as before.
LEMMA SoundSettled ==
  ASSUME NEW a, NEW e, Good(a, e), NEW b \in Batches, NEW outcome \in {"confirmed", "failed"},
         NEW w \in Wallets, NEW c, SettledTo(a[w], c, e.fills[b], w, outcome),
         NEW g \in EvType, Settles(e, g, b, outcome)
  PROVE  c \in AcctType /\ Sound(c, g, w)
<1> DEFINE f == e.fills[b]
<1>1. /\ a[w] \in AcctType /\ e \in EvType
      /\ \A x \in Assets :
              /\ Balanced(a[w], e, w, x) /\ Covered(a[w], e, w, x) /\ Backed(a[w], e, w, x)
              /\ a[w][x].avail \in Nat /\ a[w][x].locked \in Nat /\ a[w][x].pending \in Nat
              /\ Start[w][x] \in Nat /\ e.short[w][x] \in Nat
              /\ Coming(e, w, x) \in Nat /\ Stands(e, w, x) \in Int /\ Needed(e, w, x) \in Nat
      /\ Moved(e, w) \in Int
  BY GoodParts
<1>2. f \in Seq(Fill)
  BY <1>1, EvFields
<1>3. /\ c \in AcctType /\ c.coll = a[w].coll
      /\ \A x \in Assets : /\ c[x].avail = a[w][x].avail + Released(a[w], f, w, x, outcome)
                           /\ c[x].locked = a[w][x].locked
                           /\ c[x].pending = a[w][x].pending - Part(a[w], f, w, x)
  BY <1>1, <1>2, SettledFacts
<1>a. g.netted = e.netted \union Netted(f) /\ g.strained = e.strained /\ g.short = e.short
  BY DEF Settles
<1>4. \A x : Needed(g, w, x) = Needed(e, w, x) /\ Moved(g, w) = Moved(e, w)
  BY SumsSame DEF Settles
<1>5. ASSUME NEW x \in Assets
      PROVE  Balanced(c, g, w, x) /\ Covered(c, g, w, x) /\ Backed(c, g, w, x)
  <2> DEFINE G == Gain(f, w, x)
             L == Loss(f, w, x)
             P == a[w][x].pending
             T == Part(a[w], f, w, x)
             R == Released(a[w], f, w, x, outcome)
  <2>1. G \in Nat /\ L \in Nat /\ P \in Nat
    BY <1>1, <1>2, GainType
  <2>2. /\ Coming(e, w, x) = Coming(g, w, x) + G /\ Coming(g, w, x) \in Nat
        /\ Stands(e, w, x) = Stands(g, w, x) + (IF outcome = "failed" THEN Net(f, w, x) ELSE 0)
    <3>1. SettledSums(e, g, b, outcome, w, x)
      BY <1>1, SumsSettle
    <3> QED
      BY <3>1 DEF SettledSums
  <2>3. Stands(g, w, x) \in Int
    BY SumTypes
  <2>4. Net(f, w, x) = G - L
    BY DEF Net
  <2>5. P >= Coming(g, w, x) + G /\ (w \notin e.netted => P = Coming(g, w, x) + G)
    BY <1>1, <2>2 DEF Covered
  <2>6. w \notin g.netted => w \notin e.netted /\ (G = 0 \/ L = 0)
    <3>1. w \notin g.netted => w \in Wallets \ Netted(f)
      BY <1>a
    <3> QED
      BY <1>2, <1>a, <3>1, OneSided
  <2>7. Part(a[w], f, w, x) = IF G - L > 0 THEN Smaller(G - L, P) ELSE 0
    <3> HIDE DEF G, L, P, f
    <3> QED
      BY <2>4 DEF Part, P
  <2>8. R = IF outcome = "confirmed" THEN T
            ELSE IF x = "usdc" THEN (IF G - L < 0 THEN -(G - L) ELSE 0) ELSE L
    BY <2>4 DEF Released, Returned
  <2> HIDE DEF G, L, P, T, R
  <2>9. T = IF G - L > 0 THEN G - L ELSE 0
    BY <2>1, <2>2, <2>5, <2>7 DEF Smaller, T
  <2>10. c[x].avail = a[w][x].avail + R /\ c[x].locked = a[w][x].locked /\ c[x].pending = P - T
    BY <1>3 DEF T, R, P
  <2>11. Covered(c, g, w, x)
    <3>1. P - T >= Coming(g, w, x) /\ (w \notin g.netted => P - T = Coming(g, w, x))
      BY <2>1, <2>2, <2>5, <2>6, <2>9
    <3> QED
      BY <2>10, <3>1 DEF Covered
  <2>12. Balanced(c, g, w, x)
    <3>1. T \in Int /\ R \in Int
      BY <2>1, <2>8, <2>9
    <3>2. BalTotal(c[x]) = BalTotal(a[w][x]) + (R - T) /\ BalTotal(a[w][x]) \in Int
      BY <1>1, <2>10, <3>1 DEF BalTotal, P
    <3>3. x = "usdc" \/ w \notin g.netted => R - T = IF outcome = "failed" THEN -(G - L) ELSE 0
      BY <2>1, <2>6, <2>8, <2>9
    <3>4. Stands(g, w, x) = Stands(e, w, x) + (IF outcome = "failed" THEN -(G - L) ELSE 0)
      BY <1>1, <2>1, <2>2, <2>3, <2>4
    <3> DEFINE D == IF outcome = "failed" THEN -(G - L) ELSE 0
    <3>5. D \in Int
      BY <2>1
    <3> HIDE DEF D
    <3>6. ASSUME x = "usdc" \/ w \notin g.netted
          PROVE  BalTotal(c[x]) = Start[w][x] + (IF x = "usdc" THEN Moved(g, w) ELSE 0)
                                    + g.short[w][x] + Stands(g, w, x)
      <4>1. BalTotal(a[w][x]) = Start[w][x] + (IF x = "usdc" THEN Moved(e, w) ELSE 0)
                                  + e.short[w][x] + Stands(e, w, x)
        BY <1>1, <2>6, <3>6 DEF Balanced
      <4>2. BalTotal(c[x]) = BalTotal(a[w][x]) + D /\ Stands(g, w, x) = Stands(e, w, x) + D
        BY <3>2, <3>3, <3>4, <3>6 DEF D
      <4> QED
        BY <1>1, <1>4, <1>a, <3>2, <3>5, <4>1, <4>2
    <3> QED
      BY <3>6 DEF Balanced
  <2>13. Backed(c, g, w, x)
    <3>1. c["usdc"].locked = a[w]["usdc"].locked
      BY <1>3 DEF Assets
    <3> QED
      BY <1>1, <1>3, <1>4, <1>a, <2>10, <3>1 DEF Backed
  <2> QED
    BY <2>11, <2>12, <2>13
<1> QED
  BY <1>3, <1>5 DEF Sound

\* A batch is settled.
AllSettled(a, h, f, outcome) ==
    h = [w \in Wallets |-> h[w]] /\ \A w \in Wallets : SettledTo(a[w], h[w], f, w, outcome)

LEMMA GoodSettle ==
  ASSUME NEW a, NEW e, Good(a, e), NEW b \in Batches, NEW outcome \in {"confirmed", "failed"},
         NEW h, AllSettled(a, h, e.fills[b], outcome), NEW g \in EvType, Settles(e, g, b, outcome)
  PROVE  Good(h, g)
<1>0. e \in EvType /\ Untouched(e) /\ Unstarted(e)
  BY DEF Good
<1>1. ASSUME NEW w \in Wallets PROVE h[w] \in AcctType /\ Sound(h[w], g, w)
  <2> DEFINE c == h[w]
  <2>1. SettledTo(a[w], c, e.fills[b], w, outcome)
    BY DEF AllSettled
  <2> HIDE DEF c
  <2>2. c \in AcctType /\ Sound(c, g, w)
    BY <2>1, SoundSettled
  <2> QED
    BY <2>2 DEF c
<1>2. h \in [Wallets -> AcctType]
  BY <1>1 DEF AllSettled
<1>3. Untouched(g)
  BY <1>0 DEF Untouched, Settles
<1>4. Unstarted(g)
  <2>1. e.phase \in [Batches -> Phases]
    BY <1>0, EvFields
  <2> QED
    BY <1>0, <2>1 DEF Unstarted, Settles
<1> QED
  BY <1>1, <1>2, <1>3, <1>4 DEF Good

\* The handler of a batch reaches its end.
LEMMA GoodEnd ==
  ASSUME NEW a, NEW e, Good(a, e), NEW b \in Batches, NEW g \in EvType, Ends(e, g, b)
  PROVE  Good(a, g)
<1> USE DEF Ends
<1>0. e \in EvType /\ Untouched(e) /\ Unstarted(e) /\ a \in [Wallets -> AcctType]
  BY DEF Good
<1>1. \A w, x : Coming(g, w, x) = Coming(e, w, x) /\ Stands(g, w, x) = Stands(e, w, x)
  <2>1. e.phase[b] = "filling" /\ g.fills = e.fills /\ g.phase = [e.phase EXCEPT ![b] = "applied"]
    OBVIOUS
  <2> HIDE DEF Ends
  <2> QED
    BY <1>0, <2>1, SumsEnd
<1>2. \A w, x : Needed(g, w, x) = Needed(e, w, x) /\ Moved(g, w) = Moved(e, w)
  BY SumsSame
<1>3. ASSUME NEW w \in Wallets PROVE Sound(a[w], g, w)
  <2>1. Sound(a[w], e, w)
    BY DEF Good
  <2>2. Elsewhere(e, g, w)
    BY <1>1, <1>2 DEF Elsewhere
  <2> QED
    BY <2>1, <2>2, SoundElsewhere
<1>4. Untouched(g)
  BY <1>0 DEF Untouched
<1>5. Unstarted(g)
  <2>1. e.phase \in [Batches -> Phases]
    BY <1>0, EvFields
  <2> QED
    BY <1>0, <2>1 DEF Unstarted
<1> QED
  BY <1>0, <1>3, <1>4, <1>5 DEF Good

-----------------------------------------------------------------------------
(* A fill *)

\* Division and the cost of a lot grow with their arguments.
LEMMA DivMonotone ==
  ASSUME NEW x \in Nat, NEW y \in Nat, x <= y, NEW d \in Nat \ {0}
  PROVE  x \div d <= y \div d
<1> DEFINE i == x \div d
           j == y \div d
<1>1. i \in Nat /\ j \in Nat /\ d * i <= x /\ y < d * j + d
  BY DivBounds
<1> HIDE DEF i, j
<1>2. \A k, l \in Nat : k >= l + 1 => d * k >= d * l + d
  <2> TAKE k, l \in Nat
  <2> HAVE k >= l + 1
  <2>1. PICK m \in Nat : k = l + 1 + m
    <3>1. k - l - 1 \in Nat
      OBVIOUS
    <3> QED
      BY <3>1
  <2>2. d * k = d * l + d + d * m /\ d * m \in Nat /\ d * l \in Nat
    BY <2>1
  <2> QED
    BY <2>2
<1>3. d * i \in Nat /\ d * j \in Nat
  BY <1>1
<1>4. ~(i >= j + 1)
  BY <1>1, <1>2, <1>3
<1>5. i <= j
  BY <1>1, <1>4
<1> QED
  BY <1>5 DEF i, j

LEMMA CostMonotone ==
  ASSUME NEW q \in Nat, NEW i \in Nat, NEW j \in Nat, i <= j
  PROVE  ceilMulDiv(q, i) <= ceilMulDiv(q, j)
<1>1. Scale \in Nat \ {0}
  BY ScaleAssumption
<1>2. q * i \in Nat /\ q * j \in Nat /\ q * i <= q * j
  <2>1. PICK k \in Nat : j = i + k
    <3>1. j - i \in Nat
      OBVIOUS
    <3> QED
      BY <3>1
  <2>2. q * j = q * i + q * k /\ q * k \in Nat /\ q * i \in Nat
    BY <2>1
  <2> QED
    BY <2>2
<1> DEFINE x == q * i + Scale - 1
           y == q * j + Scale - 1
<1>3. x \in Nat /\ y \in Nat /\ x <= y
  <2>1. \A k, l \in Nat : k <= l => k + Scale - 1 \in Nat /\ l + Scale - 1 \in Nat
                                    /\ k + Scale - 1 <= l + Scale - 1
    BY ScaleAssumption
  <2> QED
    BY <1>2, <2>1
<1>4. ceilMulDiv(q, i) = (IF q = 0 \/ i = 0 THEN 0 ELSE x \div Scale)
      /\ ceilMulDiv(q, j) = (IF q = 0 \/ j = 0 THEN 0 ELSE y \div Scale)
  BY DEF ceilMulDiv
<1> HIDE DEF x, y
<1>5. x \div Scale <= y \div Scale /\ x \div Scale \in Nat /\ y \div Scale \in Nat
  BY <1>1, <1>3, DivMonotone, DivBounds
<1> QED
  BY <1>4, <1>5

\* The fill uses no more than is left of the order, and a limit order to buy
\* pays no more than its limit.
Fits(e, o, q, pr) ==
    /\ Used(o, q, pr) <= e.left[o]
    /\ Buys(o) /\ ~MarketBuy(o) => EffectivePrice(Order[o].outcome, pr) <= Order[o].tick

\* What a fill credits and does not find, for an account.
ShortOf(a, o, q, pr) == Paid(o, q, pr) - Smaller(Paid(o, q, pr), Taken(a, o, q, pr))

\* A fill takes the reserve of what it uses, and costs no more.
LEMMA ReserveCovers ==
  ASSUME NEW e, NEW o \in Orders, NEW q \in Nat, NEW pr \in Prices, Fits(e, o, q, pr)
  PROVE  /\ ReserveOf(o, q, pr) = Required(o, Used(o, q, pr))
         /\ Paid(o, q, pr) <= ReserveOf(o, q, pr)
         /\ Used(o, q, pr) \in Nat
<1>1. Cost(o, q, pr) \in Nat
  BY CostType
<1>2. CASE Buys(o) /\ ~MarketBuy(o)
  <2>1. EffectivePrice(Order[o].outcome, pr) \in Nat
    BY ScaleAssumption DEF EffectivePrice, Prices
  <2>2. Order[o].tick \in Nat
    BY OrderType, ScaleAssumption DEF Prices
  <2>3. EffectivePrice(Order[o].outcome, pr) <= Order[o].tick
    BY <1>2 DEF Fits
  <2>4. ceilMulDiv(q, EffectivePrice(Order[o].outcome, pr)) <= ceilMulDiv(q, Order[o].tick)
    BY <2>1, <2>2, <2>3, CostMonotone
  <2>5. /\ ReserveOf(o, q, pr) = ceilMulDiv(q, Order[o].tick)
        /\ Paid(o, q, pr) = ceilMulDiv(q, EffectivePrice(Order[o].outcome, pr))
        /\ Used(o, q, pr) = q
        /\ Required(o, q) = ceilMulDiv(q, Order[o].tick)
    BY <1>2 DEF ReserveOf, Paid, Used, Required, Cost, actualUnitsForOrder, reserveUnitsForLots
  <2> QED
    BY <2>4, <2>5
<1>3. CASE MarketBuy(o)
  BY <1>1, <1>3 DEF ReserveOf, Paid, Used, Required, MarketBuy
<1>4. CASE ~Buys(o)
  BY <1>1, <1>4 DEF ReserveOf, Paid, Used, Required, MarketBuy
<1> QED
  BY <1>2, <1>3, <1>4

\* What a fill does to what its order's wallet gains, loses and needs.
LEMMA FilledFor ==
  ASSUME NEW e \in EvType, Unstarted(e), NEW g \in EvType, NEW b \in Batches,
         NEW m \in Orders, NEW t \in Orders, Order[m].wallet # Order[t].wallet,
         NEW q \in Nat, NEW pr \in Prices, Fills(e, g, b, m, t, q, pr),
         NEW o \in {m, t}, NEW w, w = Order[o].wallet, NEW x \in Assets
  PROVE  /\ Coming(g, w, x) = Coming(e, w, x) + (IF x = Gets(o) THEN Got(o, q, pr) ELSE 0)
         /\ Stands(g, w, x) = Stands(e, w, x) + (IF x = Gets(o) THEN Got(o, q, pr) ELSE 0)
                                - (IF x = Pays(o) THEN Paid(o, q, pr) ELSE 0)
<1> DEFINE r == [maker |-> m, taker |-> t, qty |-> q, price |-> pr]
           old == e.fills[b]
           new == Append(old, r)
<1>1. old \in Seq(Fill) /\ r \in Fill
  BY EvFields DEF Fill
<1>2. r.maker = m /\ r.taker = t /\ r.qty = q /\ r.price = pr
  OBVIOUS
<1>3. FilledSums(e, g, b, new, w, x)
  BY SumsFill
<1> HIDE DEF r
<1>4. /\ Gain(new, w, x) = Gain(old, w, x) + (IF x = Gets(o) THEN Got(o, r.qty, r.price) ELSE 0)
      /\ Loss(new, w, x) = Loss(old, w, x) + (IF x = Pays(o) THEN Paid(o, r.qty, r.price) ELSE 0)
  <2>1. Order[r.maker].wallet # Order[r.taker].wallet /\ o \in {r.maker, r.taker}
    BY <1>2
  <2> QED
    BY <1>1, <2>1, FillEffect
<1> DEFINE G == IF x = Gets(o) THEN Got(o, q, pr) ELSE 0
           L == IF x = Pays(o) THEN Paid(o, q, pr) ELSE 0
<1>5. G \in Nat /\ L \in Nat /\ Gain(old, w, x) \in Nat /\ Loss(old, w, x) \in Nat
  <2>1. o \in Orders /\ Got(o, q, pr) \in Nat /\ Paid(o, q, pr) \in Nat
    BY ReserveType
  <2> QED
    BY <1>1, <2>1, GainType
<1>6. Gain(new, w, x) = Gain(old, w, x) + G /\ Loss(new, w, x) = Loss(old, w, x) + L
  BY <1>2, <1>4
<1>7. Coming(e, w, x) \in Nat /\ Stands(e, w, x) \in Int
  BY SumTypes
<1>8. /\ Coming(g, w, x) = Coming(e, w, x) + (Gain(new, w, x) - Gain(old, w, x))
      /\ Stands(g, w, x) = Stands(e, w, x) + ((Gain(new, w, x) - Loss(new, w, x)) - (Gain(old, w, x) - Loss(old, w, x)))
  BY <1>3 DEF FilledSums, Net
<1> HIDE DEF G, L, old, new
<1>9. Coming(g, w, x) = Coming(e, w, x) + G /\ Stands(g, w, x) = Stands(e, w, x) + G - L
  BY <1>5, <1>6, <1>7, <1>8
<1> QED
  BY <1>9 DEF G, L

\* What the wallet needs after a fill of its order.
LEMMA NeededFilled ==
  ASSUME NEW e \in EvType, NEW g \in EvType, NEW b \in Batches,
         NEW m \in Orders, NEW t \in Orders, Order[m].wallet # Order[t].wallet,
         NEW q \in Nat, NEW pr \in Prices, Fills(e, g, b, m, t, q, pr),
         NEW o \in {m, t}, NEW w, w = Order[o].wallet, NEW x \in Assets
  PROVE  /\ g.left[o] = e.left[o] - Used(o, q, pr)
         /\ NeedsLess(e, g, w, x, o)
<1>1. /\ g.left = [p \in Orders |-> e.left[p] - IF p \in {m, t} THEN Used(p, q, pr) ELSE 0]
      /\ g.booked = e.booked
  BY DEF Fills
<1>2. e.left \in [Orders -> Nat] /\ e.booked \subseteq Orders
  BY EvFields
<1>3. \A p \in Orders \ {m, t} : g.left[p] = e.left[p]
  BY <1>1, <1>2
<1>4. OnlyLeft(e, g, w, x, o)
  <2> SUFFICES ASSUME NEW p \in OpenOf(e, w, x) \ {o} PROVE g.left[p] = e.left[p]
    BY DEF OnlyLeft
  <2>1. p \in Orders /\ p \notin {m, t}
    BY <1>2 DEF OpenOf
  <2> QED
    BY <1>3, <2>1
<1>5. NeedsLess(e, g, w, x, o)
  BY <1>1, <1>4, NeededLeft
<1> QED
  BY <1>1, <1>5

\* A fill: what is credited is pending, what it costs comes from what is
\* locked, and what is not found is counted.
LEMMA SoundFilled ==
  ASSUME NEW a, NEW e, Good(a, e), NEW g \in EvType, NEW b \in Batches,
         NEW m \in Orders, NEW t \in Orders, Order[m].wallet # Order[t].wallet,
         NEW q \in Nat, NEW pr \in Prices, Fills(e, g, b, m, t, q, pr),
         NEW o \in {m, t}, NEW w, w = Order[o].wallet, Fits(e, o, q, pr),
         NEW c, c = applyFillForOrder(a[w], o, q, pr),
         g.short[w] = [e.short[w] EXCEPT ![Pays(o)] = @ + ShortOf(a[w], o, q, pr)]
  PROVE  c \in AcctType /\ Sound(c, g, w)
<1> DEFINE p == Pays(o)
           y == Gets(o)
           k == Taken(a[w], o, q, pr)
           paid == Paid(o, q, pr)
           got == Got(o, q, pr)
           u == Used(o, q, pr)
           L == e.left[o]
<1>0. e \in EvType /\ Unstarted(e)
  BY DEF Good
<1>1. o \in Orders /\ w \in Wallets /\ p \in Assets /\ y \in Assets /\ p # y /\ (Buys(o) <=> p = "usdc")
  <2>1. o \in Orders
    OBVIOUS
  <2>2. w \in Wallets /\ p \in Assets /\ y \in Assets /\ p # y /\ Order[o].outcome \in {"yes", "no"}
    BY <2>1, OrderType
  <2> QED
    BY <2>1, <2>2 DEF Pays
<1>2. /\ a[w] \in AcctType
      /\ \A x \in Assets :
              /\ Balanced(a[w], e, w, x) /\ Covered(a[w], e, w, x) /\ Backed(a[w], e, w, x)
              /\ a[w][x].avail \in Nat /\ a[w][x].locked \in Nat /\ a[w][x].pending \in Nat
              /\ Start[w][x] \in Nat /\ e.short[w][x] \in Nat
              /\ Coming(e, w, x) \in Nat /\ Stands(e, w, x) \in Int /\ Needed(e, w, x) \in Nat
      /\ Moved(e, w) \in Int /\ a[w].coll \in Nat
  BY <1>1, GoodParts
<1>3. paid \in Nat /\ got \in Nat /\ ReserveOf(o, q, pr) \in Nat
  BY <1>1, ReserveType
<1>4. k \in Nat /\ k <= a[w][p].locked /\ k <= ReserveOf(o, q, pr)
  BY <1>1, <1>2, <1>3, SmallerFacts DEF Taken
<1>5. ReserveOf(o, q, pr) = Required(o, u) /\ paid <= ReserveOf(o, q, pr) /\ u \in Nat
  BY <1>1, ReserveCovers
<1>6. /\ c \in AcctType
      /\ c[p].avail = a[w][p].avail + (IF k > paid THEN k - paid ELSE 0)
      /\ c[p].locked = a[w][p].locked - k /\ c[p].pending = a[w][p].pending
      /\ c[y].avail = a[w][y].avail /\ c[y].locked = a[w][y].locked
      /\ c[y].pending = a[w][y].pending + got
      /\ \A z \in Assets \ {p, y} : c[z] = a[w][z]
      /\ c.coll = IF Buys(o) THEN a[w].coll - Smaller(k, a[w].coll) ELSE a[w].coll
  <2>1. FillDone(a[w], c, o, q, pr)
    BY <1>1, <1>2, FillFacts
  <2>2. (IF Buys(o) /\ k > Cost(o, q, pr) THEN k - Cost(o, q, pr) ELSE 0) = IF k > paid THEN k - paid ELSE 0
    <3>1. CASE Buys(o)
      <4>1. paid = Cost(o, q, pr)
        BY <3>1 DEF Paid
      <4> QED
        BY <3>1, <4>1
    <3>2. CASE ~Buys(o)
      <4>1. ReserveOf(o, q, pr) = paid
        BY <3>2 DEF ReserveOf
      <4> QED
        BY <1>3, <1>4, <3>2, <4>1
    <3> QED
      BY <3>1, <3>2
  <2> QED
    BY <2>1, <2>2 DEF FillDone
<1>7. /\ g.short[w][p] = e.short[w][p] + (paid - Smaller(paid, k))
      /\ \A x \in Assets \ {p} : g.short[w][x] = e.short[w][x]
  <2>1. e.short[w] \in [Assets -> Nat]
    BY <1>0, <1>1, EvFields
  <2> QED
    BY <1>1, <2>1 DEF ShortOf
<1>8. ASSUME NEW x \in Assets
      PROVE  /\ Coming(g, w, x) = Coming(e, w, x) + (IF x = y THEN got ELSE 0)
             /\ Stands(g, w, x) = Stands(e, w, x) + (IF x = y THEN got ELSE 0) - (IF x = p THEN paid ELSE 0)
  BY <1>0, FilledFor
<1>9. Moved(g, w) = Moved(e, w)
  BY SumsSame DEF Fills
<1>10. g.left[o] = L - u /\ \A x \in Assets : NeedsLess(e, g, w, x, o)
  <2>1. ASSUME NEW x \in Assets
        PROVE  g.left[o] = e.left[o] - Used(o, q, pr) /\ NeedsLess(e, g, w, x, o)
    BY <1>0, NeededFilled
  <2>2. "usdc" \in Assets
    BY DEF Assets
  <2> QED
    BY <2>1, <2>2
<1>11. g.netted = e.netted
  BY DEF Fills
<1> HIDE DEF p, y, k, paid, got, u, L
<1>12. ASSUME w \notin g.strained
       PROVE  /\ w \notin e.strained /\ o \in OpenOf(e, w, p) /\ k = Required(o, u)
              /\ Required(o, L) = Required(o, u) + Required(o, L - u)
              /\ Required(o, L) \in Nat /\ Required(o, u) \in Nat /\ Required(o, L - u) \in Nat
  <2>1. w \notin e.strained /\ o \in e.booked /\ ~Rounds(o, e.left[o], Used(o, q, pr))
    BY <1>12 DEF Fills
  <2>2. o \in OpenOf(e, w, p)
    BY <2>1 DEF OpenOf, p
  <2>3. Required(o, L) = Required(o, u) + Required(o, L - u)
    BY <2>1 DEF Rounds, L, u
  <2>4. L \in Nat /\ L - u \in Nat
    <3>1. L \in Nat
      BY <1>0, <1>1, EvFields DEF L
    <3>2. u <= L
      BY DEF Fits, L, u
    <3> QED
      BY <1>5, <3>1, <3>2
  <2>5. Required(o, L) \in Nat /\ Required(o, u) \in Nat /\ Required(o, L - u) \in Nat
    BY <1>1, <1>5, <2>4, ReserveType
  <2>6. Required(o, L) <= Needed(e, w, p)
    BY <1>0, <2>2, NeededBounds DEF L
  <2>7. a[w][p].locked = Needed(e, w, p)
    BY <1>1, <1>2, <2>1 DEF Backed
  <2>8. Required(o, u) <= a[w][p].locked
    BY <1>1, <1>2, <2>3, <2>5, <2>6, <2>7
  <2>9. k = Required(o, u)
    <3>1. k = Smaller(Required(o, u), a[w][p].locked)
      BY <1>5 DEF k, Taken, p
    <3>2. a[w][p].locked \in Nat
      BY <1>1, <1>2
    <3>3. \A i, j \in Nat : i <= j => Smaller(i, j) = i
      BY DEF Smaller
    <3> QED
      BY <2>5, <2>8, <3>1, <3>2, <3>3
  <2> QED
    BY <2>1, <2>2, <2>3, <2>5, <2>9
<1>13. ASSUME NEW x \in Assets PROVE Balanced(c, g, w, x)
  <2>1. CASE x = p
    <3>1. BalTotal(c[x]) = BalTotal(a[w][x]) - Smaller(paid, k) /\ BalTotal(a[w][x]) \in Int
      <4>1. /\ a[w][x].avail \in Nat /\ a[w][x].locked \in Nat /\ a[w][x].pending \in Nat
            /\ c[x].avail = a[w][x].avail + (IF k > paid THEN k - paid ELSE 0)
            /\ c[x].locked = a[w][x].locked - k /\ c[x].pending = a[w][x].pending
        BY <1>2, <1>6, <2>1
      <4>2. (IF k > paid THEN k - paid ELSE 0) = k - Smaller(paid, k) /\ Smaller(paid, k) \in Nat
        BY <1>3, <1>4 DEF Smaller
      <4>3. c[x].avail = a[w][x].avail + (k - Smaller(paid, k))
        BY <4>1, <4>2
      <4> QED
        BY <1>4, <4>1, <4>2, <4>3 DEF BalTotal
    <3>2. Stands(g, w, x) = Stands(e, w, x) - paid
      BY <1>1, <1>2, <1>3, <1>8, <2>1
    <3>3. g.short[w][x] = e.short[w][x] + (paid - Smaller(paid, k)) /\ Smaller(paid, k) \in Nat
      BY <1>3, <1>4, <1>7, <2>1, SmallerFacts
    <3>4. ASSUME x = "usdc" \/ w \notin g.netted
          PROVE  BalTotal(c[x]) = Start[w][x] + (IF x = "usdc" THEN Moved(g, w) ELSE 0)
                                    + g.short[w][x] + Stands(g, w, x)
      <4>1. BalTotal(a[w][x]) = Start[w][x] + (IF x = "usdc" THEN Moved(e, w) ELSE 0)
                                  + e.short[w][x] + Stands(e, w, x)
        BY <1>2, <1>11, <3>4 DEF Balanced
      <4> QED
        BY <1>2, <1>3, <1>9, <3>1, <3>2, <3>3, <4>1
    <3> QED
      BY <3>4 DEF Balanced
  <2>2. CASE x = y
    <3>1. BalTotal(c[x]) = BalTotal(a[w][x]) + got /\ BalTotal(a[w][x]) \in Int
      <4>1. /\ a[w][x].avail \in Nat /\ a[w][x].locked \in Nat /\ a[w][x].pending \in Nat
            /\ c[x].avail = a[w][x].avail /\ c[x].locked = a[w][x].locked
            /\ c[x].pending = a[w][x].pending + got
        BY <1>2, <1>6, <2>2
      <4> QED
        BY <1>3, <4>1 DEF BalTotal
    <3>2. Stands(g, w, x) = Stands(e, w, x) + got
      BY <1>1, <1>2, <1>3, <1>8, <2>2
    <3>3. g.short[w][x] = e.short[w][x]
      BY <1>1, <1>7, <2>2
    <3>4. ASSUME x = "usdc" \/ w \notin g.netted
          PROVE  BalTotal(c[x]) = Start[w][x] + (IF x = "usdc" THEN Moved(g, w) ELSE 0)
                                    + g.short[w][x] + Stands(g, w, x)
      <4>1. BalTotal(a[w][x]) = Start[w][x] + (IF x = "usdc" THEN Moved(e, w) ELSE 0)
                                  + e.short[w][x] + Stands(e, w, x)
        BY <1>2, <1>11, <3>4 DEF Balanced
      <4> QED
        BY <1>2, <1>3, <1>9, <3>1, <3>2, <3>3, <4>1
    <3> QED
      BY <3>4 DEF Balanced
  <2>3. CASE x \notin {p, y}
    <3>1. c[x] = a[w][x] /\ g.short[w][x] = e.short[w][x]
      BY <1>6, <1>7, <2>3
    <3>2. Stands(g, w, x) = Stands(e, w, x)
      BY <1>2, <1>8, <2>3
    <3> QED
      BY <1>2, <1>9, <1>11, <3>1, <3>2 DEF Balanced
  <2> QED
    BY <2>1, <2>2, <2>3
<1>14. ASSUME NEW x \in Assets PROVE Covered(c, g, w, x)
  <2>1. /\ c[x].pending = a[w][x].pending + (IF x = y THEN got ELSE 0)
        /\ Coming(g, w, x) = Coming(e, w, x) + (IF x = y THEN got ELSE 0)
    <3>1. a[w][x].pending \in Nat
      BY <1>2
    <3>2. CASE x = y
      BY <1>6, <1>8, <3>2
    <3>3. CASE x # y
      <4>1. c[x].pending = a[w][x].pending
        BY <1>6, <3>3
      <4> QED
        BY <1>8, <3>1, <3>3, <4>1
    <3> QED
      BY <3>2, <3>3
  <2> QED
    BY <1>2, <1>3, <1>11, <2>1 DEF Covered
<1>15. ASSUME NEW x \in Assets PROVE Backed(c, g, w, x)
  <2> SUFFICES ASSUME w \notin g.strained
               PROVE  c[x].locked = Needed(g, w, x) /\ g.short[w][x] = 0 /\ c.coll = c["usdc"].locked
    BY DEF Backed
  <2>1. a[w][x].locked = Needed(e, w, x) /\ e.short[w][x] = 0 /\ a[w].coll = a[w]["usdc"].locked
    BY <1>2, <1>12 DEF Backed
  <2>5. c.coll = c["usdc"].locked
    <3>1. CASE Buys(o)
      <4>1. p = "usdc" /\ k <= a[w].coll
        BY <1>1, <1>4, <2>1, <3>1
      <4>2. Smaller(k, a[w].coll) = k
        BY <1>2, <1>4, <4>1 DEF Smaller
      <4> QED
        BY <1>6, <2>1, <3>1, <4>1, <4>2
    <3>2. CASE ~Buys(o)
      <4>1. "usdc" # p /\ "usdc" \in Assets
        BY <1>1, <3>2 DEF Assets
      <4>2. c["usdc"].locked = a[w]["usdc"].locked
        BY <1>6, <4>1
      <4> QED
        BY <1>6, <2>1, <3>2, <4>2
    <3> QED
      BY <3>1, <3>2
  <2>2. CASE x = p
    <3>1. Needed(g, w, x) = Needed(e, w, x) + (Required(o, L - u) - Required(o, L))
      BY <1>10, <1>12, <2>2 DEF NeedsLess, L
    <3>2. c[x].locked = Needed(g, w, x)
      <4>1. c[x].locked = Needed(e, w, x) - Required(o, u) /\ Needed(e, w, x) \in Nat
        BY <1>2, <1>6, <1>12, <2>1, <2>2
      <4> QED
        BY <1>12, <3>1, <4>1
    <3>3. Smaller(paid, k) = paid
      BY <1>3, <1>4, <1>5, <1>12 DEF Smaller
    <3>4. g.short[w][x] = 0
      BY <1>3, <1>7, <2>1, <2>2, <3>3
    <3> QED
      BY <3>2, <3>4, <2>5
  <2>3. CASE x # p
    <3>1. o \notin OpenOf(e, w, x)
      BY <2>3 DEF OpenOf, p
    <3>2. Needed(g, w, x) = Needed(e, w, x)
      BY <1>10, <3>1 DEF NeedsLess
    <3>3. c[x].locked = a[w][x].locked
      BY <1>6, <2>3
    <3>4. g.short[w][x] = 0
      BY <1>7, <2>1, <2>3
    <3> QED
      BY <2>1, <2>5, <3>2, <3>3, <3>4
  <2> QED
    BY <2>2, <2>3
<1> QED
  BY <1>6, <1>13, <1>14, <1>15 DEF Sound

\* The fill does not concern the other wallets.
LEMMA FilledElsewhere ==
  ASSUME NEW e \in EvType, Unstarted(e), NEW g \in EvType, NEW b \in Batches,
         NEW m \in Orders, NEW t \in Orders, Order[m].wallet # Order[t].wallet,
         NEW q \in Nat, NEW pr \in Prices, Fills(e, g, b, m, t, q, pr),
         NEW w \in Wallets, w \notin {Order[m].wallet, Order[t].wallet}, g.short[w] = e.short[w]
  PROVE  Elsewhere(e, g, w)
<1> DEFINE r == [maker |-> m, taker |-> t, qty |-> q, price |-> pr]
           old == e.fills[b]
           new == Append(old, r)
<1>1. old \in Seq(Fill) /\ r \in Fill
  BY EvFields DEF Fill
<1>2. r.maker = m /\ r.taker = t
  OBVIOUS
<1>3. \A x : FilledSums(e, g, b, new, w, x)
  BY SumsFill
<1> HIDE DEF r
<1>4. ASSUME NEW x \in Assets
      PROVE  Coming(g, w, x) = Coming(e, w, x) /\ Stands(g, w, x) = Stands(e, w, x)
  <2>1. Gain(new, w, x) = Gain(old, w, x) /\ Loss(new, w, x) = Loss(old, w, x)
    BY <1>1, <1>2, FillElsewhere
  <2>2. /\ Coming(g, w, x) = Coming(e, w, x) + (Gain(new, w, x) - Gain(old, w, x))
        /\ Stands(g, w, x) = Stands(e, w, x)
              + ((Gain(new, w, x) - Loss(new, w, x)) - (Gain(old, w, x) - Loss(old, w, x)))
    BY <1>3 DEF FilledSums, Net
  <2>3. Gain(old, w, x) \in Nat /\ Loss(old, w, x) \in Nat
    BY <1>1, GainType
  <2>4. Coming(e, w, x) \in Nat /\ Stands(e, w, x) \in Int
    BY SumTypes
  <2> HIDE DEF old, new
  <2> QED
    BY <2>1, <2>2, <2>3, <2>4
<1>5. /\ g.left = [p \in Orders |-> e.left[p] - IF p \in {m, t} THEN Used(p, q, pr) ELSE 0]
      /\ g.booked = e.booked
  BY DEF Fills
<1>6. e.left \in [Orders -> Nat] /\ e.booked \subseteq Orders
  BY EvFields
<1>7. \A p \in Orders \ {m, t} : g.left[p] = e.left[p]
  BY <1>5, <1>6
<1>8. ASSUME NEW x \in Assets PROVE Needed(g, w, x) = Needed(e, w, x)
  <2>1. OnlyLeft(e, g, w, x, m)
    BY <1>6, <1>7 DEF OnlyLeft, OpenOf
  <2>2. NeedsLess(e, g, w, x, m)
    BY <1>5, <2>1, NeededLeft
  <2> QED
    BY <2>2 DEF NeedsLess, OpenOf
<1>9. Moved(g, w) = Moved(e, w)
  BY SumsSame DEF Fills
<1>10. (w \in e.strained => w \in g.strained) /\ (w \in e.netted => w \in g.netted)
  BY DEF Fills
<1> QED
  BY <1>4, <1>8, <1>9, <1>10 DEF Elsewhere

\* What a fill does to the accounts, and what it counts as not found.
AcctsFilled(a, h, m, t, q, pr) ==
    /\ h = [w \in Wallets |-> h[w]]
    /\ \A o \in {m, t} : h[Order[o].wallet] = applyFillForOrder(a[Order[o].wallet], o, q, pr)
    /\ \A w \in Wallets \ {Order[m].wallet, Order[t].wallet} : h[w] = a[w]

ShortFilled(a, e, g, m, t, q, pr) ==
    /\ \A o \in {m, t} :
          g.short[Order[o].wallet] = [e.short[Order[o].wallet] EXCEPT ![Pays(o)] =
                                         @ + ShortOf(a[Order[o].wallet], o, q, pr)]
    /\ \A w \in Wallets \ {Order[m].wallet, Order[t].wallet} : g.short[w] = e.short[w]

LEMMA GoodFill ==
  ASSUME NEW a, NEW e, Good(a, e), NEW g \in EvType, NEW b \in Batches,
         NEW m \in Orders, NEW t \in Orders, Order[m].wallet # Order[t].wallet,
         NEW q \in Nat, NEW pr \in Prices, Fills(e, g, b, m, t, q, pr),
         Fits(e, m, q, pr), Fits(e, t, q, pr),
         NEW h, AcctsFilled(a, h, m, t, q, pr), ShortFilled(a, e, g, m, t, q, pr)
  PROVE  Good(h, g)
<1>0. e \in EvType /\ Unstarted(e) /\ Untouched(e) /\ a \in [Wallets -> AcctType]
  BY DEF Good
<1>1. ASSUME NEW w \in Wallets PROVE h[w] \in AcctType /\ Sound(h[w], g, w)
  <2>1. CASE w \in {Order[m].wallet, Order[t].wallet}
    <3>1. PICK o \in {m, t} : w = Order[o].wallet
      BY <2>1
    <3> DEFINE c == h[w]
    <3>2. c = applyFillForOrder(a[w], o, q, pr)
      BY <3>1 DEF AcctsFilled
    <3>3. g.short[w] = [e.short[w] EXCEPT ![Pays(o)] = @ + ShortOf(a[w], o, q, pr)]
      BY <3>1 DEF ShortFilled
    <3>4. Fits(e, o, q, pr)
      OBVIOUS
    <3> HIDE DEF c
    <3>5. c \in AcctType /\ Sound(c, g, w)
      BY <3>1, <3>2, <3>3, <3>4, SoundFilled
    <3> QED
      BY <3>5 DEF c
  <2>2. CASE w \notin {Order[m].wallet, Order[t].wallet}
    <3>1. h[w] = a[w] /\ g.short[w] = e.short[w]
      BY <2>2 DEF AcctsFilled, ShortFilled
    <3>2. Elsewhere(e, g, w)
      BY <1>0, <2>2, <3>1, FilledElsewhere
    <3>3. Sound(a[w], e, w) /\ a[w] \in AcctType
      BY DEF Good
    <3> QED
      BY <3>1, <3>2, <3>3, SoundElsewhere
  <2> QED
    BY <2>1, <2>2
<1>2. h \in [Wallets -> AcctType]
  BY <1>1 DEF AcctsFilled
<1>3. Untouched(g)
  <2> SUFFICES ASSUME NEW o \in Orders \ g.booked
               PROVE  g.left[o] = Order[o].size \/ Order[o].wallet \in g.strained
    BY DEF Untouched
  <2>1. o \notin e.booked
    BY DEF Fills
  <2>2. CASE o \in {m, t}
    BY <2>1, <2>2 DEF Fills
  <2>3. CASE o \notin {m, t}
    <3>1. e.left \in [Orders -> Nat]
      BY <1>0, EvFields
    <3>2. g.left[o] = e.left[o]
      BY <2>3, <3>1 DEF Fills
    <3>3. Order[o].wallet \in e.strained => Order[o].wallet \in g.strained
      BY DEF Fills
    <3> QED
      BY <1>0, <2>1, <3>2, <3>3 DEF Untouched
  <2> QED
    BY <2>2, <2>3
<1>4. Unstarted(g)
  <2>1. e.phase \in [Batches -> Phases] /\ e.fills \in [Batches -> Seq(Fill)]
    BY <1>0, EvFields
  <2>2. /\ g.phase = [e.phase EXCEPT ![b] = "filling"]
        /\ \A c \in Batches \ {b} : g.fills[c] = e.fills[c]
    BY <2>1 DEF Fills
  <2> QED
    BY <1>0, <2>1, <2>2 DEF Unstarted
<1> QED
  BY <1>1, <1>2, <1>3, <1>4 DEF Good

-----------------------------------------------------------------------------
(* The inductive invariant *)

DirtyType == [ledgers : SUBSET Wallets, positions : SUBSET Wallets]
ImageType == [acct : [Wallets -> AcctType], ev : EvType]
CapType   == [at : {"postgres", "redis"}, rows : DirtyType, of : ImageType]

\* The accounts that the rows of Redis show, or will show when what is
\* unwritten is written.
Newest == IF cap = NoCap THEN image.acct ELSE cap.of.acct
Unwritten == IF cap = NoCap THEN dirty ELSE cap.rows

ProjectionType ==
    /\ dirty \in DirtyType /\ image \in ImageType /\ (cap = NoCap \/ cap \in CapType)
    /\ wired \in BOOLEAN /\ (~wired => dirty = Clean /\ cap = NoCap)
    /\ faults \in 0 .. MaxFaults /\ crashes \in 0 .. MaxCrashes

\* Only dirty rows differ from the newest capture, only unwritten ones differ
\* in the databases.
Projected ==
    /\ pg = Rows(image.acct)
    /\ wired => \A w \in Wallets :
          /\ w \in dirty.ledgers \/ Ledger(acct[w]) = Ledger(Newest[w])
          /\ w \in dirty.positions \/ Position(acct[w]) = Position(Newest[w])
    /\ \A w \in Wallets :
          /\ w \in Unwritten.ledgers \/ rd[w].ledger = Ledger(Newest[w])
          /\ w \in Unwritten.positions \/ rd[w].position = Position(Newest[w])
    /\ cap # NoCap /\ cap.at = "postgres" => \A w \in Wallets :
          /\ w \in cap.rows.ledgers \/ pg[w].ledger = Ledger(Newest[w])
          /\ w \in cap.rows.positions \/ pg[w].position = Position(Newest[w])
    /\ cap # NoCap /\ cap.at = "redis" => image = cap.of

ManagerInv ==
    /\ Good(acct, ev) /\ Good(image.acct, image.ev)
    /\ cap # NoCap => Good(cap.of.acct, cap.of.ev)
    /\ ProjectionType /\ Projected

\* What an event does to the dirty index: every row it changes is marked.
Marked(ws, ps) ==
    /\ ws \subseteq Wallets /\ ps \subseteq Wallets
    /\ dirty' = MarkDirty(ws, ps)
    /\ \A w \in Wallets \ (ws \union ps) : acct'[w] = acct[w]
    /\ \A w \in Wallets \ ps : Position(acct'[w]) = Position(acct[w])
    /\ UNCHANGED projection

\* The marks of an event keep the projection right, if they cover its rows.
LEMMA MarkedProjected ==
  ASSUME ProjectionType, Projected, NEW ws, NEW ps, ps \subseteq ws, Marked(ws, ps)
  PROVE  ProjectionType' /\ Projected'
<1>1. /\ dirty' = MarkDirty(ws, ps) /\ ws \subseteq Wallets /\ ps \subseteq Wallets
      /\ \A w \in Wallets \ ws : acct'[w] = acct[w]
      /\ \A w \in Wallets \ ps : Position(acct'[w]) = Position(acct[w])
      /\ cap' = cap /\ pg' = pg /\ rd' = rd /\ image' = image /\ wired' = wired
      /\ faults' = faults /\ crashes' = crashes
  BY DEF Marked, projection
<1>2. /\ dirty \in DirtyType /\ image \in ImageType /\ (cap = NoCap \/ cap \in CapType)
      /\ wired \in BOOLEAN /\ (~wired => dirty = Clean /\ cap = NoCap)
      /\ faults \in 0 .. MaxFaults /\ crashes \in 0 .. MaxCrashes
  BY DEF ProjectionType
<1>3. /\ dirty' \in DirtyType
      /\ wired => /\ dirty'.ledgers = dirty.ledgers \union ws
                  /\ dirty'.positions = dirty.positions \union ps
      /\ ~wired => dirty' = Clean
  <2>1. dirty.ledgers \subseteq Wallets /\ dirty.positions \subseteq Wallets
    BY <1>2 DEF DirtyType
  <2>2. Clean \in DirtyType
    BY DEF Clean, DirtyType
  <2>3. CASE wired
    <3>1. dirty' = [ledgers |-> dirty.ledgers \union ws, positions |-> dirty.positions \union ps]
      BY <1>1, <2>3 DEF MarkDirty
    <3> QED
      BY <1>1, <2>1, <2>3, <3>1 DEF DirtyType
  <2>4. CASE ~wired
    <3>1. dirty' = Clean
      BY <1>1, <2>4 DEF MarkDirty
    <3> QED
      BY <2>2, <2>4, <3>1
  <2> QED
    BY <2>3, <2>4
<1>4. ProjectionType'
  BY <1>1, <1>2, <1>3 DEF ProjectionType
<1>5. Newest' = Newest
  BY <1>1 DEF Newest, NoCap
<1>6. /\ Unwritten.ledgers \subseteq Unwritten'.ledgers
      /\ Unwritten.positions \subseteq Unwritten'.positions
  <2>1. CASE cap = NoCap
    <3>1. Unwritten = dirty /\ Unwritten' = dirty'
      BY <1>1, <2>1 DEF Unwritten, NoCap
    <3>2. CASE wired
      BY <1>3, <3>1, <3>2
    <3>3. CASE ~wired
      BY <1>2, <1>3, <3>1, <3>3
    <3> QED
      BY <3>2, <3>3
  <2>2. CASE cap # NoCap
    <3>1. Unwritten' = Unwritten
      BY <1>1, <2>2 DEF Unwritten, NoCap
    <3> QED
      BY <3>1
  <2> QED
    BY <2>1, <2>2
<1>7. ASSUME wired, NEW w \in Wallets
      PROVE  /\ w \in dirty'.ledgers \/ Ledger(acct'[w]) = Ledger(Newest[w])
             /\ w \in dirty'.positions \/ Position(acct'[w]) = Position(Newest[w])
  <2>1. /\ w \in dirty.ledgers \/ Ledger(acct[w]) = Ledger(Newest[w])
        /\ w \in dirty.positions \/ Position(acct[w]) = Position(Newest[w])
    BY <1>7 DEF Projected
  <2>2. w \in dirty'.ledgers \/ Ledger(acct'[w]) = Ledger(Newest[w])
    BY <1>1, <1>3, <1>7, <2>1
  <2>3. w \in dirty'.positions \/ Position(acct'[w]) = Position(Newest[w])
    BY <1>1, <1>3, <1>7, <2>1
  <2> QED
    BY <2>2, <2>3
<1>8. \A w \in Wallets :
          /\ w \in Unwritten'.ledgers \/ rd[w].ledger = Ledger(Newest[w])
          /\ w \in Unwritten'.positions \/ rd[w].position = Position(Newest[w])
  BY <1>6 DEF Projected
<1>9. Projected'
  BY <1>1, <1>5, <1>7, <1>8 DEF Projected, NoCap, Rows
<1> QED
  BY <1>4, <1>9

-----------------------------------------------------------------------------
(* Updates of the record of the events *)

EvKeys == {"count", "booked", "left", "ended", "again", "phase", "fills", "moved", "short", "strained", "netted"}
IsEv(e) == e = [k \in EvKeys |-> e[k]]
With(e, key, v) == [e EXCEPT ![key] = v]

LEMMA EvShape == ASSUME NEW e \in EvType PROVE IsEv(e)
BY DEF EvType, IsEv, EvKeys

LEMMA EvWith ==
  ASSUME NEW e, IsEv(e), NEW key \in EvKeys, NEW v
  PROVE  /\ IsEv(With(e, key, v)) /\ With(e, key, v)[key] = v
         /\ \A k \in EvKeys \ {key} : With(e, key, v)[k] = e[k]
BY DEF IsEv, With

\* A record with the fields of the events, of their types.
LEMMA EvIs ==
  ASSUME NEW e, IsEv(e), e.count \in Nat, e.booked \in SUBSET Orders, e.left \in [Orders -> Nat],
         e.ended \in [Orders -> Nat], e.again \in SUBSET Orders, e.phase \in [Batches -> Phases],
         e.fills \in [Batches -> Seq(Fill)], e.moved \in SUBSET Transfers,
         e.short \in [Wallets -> [Assets -> Nat]], e.strained \in SUBSET Wallets,
         e.netted \in SUBSET Wallets
  PROVE  e \in EvType
BY DEF EvType, IsEv, EvKeys

\* The count of the events goes up, whatever else an event changes.
LEMMA CountedIs ==
  ASSUME NEW e, IsEv(e), Counted(e)
  PROVE  /\ IsEv(ev') /\ ev'.count = e.count + 1
         /\ \A k \in EvKeys \ {"count"} : ev'[k] = e[k]
<1>1. ev' = With(e, "count", e.count + 1) /\ "count" \in EvKeys
  BY DEF Counted, With, EvKeys
<1> QED
  BY <1>1, EvWith

-----------------------------------------------------------------------------
(* The events keep the accounts right *)

LEMMA ReserveGood ==
  ASSUME Good(acct, ev), NEW o \in Orders, Reserve(o)
  PROVE  Good(acct', ev') /\ \E ws, ps : ps \subseteq ws /\ (Marked(ws, ps) \/ UNCHANGED <<acct, dirty, projection>>)
<1> DEFINE w == Order[o].wallet
           need == Required(o, Order[o].size)
<1>1. ev \in EvType /\ acct \in [Wallets -> AcctType]
  BY DEF Good
<1>2. o \notin ev.booked /\ UNCHANGED projection
  BY DEF Reserve
<1>3. w \in Wallets
  BY OrderType
<1>4. CASE acct[w][Pays(o)].avail >= need
  <2>1. /\ acct' = [acct EXCEPT ![w] = Lock(@, o, need)]
        /\ dirty' = MarkDirty({w}, {w})
        /\ Counted([ev EXCEPT !.booked = @ \union {o}])
    BY <1>4 DEF Reserve
  <2>2. /\ ev' \in EvType /\ ev'.booked = ev.booked \union {o} /\ ev'.left = ev.left
        /\ ev'.fills = ev.fills /\ ev'.phase = ev.phase /\ ev'.moved = ev.moved
        /\ ev'.short = ev.short /\ ev'.strained = ev.strained /\ ev'.netted = ev.netted
    <3> DEFINE e1 == With(ev, "booked", ev.booked \union {o})
    <3>1. IsEv(ev)
      BY <1>1, EvShape
    <3>2. Counted(e1)
      BY <2>1 DEF With
    <3>3. IsEv(e1) /\ e1.booked = ev.booked \union {o} /\ \A k \in EvKeys \ {"booked"} : e1[k] = ev[k]
      BY <3>1, EvWith DEF EvKeys
    <3> HIDE DEF e1
    <3>4. IsEv(ev') /\ ev'.count = e1.count + 1 /\ \A k \in EvKeys \ {"count"} : ev'[k] = e1[k]
      BY <3>2, <3>3, CountedIs
    <3>5. /\ ev'.booked = ev.booked \union {o} /\ ev'.left = ev.left /\ ev'.ended = ev.ended
           /\ ev'.again = ev.again /\ ev'.phase = ev.phase /\ ev'.fills = ev.fills
           /\ ev'.moved = ev.moved /\ ev'.short = ev.short /\ ev'.strained = ev.strained
           /\ ev'.netted = ev.netted /\ ev'.count = ev.count + 1
      BY <3>3, <3>4 DEF EvKeys
    <3>6. ev' \in EvType
      <4>1. ev'.count \in Nat
        BY <1>1, <3>5, EvFields
      <4> QED
        BY <1>1, <3>4, <3>5, <4>1, EvFields, EvIs
    <3> QED
      BY <3>5, <3>6
  <2> HIDE DEF w, need
  <2>3. Good([acct EXCEPT ![w] = Lock(@, o, need)], ev')
    <3>1. Books(ev, ev', o, ev.strained)
      BY <1>2, <2>2 DEF Books
    <3> QED
      BY <1>4, <2>2, <3>1, GoodReserve DEF w, need
  <2>4. Marked({w}, {w})
    BY <1>1, <1>2, <1>3, <2>1 DEF Marked
  <2> QED
    BY <2>1, <2>3, <2>4
<1>5. CASE ~(acct[w][Pays(o)].avail >= need)
  <2>1. /\ Counted([ev EXCEPT !.booked = @ \union {o}, !.strained = @ \union {w}])
        /\ UNCHANGED <<acct, dirty>>
    BY <1>5 DEF Reserve
  <2>2. /\ ev' \in EvType /\ ev'.booked = ev.booked \union {o} /\ ev'.left = ev.left
        /\ ev'.fills = ev.fills /\ ev'.phase = ev.phase /\ ev'.moved = ev.moved
        /\ ev'.short = ev.short /\ ev'.strained = ev.strained \union {w} /\ ev'.netted = ev.netted
    <3> DEFINE e1 == With(ev, "booked", ev.booked \union {o})
               e2 == With(e1, "strained", ev.strained \union {w})
    <3>1. IsEv(ev)
      BY <1>1, EvShape
    <3>2. Counted(e2)
      BY <2>1 DEF With
    <3>3. IsEv(e1) /\ e1.booked = ev.booked \union {o} /\ \A k \in EvKeys \ {"booked"} : e1[k] = ev[k]
      BY <3>1, EvWith DEF EvKeys
    <3> HIDE DEF e1
    <3>4. IsEv(e2) /\ e2.strained = ev.strained \union {w} /\ \A k \in EvKeys \ {"strained"} : e2[k] = e1[k]
      BY <3>3, EvWith DEF EvKeys
    <3> HIDE DEF e2
    <3>5. IsEv(ev') /\ ev'.count = e2.count + 1 /\ \A k \in EvKeys \ {"count"} : ev'[k] = e2[k]
      BY <3>2, <3>4, CountedIs
    <3>6. /\ ev'.booked = ev.booked \union {o} /\ ev'.left = ev.left /\ ev'.ended = ev.ended
           /\ ev'.again = ev.again /\ ev'.phase = ev.phase /\ ev'.fills = ev.fills
           /\ ev'.moved = ev.moved /\ ev'.short = ev.short /\ ev'.strained = ev.strained \union {w}
           /\ ev'.netted = ev.netted /\ ev'.count = ev.count + 1
      BY <3>3, <3>4, <3>5 DEF EvKeys
    <3>7. ev' \in EvType
      <4>1. ev'.count \in Nat
        BY <1>1, <3>6, EvFields
      <4> QED
        BY <1>1, <1>3, <3>5, <3>6, <4>1, EvFields, EvIs
    <3> QED
      BY <3>6, <3>7
  <2>3. Good(acct, ev')
    <3>1. Books(ev, ev', o, ev.strained \union {w})
      BY <1>2, <2>2 DEF Books
    <3> QED
      BY <2>2, <3>1, GoodUnreserved
  <2> QED
    BY <1>2, <2>1, <2>3
<1> QED
  BY <1>4, <1>5

LEMMA ReleaseGood ==
  ASSUME Good(acct, ev), NEW o \in Orders, Release(o)
  PROVE  Good(acct', ev') /\ \E ws, ps : ps \subseteq ws /\ Marked(ws, ps)
<1> DEFINE w == Order[o].wallet
<1>1. ev \in EvType /\ acct \in [Wallets -> AcctType] /\ ev.left \in [Orders -> Nat]
      /\ ev.ended \in [Orders -> Nat] /\ w \in Wallets
  BY EvFields, OrderType DEF Good
<1>2. PICK n \in 1 .. ev.left[o] :
        /\ acct' = [acct EXCEPT ![w] = ReleaseOrder(@, o, n)]
        /\ dirty' = MarkDirty({w}, {w})
        /\ Counted([ev EXCEPT !.ended[o] = n, !.left[o] = @ - n,
                         !.strained = IF o \notin ev.booked \/ Rounds(o, ev.left[o], n)
                                      THEN @ \union {w} ELSE @])
        /\ UNCHANGED projection
  BY DEF Release
<1> DEFINE s == IF o \notin ev.booked \/ Rounds(o, ev.left[o], n) THEN ev.strained \union {w} ELSE ev.strained
           l == [ev.left EXCEPT ![o] = @ - n]
           d == [ev.ended EXCEPT ![o] = n]
<1>3. Counted([ev EXCEPT !.ended = d, !.left = l, !.strained = s])
  BY <1>2
<1>4. s \in SUBSET Wallets /\ l \in [Orders -> Nat] /\ d \in [Orders -> Nat]
  <2>1. ev.strained \subseteq Wallets
    BY <1>1, EvFields
  <2>2. ev.left[o] \in Nat /\ ev.left[o] - n \in Nat /\ n \in Nat
    BY <1>1
  <2> QED
    BY <1>1, <2>1, <2>2
<1> HIDE DEF s, l, d
<1>5. /\ ev' \in EvType /\ ev'.booked = ev.booked /\ ev'.left = l
      /\ ev'.fills = ev.fills /\ ev'.phase = ev.phase /\ ev'.moved = ev.moved
      /\ ev'.short = ev.short /\ ev'.strained = s /\ ev'.netted = ev.netted
  <2> DEFINE e1 == With(ev, "ended", d)
             e2 == With(e1, "left", l)
             e3 == With(e2, "strained", s)
  <2>1. IsEv(ev)
    BY <1>1, EvShape
  <2>2. Counted(e3)
    BY <1>3 DEF With
  <2>3. IsEv(e1) /\ e1.ended = d /\ \A k \in EvKeys \ {"ended"} : e1[k] = ev[k]
    BY <2>1, EvWith DEF EvKeys
  <2> HIDE DEF e1
  <2>4. IsEv(e2) /\ e2.left = l /\ \A k \in EvKeys \ {"left"} : e2[k] = e1[k]
    BY <2>3, EvWith DEF EvKeys
  <2> HIDE DEF e2
  <2>5. IsEv(e3) /\ e3.strained = s /\ \A k \in EvKeys \ {"strained"} : e3[k] = e2[k]
    BY <2>4, EvWith DEF EvKeys
  <2> HIDE DEF e3
  <2>6. IsEv(ev') /\ ev'.count = e3.count + 1 /\ \A k \in EvKeys \ {"count"} : ev'[k] = e3[k]
    BY <2>2, <2>5, CountedIs
  <2>7. /\ ev'.booked = ev.booked /\ ev'.left = l /\ ev'.ended = d
         /\ ev'.again = ev.again /\ ev'.phase = ev.phase /\ ev'.fills = ev.fills
         /\ ev'.moved = ev.moved /\ ev'.short = ev.short /\ ev'.strained = s
         /\ ev'.netted = ev.netted /\ ev'.count = ev.count + 1
    BY <2>3, <2>4, <2>5, <2>6 DEF EvKeys
  <2>8. ev' \in EvType
    <3>1. ev'.count \in Nat
      BY <1>1, <2>7, EvFields
    <3> QED
      BY <1>1, <1>4, <2>6, <2>7, <3>1, EvFields, EvIs
  <2> QED
    BY <2>7, <2>8
<1>6. Good([acct EXCEPT ![w] = ReleaseOrder(@, o, n)], ev')
  <2>1. Releases(ev, ev', o, n)
    BY <1>5 DEF Releases, s, l
  <2> QED
    BY <1>5, <2>1, GoodRelease
<1>7. Marked({w}, {w})
  BY <1>1, <1>2 DEF Marked
<1> QED
  BY <1>2, <1>6, <1>7

LEMMA ReleaseAgainGood ==
  ASSUME Good(acct, ev), NEW o \in Orders, ReleaseAgain(o)
  PROVE  Good(acct', ev') /\ \E ws, ps : ps \subseteq ws /\ Marked(ws, ps)
<1> DEFINE w == Order[o].wallet
           c == ReleaseOrder(acct[w], o, ev.ended[o])
           s == IF c # acct[w] THEN ev.strained \union {w} ELSE ev.strained
<1>1. ev \in EvType /\ acct \in [Wallets -> AcctType] /\ ev.strained \subseteq Wallets
      /\ ev.ended[o] \in Nat /\ w \in Wallets
  BY EvFields, OrderType DEF Good
<1>2. /\ acct' = [acct EXCEPT ![w] = c]
      /\ dirty' = MarkDirty({w}, {w})
      /\ Counted([ev EXCEPT !.again = @ \union {o},
                            !.strained = IF acct'[w] # acct[w] THEN @ \union {w} ELSE @])
      /\ UNCHANGED projection
  BY DEF ReleaseAgain
<1>3. acct'[w] = c
  BY <1>1, <1>2
<1>4. Counted([ev EXCEPT !.again = ev.again \union {o}, !.strained = s])
  <2> HIDE DEF c
  <2> QED
    BY <1>2, <1>3
<1>5. s \in SUBSET Wallets
  BY <1>1
<1> HIDE DEF s, c
<1>6. /\ ev' \in EvType /\ ev'.booked = ev.booked /\ ev'.left = ev.left
      /\ ev'.fills = ev.fills /\ ev'.phase = ev.phase /\ ev'.moved = ev.moved
      /\ ev'.short = ev.short /\ ev'.strained = s /\ ev'.netted = ev.netted
  <2> DEFINE e1 == With(ev, "again", ev.again \union {o})
             e2 == With(e1, "strained", s)
  <2>1. IsEv(ev)
    BY <1>1, EvShape
  <2>2. Counted(e2)
    BY <1>4 DEF With
  <2>3. IsEv(e1) /\ e1.again = ev.again \union {o} /\ \A k \in EvKeys \ {"again"} : e1[k] = ev[k]
    BY <2>1, EvWith DEF EvKeys
  <2> HIDE DEF e1
  <2>4. IsEv(e2) /\ e2.strained = s /\ \A k \in EvKeys \ {"strained"} : e2[k] = e1[k]
    BY <2>3, EvWith DEF EvKeys
  <2> HIDE DEF e2
  <2>5. IsEv(ev') /\ ev'.count = e2.count + 1 /\ \A k \in EvKeys \ {"count"} : ev'[k] = e2[k]
    BY <2>2, <2>4, CountedIs
  <2>6. /\ ev'.booked = ev.booked /\ ev'.left = ev.left /\ ev'.ended = ev.ended
         /\ ev'.again = ev.again \union {o} /\ ev'.phase = ev.phase /\ ev'.fills = ev.fills
         /\ ev'.moved = ev.moved /\ ev'.short = ev.short /\ ev'.strained = s
         /\ ev'.netted = ev.netted /\ ev'.count = ev.count + 1
    BY <2>3, <2>4, <2>5 DEF EvKeys
  <2>7. ev' \in EvType
    <3>1. ev'.count \in Nat
      BY <1>1, <2>6, EvFields
    <3> QED
      BY <1>1, <1>5, <2>5, <2>6, <3>1, EvFields, EvIs
  <2> QED
    BY <2>6, <2>7
<1>7. Good([acct EXCEPT ![w] = c], ev')
  <2>1. ReleasesAgain(ev, ev', w, acct[w], c)
    BY <1>6 DEF ReleasesAgain, s
  <2> QED
    BY <1>1, <1>6, <2>1, GoodReleaseAgain DEF c
<1>8. Marked({w}, {w})
  BY <1>1, <1>2 DEF Marked
<1> QED
  BY <1>2, <1>7, <1>8

LEMMA TransferGood ==
  ASSUME Good(acct, ev), NEW t \in Transfers, Transfer(t)
  PROVE  Good(acct', ev') /\ \E ws, ps : ps \subseteq ws /\ Marked(ws, ps)
<1> DEFINE w == t.wallet
           u == Unpaid(acct[w], t)
           s == IF u > 0 THEN ev.strained \union {w} ELSE ev.strained
           l == [ev.short EXCEPT ![w]["usdc"] = @ + u]
<1>1. ev \in EvType /\ acct \in [Wallets -> AcctType] /\ ev.strained \subseteq Wallets
      /\ ev.short \in [Wallets -> [Assets -> Nat]] /\ w \in Wallets
  BY EvFields, ManagerAssumption DEF Good
<1>2. /\ acct' = [acct EXCEPT ![w] = Transferred(@, t)]
      /\ dirty' = MarkDirty({w}, {}) /\ t \notin ev.moved
      /\ Counted([ev EXCEPT !.moved = @ \union {t}, !.short[w]["usdc"] = @ + u,
                    !.strained = IF u > 0 THEN @ \union {w} ELSE @])
      /\ UNCHANGED projection
  BY DEF Transfer
<1>3. TransferDone(acct[w], Transferred(acct[w], t), t)
  BY <1>1, TransferFacts
<1>4. u \in Nat
  BY <1>3 DEF TransferDone
<1> HIDE DEF u
<1>5. Counted([ev EXCEPT !.moved = ev.moved \union {t}, !.short = l, !.strained = s])
  BY <1>2
<1>6. s \in SUBSET Wallets /\ l \in [Wallets -> [Assets -> Nat]]
  BY <1>1, <1>4 DEF Assets
<1> HIDE DEF s, l
<1>7. /\ ev' \in EvType /\ ev'.booked = ev.booked /\ ev'.left = ev.left
      /\ ev'.fills = ev.fills /\ ev'.phase = ev.phase /\ ev'.moved = ev.moved \union {t}
      /\ ev'.short = l /\ ev'.strained = s /\ ev'.netted = ev.netted
  <2> DEFINE e1 == With(ev, "moved", ev.moved \union {t})
             e2 == With(e1, "short", l)
             e3 == With(e2, "strained", s)
  <2>1. IsEv(ev)
    BY <1>1, EvShape
  <2>2. Counted(e3)
    BY <1>5 DEF With
  <2>3. IsEv(e1) /\ e1.moved = ev.moved \union {t} /\ \A k \in EvKeys \ {"moved"} : e1[k] = ev[k]
    BY <2>1, EvWith DEF EvKeys
  <2> HIDE DEF e1
  <2>4. IsEv(e2) /\ e2.short = l /\ \A k \in EvKeys \ {"short"} : e2[k] = e1[k]
    BY <2>3, EvWith DEF EvKeys
  <2> HIDE DEF e2
  <2>5. IsEv(e3) /\ e3.strained = s /\ \A k \in EvKeys \ {"strained"} : e3[k] = e2[k]
    BY <2>4, EvWith DEF EvKeys
  <2> HIDE DEF e3
  <2>6. IsEv(ev') /\ ev'.count = e3.count + 1 /\ \A k \in EvKeys \ {"count"} : ev'[k] = e3[k]
    BY <2>2, <2>5, CountedIs
  <2>7. /\ ev'.booked = ev.booked /\ ev'.left = ev.left /\ ev'.ended = ev.ended
         /\ ev'.again = ev.again /\ ev'.phase = ev.phase /\ ev'.fills = ev.fills
         /\ ev'.moved = ev.moved \union {t} /\ ev'.short = l /\ ev'.strained = s
         /\ ev'.netted = ev.netted /\ ev'.count = ev.count + 1
    BY <2>3, <2>4, <2>5, <2>6 DEF EvKeys
  <2>8. ev' \in EvType
    <3>1. ev'.count \in Nat
      BY <1>1, <2>7, EvFields
    <3> QED
      BY <1>1, <1>6, <2>6, <2>7, <3>1, EvFields, EvIs
  <2> QED
    BY <2>7, <2>8
<1>8. Good([acct EXCEPT ![w] = Transferred(@, t)], ev')
  <2>1. Moves(ev, ev', t, u)
    BY <1>2, <1>7 DEF Moves, s, l
  <2> QED
    BY <1>7, <2>1, GoodTransfer DEF u
<1>9. Marked({w}, {})
  <2>1. Position(Transferred(acct[w], t)) = Position(acct[w])
    BY <1>3 DEF TransferDone, Position
  <2> QED
    BY <1>1, <1>2, <2>1 DEF Marked
<1> QED
  BY <1>2, <1>8, <1>9

LEMMA EndBatchGood ==
  ASSUME Good(acct, ev), NEW b \in Batches, EndBatch(b)
  PROVE  Good(acct', ev') /\ UNCHANGED <<acct, dirty, projection>>
<1> DEFINE p == [ev.phase EXCEPT ![b] = "applied"]
<1>1. ev \in EvType /\ ev.phase \in [Batches -> Phases]
  BY EvFields DEF Good
<1>2. ev' = With(ev, "phase", p) /\ ev.phase[b] = "filling" /\ UNCHANGED <<acct, dirty, projection>>
  BY DEF EndBatch, With
<1>3. p \in [Batches -> Phases]
  BY <1>1 DEF Phases
<1> HIDE DEF p
<1>4. IsEv(ev') /\ ev'.phase = p /\ \A k \in EvKeys \ {"phase"} : ev'[k] = ev[k]
  BY <1>1, <1>2, EvShape, EvWith DEF EvKeys
<1>5. /\ ev'.booked = ev.booked /\ ev'.left = ev.left /\ ev'.ended = ev.ended /\ ev'.count = ev.count
      /\ ev'.again = ev.again /\ ev'.fills = ev.fills /\ ev'.moved = ev.moved
      /\ ev'.short = ev.short /\ ev'.strained = ev.strained /\ ev'.netted = ev.netted
  BY <1>4 DEF EvKeys
<1>6. ev' \in EvType
  BY <1>1, <1>3, <1>4, <1>5, EvFields, EvIs
<1>7. Ends(ev, ev', b)
  BY <1>2, <1>4, <1>5 DEF Ends, p
<1>8. Good(acct, ev')
  BY <1>6, <1>7, GoodEnd
<1> QED
  BY <1>2, <1>8

LEMMA SettleGood ==
  ASSUME Good(acct, ev), NEW b \in Batches, NEW outcome \in {"confirmed", "failed"}, Settle(b, outcome)
  PROVE  Good(acct', ev') /\ \E ws, ps : ps \subseteq ws /\ Marked(ws, ps)
<1> DEFINE f == ev.fills[b]
           p == [ev.phase EXCEPT ![b] = outcome]
           n == ev.netted \union Netted(f)
           ws == Parties(f)
<1>1. /\ ev \in EvType /\ acct \in [Wallets -> AcctType] /\ ev.phase \in [Batches -> Phases]
      /\ f \in Seq(Fill)
  BY EvFields DEF Good
<1>2. /\ ev.phase[b] = "applied"
      /\ acct' = [w \in Wallets |->
                      IF w \notin Parties(f) THEN acct[w]
                      ELSE IF outcome = "confirmed"
                           THEN ConfirmedForWallet(acct[w], BatchDeltas(f, w))
                           ELSE FailedForWallet(acct[w], BatchDeltas(f, w))]
      /\ dirty' = MarkDirty(ws, ws)
      /\ Counted([ev EXCEPT !.phase[b] = outcome, !.netted = @ \union Netted(f)])
      /\ UNCHANGED projection
  BY DEF Settle
<1>3. Counted([ev EXCEPT !.phase = p, !.netted = n])
  BY <1>2
<1>4. p \in [Batches -> Phases] /\ n \in SUBSET Wallets
  <2>1. ev.netted \subseteq Wallets
    BY <1>1, EvFields
  <2> QED
    BY <1>1, <2>1 DEF Phases, Netted
<1>5. ws \subseteq Wallets
  <2>1. ASSUME NEW i \in DOMAIN f, NEW o \in {f[i].maker, f[i].taker} PROVE Order[o].wallet \in Wallets
    <3>1. f[i] \in Fill
      BY <1>1
    <3>2. o \in Orders
      BY <3>1 DEF Fill
    <3> QED
      BY <3>2, OrderType
  <2> QED
    BY <2>1 DEF Parties
<1>6. AllSettled(acct, acct', f, outcome)
  <2>1. ASSUME NEW w \in Wallets PROVE SettledTo(acct[w], acct'[w], f, w, outcome)
    BY <1>2 DEF SettledTo
  <2>2. acct' = [w \in Wallets |-> acct'[w]]
    BY <1>2
  <2> QED
    BY <2>1, <2>2 DEF AllSettled
<1> HIDE DEF p, n
<1>7. /\ ev' \in EvType /\ ev'.booked = ev.booked /\ ev'.left = ev.left
      /\ ev'.fills = ev.fills /\ ev'.phase = p /\ ev'.moved = ev.moved
      /\ ev'.short = ev.short /\ ev'.strained = ev.strained /\ ev'.netted = n
  <2> DEFINE e1 == With(ev, "phase", p)
             e2 == With(e1, "netted", n)
  <2>1. IsEv(ev)
    BY <1>1, EvShape
  <2>2. Counted(e2)
    BY <1>3 DEF With
  <2>3. IsEv(e1) /\ e1.phase = p /\ \A k \in EvKeys \ {"phase"} : e1[k] = ev[k]
    BY <2>1, EvWith DEF EvKeys
  <2> HIDE DEF e1
  <2>4. IsEv(e2) /\ e2.netted = n /\ \A k \in EvKeys \ {"netted"} : e2[k] = e1[k]
    BY <2>3, EvWith DEF EvKeys
  <2> HIDE DEF e2
  <2>5. IsEv(ev') /\ ev'.count = e2.count + 1 /\ \A k \in EvKeys \ {"count"} : ev'[k] = e2[k]
    BY <2>2, <2>4, CountedIs
  <2>6. /\ ev'.booked = ev.booked /\ ev'.left = ev.left /\ ev'.ended = ev.ended
         /\ ev'.again = ev.again /\ ev'.phase = p /\ ev'.fills = ev.fills
         /\ ev'.moved = ev.moved /\ ev'.short = ev.short /\ ev'.strained = ev.strained
         /\ ev'.netted = n /\ ev'.count = ev.count + 1
    BY <2>3, <2>4, <2>5 DEF EvKeys
  <2>7. ev' \in EvType
    <3>1. ev'.count \in Nat
      BY <1>1, <2>6, EvFields
    <3> QED
      BY <1>1, <1>4, <2>5, <2>6, <3>1, EvFields, EvIs
  <2> QED
    BY <2>6, <2>7
<1>8. Good(acct', ev')
  <2>1. Settles(ev, ev', b, outcome)
    BY <1>2, <1>7 DEF Settles, p, n
  <2> QED
    BY <1>6, <1>7, <2>1, GoodSettle
<1> HIDE DEF ws
<1>9. Marked(ws, ws)
  <2>1. \A w \in Wallets \ ws : acct'[w] = acct[w]
    BY <1>2 DEF ws
  <2> QED
    BY <1>2, <1>5, <2>1 DEF Marked
<1> QED
  BY <1>8, <1>9

\* What the matcher reports fits the orders: a maker trades at its own price,
\* and a limit taker at its limit or better.
LEMMA MatchesFit ==
  ASSUME NEW m \in Orders, NEW t \in Orders, NEW q \in Nat, NEW pr \in Prices, Matches(m, t, q, pr)
  PROVE  Fits(ev, m, q, pr) /\ Fits(ev, t, q, pr) /\ Order[m].wallet # Order[t].wallet
<1>1. /\ Order[m].outcome \in {"yes", "no"} /\ Order[m].action \in {"buy", "sell"} /\ Order[m].tick \in Prices
      /\ Order[t].outcome \in {"yes", "no"} /\ Order[t].action \in {"buy", "sell"} /\ Order[t].tick \in Prices
      /\ Order[t].type \in {"limit", "market"}
  BY OrderType
<1>2. /\ Order[m].type = "limit" /\ Order[m].wallet # Order[t].wallet
      /\ pr = NormalizedPrice(Order[m].outcome, Order[m].tick)
      /\ q <= ev.left[m]
      /\ MarketBuy(t) => Cost(t, q, pr) <= ev.left[t]
      /\ ~MarketBuy(t) => q <= ev.left[t]
  BY DEF Matches
<1>3. Fits(ev, m, q, pr)
  <2>1. ~MarketBuy(m)
    BY <1>2 DEF MarketBuy
  <2>2. EffectivePrice(Order[m].outcome, pr) <= Order[m].tick
    BY <1>1, <1>2, ScaleAssumption DEF EffectivePrice, NormalizedPrice, Prices
  <2> QED
    BY <1>2, <2>1, <2>2 DEF Fits, Used
<1>4. ASSUME Buys(t), ~MarketBuy(t) PROVE EffectivePrice(Order[t].outcome, pr) <= Order[t].tick
  <2>1. Order[t].type = "limit" /\ Order[t].action = "buy"
    BY <1>1, <1>4 DEF MarketBuy, Buys
  <2> DEFINE limit == NormalizedPrice(Order[t].outcome, Order[t].tick)
  <2>2. IF NormalizedSide(Order[t].action, Order[t].outcome) = "buy" THEN pr <= limit ELSE pr >= limit
    BY <2>1 DEF Matches
  <2>3. CASE Order[t].outcome = "yes"
    BY <1>1, <2>1, <2>2, <2>3 DEF NormalizedSide, NormalizedPrice, EffectivePrice
  <2>4. CASE Order[t].outcome = "no"
    <3>1. pr >= Scale - Order[t].tick
      BY <2>1, <2>2, <2>4 DEF NormalizedSide, NormalizedPrice, Opposite
    <3>2. EffectivePrice(Order[t].outcome, pr) = Scale - pr
      BY <2>4 DEF EffectivePrice
    <3> QED
      BY <1>1, <3>1, <3>2, ScaleAssumption DEF Prices
  <2> QED
    BY <1>1, <2>3, <2>4
<1>5. Fits(ev, t, q, pr)
  BY <1>2, <1>4 DEF Fits, Used
<1> QED
  BY <1>2, <1>3, <1>5

\* What Shortfall counts is what the account did not have.
LEMMA ShortfallIs ==
  ASSUME NEW o \in Orders, NEW q \in Nat, NEW pr \in Prices, NEW a \in AcctType, a = acct[Order[o].wallet]
  PROVE  Shortfall(o, q, pr) = ShortOf(a, o, q, pr) /\ ShortOf(a, o, q, pr) \in Nat
<1>1. Paid(o, q, pr) \in Nat /\ ReserveOf(o, q, pr) \in Nat /\ Pays(o) \in Assets
  BY ReserveType, OrderType
<1>2. a[Pays(o)].locked \in Nat
  BY <1>1, AcctFields
<1>3. Taken(a, o, q, pr) \in Nat
  BY <1>1, <1>2, SmallerFacts DEF Taken
<1>4. ShortOf(a, o, q, pr) \in Nat
  <2>1. Smaller(Paid(o, q, pr), Taken(a, o, q, pr)) \in Nat
        /\ Smaller(Paid(o, q, pr), Taken(a, o, q, pr)) <= Paid(o, q, pr)
    BY <1>1, <1>3, SmallerFacts
  <2> QED
    BY <1>1, <2>1 DEF ShortOf
<1>5. CASE Buys(o)
  <2>1. Shortfall(o, q, pr) = Cost(o, q, pr) - Smaller(Cost(o, q, pr),
           Smaller(IF MarketBuy(o) THEN Cost(o, q, pr) ELSE reserveUnitsForLots(q, Order[o].tick), a.usdc.locked))
    BY <1>5 DEF Shortfall
  <2>2. /\ Paid(o, q, pr) = Cost(o, q, pr)
        /\ ReserveOf(o, q, pr) = IF MarketBuy(o) THEN Cost(o, q, pr) ELSE reserveUnitsForLots(q, Order[o].tick)
        /\ Pays(o) = "usdc"
    BY <1>5 DEF Paid, ReserveOf, Pays
  <2>3. Taken(a, o, q, pr) = Smaller(ReserveOf(o, q, pr), a.usdc.locked)
    BY <2>2 DEF Taken
  <2> QED
    BY <1>4, <2>1, <2>2, <2>3 DEF ShortOf
<1>6. CASE ~Buys(o)
  <2>1. Shortfall(o, q, pr) = q - Smaller(q, a[Order[o].outcome].locked)
    BY <1>6 DEF Shortfall
  <2>2. Paid(o, q, pr) = q /\ ReserveOf(o, q, pr) = q /\ Pays(o) = Order[o].outcome
    BY <1>6 DEF Paid, ReserveOf, Pays
  <2>3. Taken(a, o, q, pr) = Smaller(q, a[Order[o].outcome].locked)
    BY <2>2 DEF Taken
  <2>4. \A i, j \in Nat : Smaller(i, Smaller(i, j)) = Smaller(i, j)
    BY DEF Smaller
  <2>5. Smaller(q, Taken(a, o, q, pr)) = Smaller(q, a[Order[o].outcome].locked)
    BY <1>2, <2>2, <2>3, <2>4
  <2> QED
    BY <1>4, <2>1, <2>2, <2>5 DEF ShortOf
<1> QED
  BY <1>4, <1>5, <1>6

LEMMA FillGood ==
  ASSUME Good(acct, ev), NEW b \in Batches, ApplyMatchPending(b)
  PROVE  Good(acct', ev') /\ \E ws, ps : ps \subseteq ws /\ Marked(ws, ps)
<1>1. /\ ev \in EvType /\ acct \in [Wallets -> AcctType] /\ ev.phase \in [Batches -> Phases]
      /\ ev.fills \in [Batches -> Seq(Fill)] /\ ev.left \in [Orders -> Nat]
      /\ ev.short \in [Wallets -> [Assets -> Nat]]
  BY EvFields DEF Good
<1>2. /\ ev.phase[b] \in {"none", "filling"} /\ UNCHANGED projection
      /\ \E m, t \in Orders : \E q \in 1 .. ev.left[m], pr \in Prices :
           Matches(m, t, q, pr) /\ Filled(b, m, t, q, pr)
  BY DEF ApplyMatchPending
<1>3. PICK m \in Orders, t \in Orders :
        \E q \in 1 .. ev.left[m], pr \in Prices : Matches(m, t, q, pr) /\ Filled(b, m, t, q, pr)
  BY <1>2
<1>4. PICK q \in 1 .. ev.left[m], pr \in Prices : Matches(m, t, q, pr) /\ Filled(b, m, t, q, pr)
  BY <1>3
<1>5. q \in Nat
  BY <1>1
<1>6. Fits(ev, m, q, pr) /\ Fits(ev, t, q, pr) /\ Order[m].wallet # Order[t].wallet
  BY <1>4, <1>5, MatchesFit
<1> DEFINE touched == {m, t}
           Of(w) == CHOOSE o \in touched : Order[o].wallet = w
           ws == {Order[o].wallet : o \in touched}
           r == [maker |-> m, taker |-> t, qty |-> q, price |-> pr]
           p == [ev.phase EXCEPT ![b] = "filling"]
           f == [ev.fills EXCEPT ![b] = Append(@, r)]
           l == [o \in Orders |-> ev.left[o] - IF o \in touched THEN Used(o, q, pr) ELSE 0]
           d == [w \in Wallets |-> IF w \in ws
                   THEN [ev.short[w] EXCEPT ![Pays(Of(w))] = @ + Shortfall(Of(w), q, pr)]
                   ELSE ev.short[w]]
           s == ev.strained \union {Order[o].wallet : o \in
                   {o \in touched : o \notin ev.booked \/ Rounds(o, ev.left[o], Used(o, q, pr))}}
<1>7. /\ acct' = [w \in Wallets |-> IF w \in ws THEN applyFillForOrder(acct[w], Of(w), q, pr) ELSE acct[w]]
      /\ dirty' = MarkDirty(ws, ws)
      /\ Counted([ev EXCEPT !.phase = p, !.fills = f, !.left = l, !.short = d, !.strained = s])
  BY <1>4 DEF Filled
<1>8. \A o \in touched : Of(Order[o].wallet) = o /\ Order[o].wallet \in ws
  BY <1>6
<1>9. ws = {Order[m].wallet, Order[t].wallet} /\ ws \subseteq Wallets
  <2>1. Order[m].wallet \in Wallets /\ Order[t].wallet \in Wallets
    BY OrderType
  <2> QED
    BY <2>1
<1>10. \A o \in touched :
          /\ Shortfall(o, q, pr) = ShortOf(acct[Order[o].wallet], o, q, pr)
          /\ ShortOf(acct[Order[o].wallet], o, q, pr) \in Nat
  <2> TAKE o \in touched
  <2>1. o \in Orders /\ acct[Order[o].wallet] \in AcctType
    BY <1>1, OrderType
  <2> QED
    BY <1>5, <2>1, ShortfallIs
<1>11. AcctsFilled(acct, acct', m, t, q, pr)
  <2>1. acct' = [w \in Wallets |-> acct'[w]]
    BY <1>7
  <2>2. ASSUME NEW o \in {m, t}
        PROVE  acct'[Order[o].wallet] = applyFillForOrder(acct[Order[o].wallet], o, q, pr)
    <3>1. Order[o].wallet \in Wallets /\ Order[o].wallet \in ws /\ Of(Order[o].wallet) = o
      BY <1>8, <1>9
    <3> HIDE DEF Of, ws
    <3> QED
      BY <1>7, <3>1
  <2>3. \A w \in Wallets \ {Order[m].wallet, Order[t].wallet} : acct'[w] = acct[w]
    <3> HIDE DEF Of, ws
    <3> QED
      BY <1>7, <1>9
  <2> QED
    BY <2>1, <2>2, <2>3 DEF AcctsFilled
<1>12. /\ \A o \in {m, t} : d[Order[o].wallet] = [ev.short[Order[o].wallet] EXCEPT ![Pays(o)] =
                                         @ + ShortOf(acct[Order[o].wallet], o, q, pr)]
       /\ \A w \in Wallets \ {Order[m].wallet, Order[t].wallet} : d[w] = ev.short[w]
  <2>1. ASSUME NEW o \in {m, t}
        PROVE  d[Order[o].wallet] = [ev.short[Order[o].wallet] EXCEPT ![Pays(o)] =
                                         @ + ShortOf(acct[Order[o].wallet], o, q, pr)]
    <3>1. Order[o].wallet \in Wallets /\ Order[o].wallet \in ws /\ Of(Order[o].wallet) = o
      BY <1>8, <1>9
    <3>2. Shortfall(o, q, pr) = ShortOf(acct[Order[o].wallet], o, q, pr)
      BY <1>10
    <3> HIDE DEF Of, ws
    <3>3. d[Order[o].wallet] = [ev.short[Order[o].wallet] EXCEPT ![Pays(o)] = @ + Shortfall(o, q, pr)]
      BY <3>1
    <3> QED
      BY <3>2, <3>3
  <2>2. \A w \in Wallets \ {Order[m].wallet, Order[t].wallet} : d[w] = ev.short[w]
    <3> HIDE DEF Of, ws
    <3> QED
      BY <1>9
  <2> QED
    BY <2>1, <2>2
<1>13. d \in [Wallets -> [Assets -> Nat]]
  <2> SUFFICES ASSUME NEW w \in Wallets PROVE d[w] \in [Assets -> Nat]
    OBVIOUS
  <2>1. CASE w \in ws
    <3>1. PICK o \in {m, t} : w = Order[o].wallet
      BY <2>1
    <3>2. ShortOf(acct[w], o, q, pr) \in Nat /\ Pays(o) \in Assets
      BY <1>10, <3>1, OrderType
    <3>3. d[w] = [ev.short[w] EXCEPT ![Pays(o)] = @ + ShortOf(acct[w], o, q, pr)]
      BY <1>12, <3>1
    <3>4. ev.short[w] \in [Assets -> Nat]
      BY <1>1
    <3> HIDE DEF d
    <3> QED
      BY <3>2, <3>3, <3>4
  <2>2. CASE w \notin ws
    <3>1. d[w] = ev.short[w]
      BY <1>9, <1>12, <2>2
    <3> HIDE DEF d
    <3> QED
      BY <1>1, <3>1
  <2> QED
    BY <2>1, <2>2
<1>14. p \in [Batches -> Phases] /\ f \in [Batches -> Seq(Fill)] /\ l \in [Orders -> Nat] /\ s \in SUBSET Wallets
  <2>1. p \in [Batches -> Phases]
    BY <1>1 DEF Phases
  <2>2. f \in [Batches -> Seq(Fill)]
    <3>1. r \in Fill
      BY <1>5 DEF Fill
    <3>2. ev.fills[b] \in Seq(Fill)
      BY <1>1
    <3> HIDE DEF r
    <3>3. Append(ev.fills[b], r) \in Seq(Fill)
      BY <3>1, <3>2
    <3> QED
      BY <1>1, <3>3
  <2>3. l \in [Orders -> Nat]
    <3> SUFFICES ASSUME NEW o \in Orders
                 PROVE  ev.left[o] - (IF o \in touched THEN Used(o, q, pr) ELSE 0) \in Nat
      OBVIOUS
    <3>1. ev.left[o] \in Nat
      BY <1>1
    <3>2. CASE o \in touched
      <4>1. Fits(ev, o, q, pr)
        BY <1>6, <3>2
      <4>2. Used(o, q, pr) \in Nat
        BY <1>5, <4>1, ReserveCovers
      <4>3. Used(o, q, pr) <= ev.left[o]
        BY <4>1 DEF Fits
      <4> QED
        BY <3>1, <3>2, <4>2, <4>3
    <3>3. CASE o \notin touched
      BY <3>1, <3>3
    <3> QED
      BY <3>2, <3>3
  <2>4. s \in SUBSET Wallets
    <3>1. ev.strained \subseteq Wallets
      BY <1>1, EvFields
    <3>2. \A o \in touched : Order[o].wallet \in Wallets
      BY OrderType
    <3> QED
      BY <3>1, <3>2
  <2> QED
    BY <2>1, <2>2, <2>3, <2>4
<1> HIDE DEF p, f, l, d, s
<1>15. /\ ev' \in EvType /\ ev'.booked = ev.booked /\ ev'.left = l
       /\ ev'.fills = f /\ ev'.phase = p /\ ev'.moved = ev.moved
       /\ ev'.short = d /\ ev'.strained = s /\ ev'.netted = ev.netted
  <2> DEFINE e1 == With(ev, "phase", p)
             e2 == With(e1, "fills", f)
             e3 == With(e2, "left", l)
             e4 == With(e3, "short", d)
             e5 == With(e4, "strained", s)
  <2>1. IsEv(ev)
    BY <1>1, EvShape
  <2>2. Counted(e5)
    BY <1>7 DEF With
  <2>3. IsEv(e1) /\ e1.phase = p /\ \A k \in EvKeys \ {"phase"} : e1[k] = ev[k]
    BY <2>1, EvWith DEF EvKeys
  <2> HIDE DEF e1
  <2>4. IsEv(e2) /\ e2.fills = f /\ \A k \in EvKeys \ {"fills"} : e2[k] = e1[k]
    BY <2>3, EvWith DEF EvKeys
  <2> HIDE DEF e2
  <2>5. IsEv(e3) /\ e3.left = l /\ \A k \in EvKeys \ {"left"} : e3[k] = e2[k]
    BY <2>4, EvWith DEF EvKeys
  <2> HIDE DEF e3
  <2>6. IsEv(e4) /\ e4.short = d /\ \A k \in EvKeys \ {"short"} : e4[k] = e3[k]
    BY <2>5, EvWith DEF EvKeys
  <2> HIDE DEF e4
  <2>7. IsEv(e5) /\ e5.strained = s /\ \A k \in EvKeys \ {"strained"} : e5[k] = e4[k]
    BY <2>6, EvWith DEF EvKeys
  <2> HIDE DEF e5
  <2>8. IsEv(ev') /\ ev'.count = e5.count + 1 /\ \A k \in EvKeys \ {"count"} : ev'[k] = e5[k]
    BY <2>2, <2>7, CountedIs
  <2>9. /\ ev'.booked = ev.booked /\ ev'.left = l /\ ev'.ended = ev.ended
         /\ ev'.again = ev.again /\ ev'.phase = p /\ ev'.fills = f
         /\ ev'.moved = ev.moved /\ ev'.short = d /\ ev'.strained = s
         /\ ev'.netted = ev.netted /\ ev'.count = ev.count + 1
    BY <2>3, <2>4, <2>5, <2>6, <2>7, <2>8 DEF EvKeys
  <2>10. ev' \in EvType
    <3>1. ev'.count \in Nat
      BY <1>1, <2>9, EvFields
    <3> QED
      BY <1>1, <1>13, <1>14, <2>8, <2>9, <3>1, EvFields, EvIs
  <2> QED
    BY <2>9, <2>10
<1>16. Fills(ev, ev', b, m, t, q, pr)
  BY <1>2, <1>15 DEF Fills, p, f, l, s
<1>17. ShortFilled(acct, ev, ev', m, t, q, pr)
  BY <1>12, <1>15 DEF ShortFilled
<1>18. Good(acct', ev')
  BY <1>5, <1>6, <1>11, <1>15, <1>16, <1>17, GoodFill
<1>19. Marked(ws, ws)
  <2>1. \A w \in Wallets \ ws : acct'[w] = acct[w]
    BY <1>9, <1>11 DEF AcctsFilled
  <2> HIDE DEF ws
  <2> QED
    BY <1>2, <1>7, <1>9, <2>1 DEF Marked
<1> QED
  BY <1>18, <1>19

-----------------------------------------------------------------------------
(* The projector keeps the projection right *)

LEMMA StutterProjected ==
  ASSUME ProjectionType, Projected, UNCHANGED <<acct, dirty, projection>>
  PROVE  ProjectionType' /\ Projected'
<1>1. /\ acct' = acct /\ dirty' = dirty /\ cap' = cap /\ pg' = pg /\ rd' = rd /\ image' = image
      /\ wired' = wired /\ faults' = faults /\ crashes' = crashes
  BY DEF projection
<1>2. Newest' = Newest /\ Unwritten' = Unwritten
  BY <1>1 DEF Newest, Unwritten, NoCap
<1> QED
  BY <1>1, <1>2 DEF ProjectionType, Projected, NoCap, Rows

\* The rows of a table, one by one.
LEMMA RowsAre ==
  ASSUME NEW r, NEW w \in Wallets
  PROVE  Rows(r)[w].ledger = Ledger(r[w]) /\ Rows(r)[w].position = Position(r[w])
BY DEF Rows

LEMMA UpsertIs ==
  ASSUME NEW table, NEW ls, NEW ps, NEW w \in Wallets
  PROVE  /\ Upsert(table, ls, ps)[w].ledger
              = IF w \in ls THEN Ledger(cap.of.acct[w]) ELSE table[w].ledger
         /\ Upsert(table, ls, ps)[w].position
              = IF w \in ps THEN Position(cap.of.acct[w]) ELSE table[w].position
BY DEF Upsert

\* The rows of a capture are its own: the rest of the table was right before.
LEMMA UpsertRows ==
  ASSUME NEW table, NEW ls, NEW ps,
         \A w \in Wallets : /\ w \in ls \/ table[w].ledger = Ledger(cap.of.acct[w])
                            /\ w \in ps \/ table[w].position = Position(cap.of.acct[w])
  PROVE  Upsert(table, ls, ps) = Rows(cap.of.acct)
BY DEF Upsert, Rows

\* A capture has a step, what it captured, and the keys of its rows.
LEMMA CapFields ==
  ASSUME ProjectionType, cap.at \in {"postgres", "redis"}
  PROVE  /\ cap # NoCap /\ cap \in CapType /\ wired
         /\ cap.rows.ledgers \subseteq Wallets /\ cap.rows.positions \subseteq Wallets
         /\ cap.of \in ImageType /\ Newest = cap.of.acct /\ Unwritten = cap.rows
<1>1. cap # NoCap
  BY DEF NoCap
<1>2. cap \in CapType /\ wired
  BY <1>1 DEF ProjectionType
<1>3. cap.rows \in DirtyType /\ cap.of \in ImageType
  BY <1>2 DEF CapType
<1>4. cap.rows.ledgers \subseteq Wallets /\ cap.rows.positions \subseteq Wallets
  BY <1>3 DEF DirtyType
<1> QED
  BY <1>1, <1>2, <1>3, <1>4 DEF Newest, Unwritten

LEMMA RestoreDirtyIs ==
  ASSUME ProjectionType, cap.at \in {"postgres", "redis"}
  PROVE  /\ RestoreDirty \in DirtyType
         /\ RestoreDirty.ledgers = dirty.ledgers \union cap.rows.ledgers
         /\ RestoreDirty.positions = dirty.positions \union cap.rows.positions
<1>1. cap.rows.ledgers \subseteq Wallets /\ cap.rows.positions \subseteq Wallets
  BY CapFields
<1>2. dirty.ledgers \subseteq Wallets /\ dirty.positions \subseteq Wallets
  BY DEF ProjectionType, DirtyType
<1> QED
  BY <1>1, <1>2 DEF RestoreDirty, DirtyType

LEMMA CaptureKeeps ==
  ASSUME ManagerInv, Capture
  PROVE  ManagerInv'
<1>1. /\ cap = NoCap /\ dirty # Clean /\ dirty' = Clean
      /\ cap' = [at |-> "postgres", rows |-> dirty, of |-> [acct |-> acct, ev |-> ev]]
      /\ UNCHANGED <<acct, ev, pg, rd, image, wired, faults, crashes>>
  BY DEF Capture
<1>2. ProjectionType /\ Projected /\ Good(acct, ev) /\ Good(image.acct, image.ev)
  BY DEF ManagerInv
<1>3. wired /\ dirty \in DirtyType
  BY <1>1, <1>2 DEF ProjectionType
<1>4. /\ cap' \in CapType /\ cap'.at = "postgres" /\ cap'.rows = dirty
      /\ cap'.of.acct = acct /\ cap'.of.ev = ev
  <2>1. acct \in [Wallets -> AcctType] /\ ev \in EvType
    BY <1>2 DEF Good
  <2>2. [acct |-> acct, ev |-> ev] \in ImageType
    BY <2>1 DEF ImageType
  <2> QED
    BY <1>1, <1>3, <2>2 DEF CapType
<1>5. cap' # NoCap
  BY <1>4 DEF NoCap
<1>6. Clean \in DirtyType
  BY DEF Clean, DirtyType
<1>7. ProjectionType'
  BY <1>1, <1>2, <1>3, <1>4, <1>6 DEF ProjectionType
<1>8. Newest' = acct /\ Unwritten' = dirty /\ Newest = image.acct /\ Unwritten = dirty
  BY <1>1, <1>4, <1>5 DEF Newest, Unwritten, NoCap
<1>9. pg = Rows(image.acct)
  BY <1>2 DEF Projected
<1>10. ASSUME NEW w \in Wallets
       PROVE  /\ w \in dirty.ledgers \/ rd[w].ledger = Ledger(acct[w])
              /\ w \in dirty.positions \/ rd[w].position = Position(acct[w])
              /\ w \in dirty.ledgers \/ pg[w].ledger = Ledger(acct[w])
              /\ w \in dirty.positions \/ pg[w].position = Position(acct[w])
  <2>1. /\ w \in dirty.ledgers \/ Ledger(acct[w]) = Ledger(image.acct[w])
        /\ w \in dirty.positions \/ Position(acct[w]) = Position(image.acct[w])
        /\ w \in dirty.ledgers \/ rd[w].ledger = Ledger(image.acct[w])
        /\ w \in dirty.positions \/ rd[w].position = Position(image.acct[w])
    BY <1>2, <1>3, <1>8 DEF Projected
  <2>2. pg[w].ledger = Ledger(image.acct[w]) /\ pg[w].position = Position(image.acct[w])
    BY <1>9, RowsAre
  <2> QED
    BY <2>1, <2>2
<1>11. Projected'
  <2>1. acct' = acct /\ pg' = pg /\ rd' = rd /\ image' = image
    BY <1>1
  <2> QED
    BY <1>4, <1>8, <1>9, <1>10, <2>1 DEF Projected, Rows
<1> QED
  BY <1>1, <1>2, <1>4, <1>7, <1>11 DEF ManagerInv

LEMMA FlushPostgresKeeps ==
  ASSUME ManagerInv, FlushPostgres
  PROVE  ManagerInv'
<1>1. /\ cap.at = "postgres" /\ image' = cap.of /\ cap' = [cap EXCEPT !.at = "redis"]
      /\ pg' = Upsert(pg, cap.rows.ledgers, cap.rows.positions)
      /\ UNCHANGED <<acct, ev, dirty, rd, wired, faults, crashes>>
  BY DEF FlushPostgres
<1>2. ProjectionType /\ Projected /\ Good(acct, ev)
  BY DEF ManagerInv
<1>3. /\ cap # NoCap /\ cap \in CapType /\ wired /\ cap.of \in ImageType
      /\ Newest = cap.of.acct /\ Unwritten = cap.rows
  BY <1>1, <1>2, CapFields
<1>4. cap' \in CapType /\ cap'.at = "redis" /\ cap'.rows = cap.rows /\ cap'.of = cap.of
  BY <1>1, <1>3 DEF CapType
<1>5. cap' # NoCap
  BY <1>4 DEF NoCap
<1>6. Good(cap.of.acct, cap.of.ev)
  BY <1>3 DEF ManagerInv
<1>7. ProjectionType'
  BY <1>1, <1>2, <1>3, <1>4 DEF ProjectionType
<1>8. Newest' = Newest /\ Unwritten' = Unwritten
  BY <1>3, <1>4, <1>5 DEF Newest, Unwritten, NoCap
<1>9. pg' = Rows(cap.of.acct)
  <2>1. \A w \in Wallets : /\ w \in cap.rows.ledgers \/ pg[w].ledger = Ledger(cap.of.acct[w])
                           /\ w \in cap.rows.positions \/ pg[w].position = Position(cap.of.acct[w])
    BY <1>1, <1>2, <1>3 DEF Projected
  <2> QED
    BY <1>1, <2>1, UpsertRows
<1>10. Projected'
  <2>1. acct' = acct /\ dirty' = dirty /\ rd' = rd /\ wired' = wired /\ image' = cap'.of
    BY <1>1, <1>4
  <2>2. pg' = Rows(image.acct)'
    BY <1>1, <1>9 DEF Rows, Ledger, Position
  <2>3. /\ wired => \A w \in Wallets :
            /\ w \in dirty.ledgers \/ Ledger(acct[w]) = Ledger(Newest[w])
            /\ w \in dirty.positions \/ Position(acct[w]) = Position(Newest[w])
        /\ \A w \in Wallets :
            /\ w \in Unwritten.ledgers \/ rd[w].ledger = Ledger(Newest[w])
            /\ w \in Unwritten.positions \/ rd[w].position = Position(Newest[w])
    BY <1>2 DEF Projected
  <2> QED
    BY <1>4, <1>8, <2>1, <2>2, <2>3 DEF Projected
<1> QED
  BY <1>1, <1>2, <1>4, <1>6, <1>7, <1>10 DEF ManagerInv

\* What a failed flush leaves: the keys of the capture are dirty again, and a
\* row of Redis may have been written or not.
Abandoned ==
    /\ cap' = NoCap /\ dirty' = RestoreDirty /\ faults' \in 0 .. MaxFaults
    /\ \A w \in Wallets : /\ w \in cap.rows.ledgers \/ rd'[w].ledger = rd[w].ledger
                          /\ w \in cap.rows.positions \/ rd'[w].position = rd[w].position
    /\ UNCHANGED <<acct, ev, pg, image, wired, crashes>>

LEMMA AbandonedKeeps ==
  ASSUME ManagerInv, cap.at \in {"postgres", "redis"}, Abandoned
  PROVE  ManagerInv'
<1>1. /\ cap' = NoCap /\ dirty' = RestoreDirty /\ faults' \in 0 .. MaxFaults
      /\ UNCHANGED <<acct, ev, pg, image, wired, crashes>>
  BY DEF Abandoned
<1>2. ProjectionType /\ Projected /\ Good(acct, ev) /\ Good(image.acct, image.ev)
  BY DEF ManagerInv
<1>3. /\ cap # NoCap /\ cap \in CapType /\ wired
      /\ Newest = cap.of.acct /\ Unwritten = cap.rows
  BY <1>2, CapFields
<1>4. /\ dirty' \in DirtyType /\ dirty'.ledgers = dirty.ledgers \union cap.rows.ledgers
      /\ dirty'.positions = dirty.positions \union cap.rows.positions
  BY <1>1, <1>2, RestoreDirtyIs
<1>5. ProjectionType'
  BY <1>1, <1>2, <1>3, <1>4 DEF ProjectionType, NoCap
<1>6. Newest' = image.acct /\ Unwritten' = dirty'
  BY <1>1 DEF Newest, Unwritten, NoCap
<1>7. pg = Rows(image.acct)
  BY <1>2 DEF Projected
<1>8. ASSUME NEW w \in Wallets
      PROVE  /\ w \in cap.rows.ledgers \/ Ledger(image.acct[w]) = Ledger(cap.of.acct[w])
             /\ w \in cap.rows.positions \/ Position(image.acct[w]) = Position(cap.of.acct[w])
  <2>1. CASE cap.at = "redis"
    <3>1. image = cap.of
      BY <1>2, <1>3, <2>1 DEF Projected
    <3> QED
      BY <3>1
  <2>2. CASE cap.at = "postgres"
    <3>1. /\ w \in cap.rows.ledgers \/ pg[w].ledger = Ledger(cap.of.acct[w])
          /\ w \in cap.rows.positions \/ pg[w].position = Position(cap.of.acct[w])
      BY <1>2, <1>3, <2>2 DEF Projected
    <3>2. pg[w].ledger = Ledger(image.acct[w]) /\ pg[w].position = Position(image.acct[w])
      BY <1>7, RowsAre
    <3> QED
      BY <3>1, <3>2
  <2> QED
    BY <2>1, <2>2
<1>9. ASSUME NEW w \in Wallets
      PROVE  /\ w \in dirty'.ledgers \/ Ledger(acct[w]) = Ledger(image.acct[w])
             /\ w \in dirty'.positions \/ Position(acct[w]) = Position(image.acct[w])
             /\ w \in dirty'.ledgers \/ rd'[w].ledger = Ledger(image.acct[w])
             /\ w \in dirty'.positions \/ rd'[w].position = Position(image.acct[w])
  <2>1. /\ w \in dirty.ledgers \/ Ledger(acct[w]) = Ledger(cap.of.acct[w])
        /\ w \in dirty.positions \/ Position(acct[w]) = Position(cap.of.acct[w])
        /\ w \in cap.rows.ledgers \/ rd[w].ledger = Ledger(cap.of.acct[w])
        /\ w \in cap.rows.positions \/ rd[w].position = Position(cap.of.acct[w])
    BY <1>2, <1>3 DEF Projected
  <2>2. /\ w \in cap.rows.ledgers \/ rd'[w].ledger = rd[w].ledger
        /\ w \in cap.rows.positions \/ rd'[w].position = rd[w].position
    BY DEF Abandoned
  <2> QED
    BY <1>4, <1>8, <2>1, <2>2
<1>10. Projected'
  <2>1. acct' = acct /\ pg' = pg /\ image' = image /\ cap' = NoCap
    BY <1>1
  <2> QED
    BY <1>6, <1>7, <1>9, <2>1 DEF Projected, Rows, NoCap
<1> QED
  BY <1>1, <1>2, <1>5, <1>10 DEF ManagerInv, NoCap

LEMMA FlushFailsKeeps ==
  ASSUME ManagerInv, FlushFails
  PROVE  ManagerInv'
<1>1. /\ cap.at = "postgres" /\ faults < MaxFaults /\ faults' = faults + 1
      /\ dirty' = RestoreDirty /\ cap' = NoCap /\ rd' = rd
      /\ UNCHANGED <<acct, ev, pg, image, wired, crashes>>
  BY DEF FlushFails
<1>2. faults' \in 0 .. MaxFaults
  BY <1>1, ManagerAssumption DEF ManagerInv, ProjectionType
<1>3. Abandoned
  BY <1>1, <1>2 DEF Abandoned
<1> QED
  BY <1>1, <1>3, AbandonedKeeps

LEMMA RefreshFailsKeeps ==
  ASSUME ManagerInv, RefreshFails
  PROVE  ManagerInv'
<1>1. /\ cap.at = "redis" /\ faults < MaxFaults /\ faults' = faults + 1
      /\ dirty' = RestoreDirty /\ cap' = NoCap
      /\ UNCHANGED <<acct, ev, pg, image, wired, crashes>>
      /\ \E l \in SUBSET cap.rows.ledgers, p \in SUBSET cap.rows.positions : rd' = Upsert(rd, l, p)
  BY DEF RefreshFails
<1>2. faults' \in 0 .. MaxFaults
  BY <1>1, ManagerAssumption DEF ManagerInv, ProjectionType
<1>3. PICK l \in SUBSET cap.rows.ledgers, p \in SUBSET cap.rows.positions : rd' = Upsert(rd, l, p)
  BY <1>1
<1>4. ASSUME NEW w \in Wallets
      PROVE  /\ w \in cap.rows.ledgers \/ rd'[w].ledger = rd[w].ledger
             /\ w \in cap.rows.positions \/ rd'[w].position = rd[w].position
  BY <1>3, UpsertIs
<1>5. Abandoned
  BY <1>1, <1>2, <1>4 DEF Abandoned
<1> QED
  BY <1>1, <1>5, AbandonedKeeps

LEMMA RefreshRedisKeeps ==
  ASSUME ManagerInv, RefreshRedis
  PROVE  ManagerInv'
<1>1. /\ cap.at = "redis" /\ cap' = NoCap
      /\ rd' = Upsert(rd, cap.rows.ledgers, cap.rows.positions)
      /\ UNCHANGED <<acct, ev, dirty, pg, image, wired, faults, crashes>>
  BY DEF RefreshRedis
<1>2. ProjectionType /\ Projected /\ Good(acct, ev) /\ Good(image.acct, image.ev)
  BY DEF ManagerInv
<1>3. cap # NoCap /\ wired /\ Newest = cap.of.acct /\ Unwritten = cap.rows
  BY <1>1, <1>2, CapFields
<1>4. image = cap.of /\ pg = Rows(image.acct)
  BY <1>1, <1>2, <1>3 DEF Projected
<1>5. Newest' = image.acct /\ Newest = image.acct
  BY <1>1, <1>3, <1>4 DEF Newest, NoCap
<1>6. ProjectionType'
  BY <1>1, <1>2, <1>3 DEF ProjectionType, NoCap
<1>7. rd' = Rows(cap.of.acct)
  <2>1. \A w \in Wallets : /\ w \in cap.rows.ledgers \/ rd[w].ledger = Ledger(cap.of.acct[w])
                           /\ w \in cap.rows.positions \/ rd[w].position = Position(cap.of.acct[w])
    BY <1>2, <1>3 DEF Projected
  <2> QED
    BY <1>1, <2>1, UpsertRows
<1>8. \A w \in Wallets : /\ rd'[w].ledger = Ledger(image.acct[w])
                         /\ rd'[w].position = Position(image.acct[w])
  BY <1>4, <1>7, RowsAre
<1>9. Projected'
  <2>1. acct' = acct /\ dirty' = dirty /\ pg' = pg /\ image' = image /\ wired' = wired /\ cap' = NoCap
    BY <1>1
  <2>2. wired => \A w \in Wallets :
            /\ w \in dirty.ledgers \/ Ledger(acct[w]) = Ledger(Newest[w])
            /\ w \in dirty.positions \/ Position(acct[w]) = Position(Newest[w])
    BY <1>2 DEF Projected
  <2> QED
    BY <1>4, <1>5, <1>8, <2>1, <2>2 DEF Projected, Rows, NoCap
<1> QED
  BY <1>1, <1>2, <1>6, <1>9 DEF ManagerInv, NoCap

\* The rows of an account hold all of it.
LEMMA AcctOfRows ==
  ASSUME NEW r \in [Wallets -> AcctType]
  PROVE  [w \in Wallets |-> [usdc |-> Rows(r)[w].ledger, yes |-> Rows(r)[w].position.yes,
                             no |-> Rows(r)[w].position.no, coll |-> Rows(r)[w].position.coll]] = r
<1>1. ASSUME NEW w \in Wallets
      PROVE  [usdc |-> Rows(r)[w].ledger, yes |-> Rows(r)[w].position.yes,
              no |-> Rows(r)[w].position.no, coll |-> Rows(r)[w].position.coll] = r[w]
  <2>1. r[w] \in AcctType
    OBVIOUS
  <2>2. Rows(r)[w].ledger = r[w].usdc /\ Rows(r)[w].position = [yes |-> r[w].yes, no |-> r[w].no, coll |-> r[w].coll]
    BY RowsAre DEF Ledger, Position
  <2> QED
    BY <2>1, <2>2 DEF AcctType
<1> QED
  BY <1>1

LEMMA CrashKeeps ==
  ASSUME ManagerInv, Crash
  PROVE  ManagerInv'
<1>1. /\ wired /\ crashes < MaxCrashes /\ crashes' = crashes + 1
      /\ acct' = [w \in Wallets |-> [usdc |-> pg[w].ledger, yes |-> pg[w].position.yes,
                                     no |-> pg[w].position.no, coll |-> pg[w].position.coll]]
      /\ ev' = image.ev /\ dirty' = RecoveredRows /\ cap' = NoCap
      /\ UNCHANGED <<pg, rd, image, wired, faults>>
  BY DEF Crash
<1>2. ProjectionType /\ pg = Rows(image.acct) /\ Good(image.acct, image.ev)
  BY DEF ManagerInv, Projected
<1>3. acct' = image.acct
  <2>1. image.acct \in [Wallets -> AcctType]
    BY <1>2 DEF Good
  <2> QED
    BY <1>1, <1>2, <2>1, AcctOfRows
<1>4. dirty' \in DirtyType /\ dirty'.ledgers = Wallets /\ dirty'.positions = Wallets
  BY <1>1 DEF RecoveredRows, DirtyType
<1>5. crashes' \in 0 .. MaxCrashes
  BY <1>1, <1>2, ManagerAssumption DEF ProjectionType
<1>6. ProjectionType'
  BY <1>1, <1>2, <1>4, <1>5 DEF ProjectionType, NoCap
<1>7. Unwritten' = dirty'
  BY <1>1 DEF Unwritten, NoCap
<1>8. Projected'
  BY <1>1, <1>2, <1>4, <1>7 DEF Projected, Rows, NoCap
<1> QED
  BY <1>1, <1>2, <1>3, <1>6, <1>8 DEF ManagerInv, NoCap

-----------------------------------------------------------------------------
(* The first state, and every step *)

LEMMA SeedFacts ==
  ASSUME NEW w \in Wallets
  PROVE  /\ Seed(w) \in AcctType /\ Seed(w).coll = 0
         /\ \A x \in Assets : /\ Seed(w)[x] \in Bal /\ Seed(w)[x].avail = Start[w][x]
                              /\ Seed(w)[x].locked = 0 /\ Seed(w)[x].pending = 0
<1>1. \A x \in Assets : Start[w][x] \in Nat
  BY ManagerAssumption
<1>2. ASSUME NEW n \in Nat
      PROVE  Balance(n) \in Bal /\ Balance(n).avail = n /\ Balance(n).locked = 0 /\ Balance(n).pending = 0
  BY DEF Balance, Bal
<1>3. /\ Seed(w).coll = 0 /\ DOMAIN Seed(w) = {"usdc", "yes", "no", "coll"}
      /\ \A x \in Assets : Seed(w)[x] = Balance(Start[w][x])
  BY DEF Seed, Assets
<1>4. ASSUME NEW x \in Assets
      PROVE  /\ Seed(w)[x] \in Bal /\ Seed(w)[x].avail = Start[w][x]
             /\ Seed(w)[x].locked = 0 /\ Seed(w)[x].pending = 0
  <2>1. Start[w][x] \in Nat /\ Seed(w)[x] = Balance(Start[w][x])
    BY <1>1, <1>3
  <2> QED
    BY <1>2, <2>1
<1>5. Seed(w) = [x \in {"usdc", "yes", "no", "coll"} |-> Seed(w)[x]]
  BY DEF Seed
<1>6. Seed(w) \in AcctType
  BY <1>3, <1>4, <1>5, AcctIs
<1> QED
  BY <1>3, <1>4, <1>6

LEMMA NoEventsFacts ==
  /\ NoEvents \in EvType /\ Untouched(NoEvents) /\ Unstarted(NoEvents)
  /\ NoEvents.short = [w \in Wallets |-> [x \in Assets |-> 0]]
  /\ FlightOf(NoEvents) = {} /\ StandOf(NoEvents) = {}
  /\ NoEvents.booked = {} /\ NoEvents.moved = {}
<1>1. /\ NoEvents.count = 0 /\ NoEvents.booked = {} /\ NoEvents.left = [o \in Orders |-> Order[o].size]
      /\ NoEvents.ended = [o \in Orders |-> 0] /\ NoEvents.again = {}
      /\ NoEvents.phase = [b \in Batches |-> "none"] /\ NoEvents.fills = [b \in Batches |-> <<>>]
      /\ NoEvents.moved = {} /\ NoEvents.short = [w \in Wallets |-> [x \in Assets |-> 0]]
      /\ NoEvents.strained = {} /\ NoEvents.netted = {}
  BY DEF NoEvents
<1>2. IsEv(NoEvents)
  BY DEF NoEvents, IsEv, EvKeys
<1>3. NoEvents.left \in [Orders -> Nat]
  BY <1>1, ManagerAssumption
<1>4. NoEvents.phase \in [Batches -> Phases] /\ NoEvents.fills \in [Batches -> Seq(Fill)]
  BY <1>1 DEF Phases
<1>5. NoEvents.ended \in [Orders -> Nat] /\ NoEvents.short \in [Wallets -> [Assets -> Nat]]
  BY <1>1
<1>6. NoEvents \in EvType
  <2> HIDE DEF NoEvents
  <2>1. /\ NoEvents.booked \in SUBSET Orders /\ NoEvents.again \in SUBSET Orders
        /\ NoEvents.moved \in SUBSET Transfers /\ NoEvents.strained \in SUBSET Wallets
        /\ NoEvents.netted \in SUBSET Wallets /\ NoEvents.count \in Nat
    BY <1>1
  <2> QED
    BY <1>2, <1>3, <1>4, <1>5, <2>1, EvIs, Zenon
<1>7. Untouched(NoEvents) /\ Unstarted(NoEvents)
  BY <1>1 DEF Untouched, Unstarted
<1>8. FlightOf(NoEvents) = {} /\ StandOf(NoEvents) = {}
  BY <1>1 DEF FlightOf, StandOf
<1> QED
  BY <1>1, <1>6, <1>7, <1>8

LEMMA GoodAtFirst == Good([w \in Wallets |-> Seed(w)], NoEvents)
<1>1. ASSUME NEW w \in Wallets, NEW x \in Assets
      PROVE  /\ Balanced(Seed(w), NoEvents, w, x) /\ Covered(Seed(w), NoEvents, w, x)
             /\ Backed(Seed(w), NoEvents, w, x)
  <2>1. /\ Coming(NoEvents, w, x) = 0 /\ Stands(NoEvents, w, x) = 0
    BY NoEventsFacts, SumOverEmpty DEF Coming, Stands
  <2>2. Needed(NoEvents, w, x) = 0
    <3>1. OpenOf(NoEvents, w, x) = {}
      BY NoEventsFacts DEF OpenOf
    <3> QED
      BY <3>1, SumOverEmpty DEF Needed
  <2>3. Moved(NoEvents, w) = 0
    <3>1. MovedOf(NoEvents, w) = {}
      BY NoEventsFacts DEF MovedOf
    <3> QED
      BY <3>1, SumOverEmpty DEF Moved
  <2>4. NoEvents.short[w][x] = 0
    BY NoEventsFacts
  <2>5. /\ Seed(w)[x].avail = Start[w][x] /\ Seed(w)[x].locked = 0 /\ Seed(w)[x].pending = 0
        /\ Seed(w)["usdc"].locked = 0 /\ Seed(w).coll = 0
    BY SeedFacts DEF Assets
  <2>6. Start[w][x] \in Nat
    BY ManagerAssumption
  <2>7. BalTotal(Seed(w)[x]) = Start[w][x]
    BY <2>5, <2>6 DEF BalTotal
  <2>8. Balanced(Seed(w), NoEvents, w, x)
    BY <2>1, <2>3, <2>4, <2>6, <2>7 DEF Balanced
  <2>9. Covered(Seed(w), NoEvents, w, x)
    BY <2>1, <2>5 DEF Covered
  <2>10. Backed(Seed(w), NoEvents, w, x)
    BY <2>2, <2>4, <2>5 DEF Backed
  <2> QED
    BY <2>8, <2>9, <2>10
<1>2. \A w \in Wallets : Sound(Seed(w), NoEvents, w)
  BY <1>1 DEF Sound
<1>3. \A w \in Wallets : Seed(w) \in AcctType
  BY SeedFacts
<1> QED
  BY <1>2, <1>3, NoEventsFacts DEF Good

LEMMA InitManager == Init => ManagerInv
<1> SUFFICES ASSUME Init PROVE ManagerInv
  OBVIOUS
<1>1. /\ acct = [w \in Wallets |-> Seed(w)] /\ ev = NoEvents /\ dirty = Clean /\ cap = NoCap
      /\ pg = Rows(acct) /\ rd = Rows(acct) /\ image = [acct |-> acct, ev |-> ev]
      /\ wired \in BOOLEAN /\ faults = 0 /\ crashes = 0
  BY DEF Init
<1>2. Good(acct, ev)
  BY <1>1, GoodAtFirst
<1>3. image.acct = acct /\ image.ev = ev
  BY <1>1
<1>4. image \in ImageType
  BY <1>1, <1>2 DEF ImageType, Good
<1>5. dirty \in DirtyType
  BY <1>1 DEF Clean, DirtyType
<1>6. ProjectionType
  BY <1>1, <1>4, <1>5, ManagerAssumption DEF ProjectionType
<1>7. Newest = acct
  BY <1>1, <1>3 DEF Newest
<1>8. \A w \in Wallets : rd[w].ledger = Ledger(acct[w]) /\ rd[w].position = Position(acct[w])
  BY <1>1, RowsAre
<1>9. Projected
  BY <1>1, <1>3, <1>7, <1>8 DEF Projected
<1> QED
  BY <1>1, <1>2, <1>3, <1>6, <1>9 DEF ManagerInv

\* An event leaves what was captured alone.
LEMMA EventKeeps ==
  ASSUME ManagerInv, Good(acct', ev'), ProjectionType', Projected', UNCHANGED projection
  PROVE  ManagerInv'
<1>1. cap' = cap /\ image' = image
  BY DEF projection
<1> QED
  BY <1>1 DEF ManagerInv, NoCap

LEMMA MarkedKeeps ==
  ASSUME ManagerInv, Good(acct', ev'), NEW ws, NEW ps, ps \subseteq ws,
         Marked(ws, ps) \/ UNCHANGED <<acct, dirty, projection>>
  PROVE  ManagerInv'
<1>1. ProjectionType /\ Projected
  BY DEF ManagerInv
<1>2. ProjectionType' /\ Projected'
  BY <1>1, MarkedProjected, StutterProjected
<1>3. UNCHANGED projection
  BY DEF Marked
<1> QED
  BY <1>2, <1>3, EventKeeps

LEMMA EventsKeep ==
  ASSUME ManagerInv,
         \/ \E o \in Orders : Reserve(o) \/ Release(o) \/ ReleaseAgain(o)
         \/ \E b \in Batches : \/ ApplyMatchPending(b) \/ EndBatch(b)
                               \/ Settle(b, "confirmed") \/ Settle(b, "failed")
         \/ \E t \in Transfers : Transfer(t)
  PROVE  ManagerInv'
<1>1. Good(acct, ev)
  BY DEF ManagerInv
<1>2. ASSUME NEW o \in Orders, Reserve(o) PROVE ManagerInv'
  BY <1>1, <1>2, ReserveGood, MarkedKeeps
<1>3. ASSUME NEW o \in Orders, Release(o) PROVE ManagerInv'
  BY <1>1, <1>3, ReleaseGood, MarkedKeeps
<1>4. ASSUME NEW o \in Orders, ReleaseAgain(o) PROVE ManagerInv'
  BY <1>1, <1>4, ReleaseAgainGood, MarkedKeeps
<1>5. ASSUME NEW b \in Batches, ApplyMatchPending(b) PROVE ManagerInv'
  BY <1>1, <1>5, FillGood, MarkedKeeps
<1>6. ASSUME NEW b \in Batches, EndBatch(b) PROVE ManagerInv'
  BY <1>1, <1>6, EndBatchGood, MarkedKeeps
<1>7. ASSUME NEW b \in Batches, NEW outcome \in {"confirmed", "failed"}, Settle(b, outcome) PROVE ManagerInv'
  BY <1>1, <1>7, SettleGood, MarkedKeeps
<1>8. ASSUME NEW t \in Transfers, Transfer(t) PROVE ManagerInv'
  BY <1>1, <1>8, TransferGood, MarkedKeeps
<1> QED
  BY <1>2, <1>3, <1>4, <1>5, <1>6, <1>7, <1>8

LEMMA NextManager == ManagerInv /\ [Next]_vars => ManagerInv'
<1> SUFFICES ASSUME ManagerInv, [Next]_vars PROVE ManagerInv'
  OBVIOUS
<1>1. CASE UNCHANGED vars
  <2>1. UNCHANGED <<acct, dirty, projection>> /\ ev' = ev
    BY <1>1 DEF vars, projection
  <2>2. Good(acct', ev')
    BY <2>1 DEF ManagerInv
  <2> QED
    BY <2>1, <2>2, MarkedKeeps
<1>2. CASE Next
  BY <1>2, EventsKeep, CaptureKeeps, FlushPostgresKeeps, RefreshRedisKeeps, FlushFailsKeeps,
     RefreshFailsKeeps, CrashKeeps DEF Next, Project
<1> QED
  BY <1>1, <1>2

-----------------------------------------------------------------------------
(* The properties of the runs *)

LEMMA StandingSum ==
  ASSUME ev \in EvType, NEW w
  PROVE  /\ Sum([b \in Standing |-> Earned(ev.fills[b], w) - Spent(ev.fills[b], w)]) = Stands(ev, w, "usdc")
         /\ \A x \in {"yes", "no"} :
              Sum([b \in Standing |-> Bought(ev.fills[b], w, x) - Sold(ev.fills[b], w, x)]) = Stands(ev, w, x)
<1> DEFINE f == [b \in Standing |-> Earned(ev.fills[b], w) - Spent(ev.fills[b], w)]
           g(x) == [b \in Standing |-> Bought(ev.fills[b], w, x) - Sold(ev.fills[b], w, x)]
<1>1. Standing = StandOf(ev) /\ Standing \subseteq Batches /\ IsFiniteSet(Batches)
  BY ManagerAssumption DEF Standing, StandOf
<1>2. Sum(f) = Stands(ev, w, "usdc")
  <2>1. \A b \in Standing : f[b] = Nets(ev, w, "usdc")[b]
    BY <1>1 DEF Nets, Net, Gain, Loss
  <2>2. DOMAIN f = Standing
    OBVIOUS
  <2> HIDE DEF f
  <2>3. Sum(f) = SumOver(Nets(ev, w, "usdc"), Standing)
    BY <1>1, <2>1, <2>2, SumOfPart
  <2> QED
    BY <1>1, <2>3 DEF Stands
<1>3. ASSUME NEW x \in {"yes", "no"}
      PROVE  Sum(g(x)) = Stands(ev, w, x)
  <2>1. \A b \in Standing : g(x)[b] = Nets(ev, w, x)[b]
    BY <1>1 DEF Nets, Net, Gain, Loss
  <2>2. DOMAIN g(x) = Standing
    OBVIOUS
  <2> HIDE DEF g
  <2>3. Sum(g(x)) = SumOver(Nets(ev, w, x), Standing)
    BY <1>1, <2>1, <2>2, SumOfPart
  <2> QED
    BY <1>1, <2>3 DEF Stands
<1> QED
  BY <1>2, <1>3

LEMMA InFlightSum ==
  ASSUME ev \in EvType, NEW w
  PROVE  /\ Sum([b \in InFlight |-> Earned(ev.fills[b], w)]) = Coming(ev, w, "usdc")
         /\ \A x \in {"yes", "no"} : Sum([b \in InFlight |-> Bought(ev.fills[b], w, x)]) = Coming(ev, w, x)
<1> DEFINE f == [b \in InFlight |-> Earned(ev.fills[b], w)]
           g(x) == [b \in InFlight |-> Bought(ev.fills[b], w, x)]
<1>1. InFlight = FlightOf(ev) /\ InFlight \subseteq Batches /\ IsFiniteSet(Batches)
  BY ManagerAssumption DEF InFlight, FlightOf
<1>2. Sum(f) = Coming(ev, w, "usdc")
  <2>1. \A b \in InFlight : f[b] = Gains(ev, w, "usdc")[b]
    BY <1>1 DEF Gains, Gain
  <2>2. DOMAIN f = InFlight
    OBVIOUS
  <2> HIDE DEF f
  <2>3. Sum(f) = SumOver(Gains(ev, w, "usdc"), InFlight)
    BY <1>1, <2>1, <2>2, SumOfPart
  <2> QED
    BY <1>1, <2>3 DEF Coming
<1>3. ASSUME NEW x \in {"yes", "no"}
      PROVE  Sum(g(x)) = Coming(ev, w, x)
  <2>1. \A b \in InFlight : g(x)[b] = Gains(ev, w, x)[b]
    BY <1>1 DEF Gains, Gain
  <2>2. DOMAIN g(x) = InFlight
    OBVIOUS
  <2> HIDE DEF g
  <2>3. Sum(g(x)) = SumOver(Gains(ev, w, x), InFlight)
    BY <1>1, <2>1, <2>2, SumOfPart
  <2> QED
    BY <1>1, <2>3 DEF Coming
<1> QED
  BY <1>2, <1>3

LEMMA OpenSum ==
  ASSUME ev \in EvType, NEW w, NEW x
  PROVE  Sum([o \in {o \in ev.booked : Order[o].wallet = w /\ Pays(o) = x} |-> Required(o, ev.left[o])])
            = Needed(ev, w, x)
<1> DEFINE S == {o \in ev.booked : Order[o].wallet = w /\ Pays(o) = x}
           f == [o \in S |-> Required(o, ev.left[o])]
<1>1. S = OpenOf(ev, w, x)
  BY DEF OpenOf
<1>2. S \subseteq Orders /\ IsFiniteSet(Orders)
  BY ManagerAssumption, EvFields
<1> HIDE DEF S
<1>3. \A o \in S : f[o] = Needs(ev)[o]
  BY <1>2 DEF Needs
<1>4. DOMAIN f = S
  OBVIOUS
<1> HIDE DEF f
<1>5. Sum(f) = SumOver(Needs(ev), S)
  BY <1>2, <1>3, <1>4, SumOfPart
<1> QED
  BY <1>1, <1>5 DEF Needed, f, S

LEMMA FundedSum ==
  ASSUME ev \in EvType, NEW w
  PROVE  Funded(w) = Moved(ev, w)
<1> DEFINE S == {t \in ev.moved : t.wallet = w}
           f == [t \in S |-> IF t.kind = "deposit" THEN t.amount ELSE -t.amount]
<1>1. S = MovedOf(ev, w)
  BY DEF MovedOf
<1>2. S \subseteq Transfers /\ IsFiniteSet(Transfers)
  BY ManagerAssumption, EvFields
<1> HIDE DEF S
<1>3. \A t \in S : f[t] = Worth[t]
  BY <1>2 DEF Worth
<1>4. DOMAIN f = S
  OBVIOUS
<1> HIDE DEF f
<1>5. Sum(f) = SumOver(Worth, S)
  BY <1>2, <1>3, <1>4, SumOfPart
<1> QED
  BY <1>1, <1>5 DEF Moved, Funded, f, S

LEMMA InvAccounted == ManagerInv => Accounted
<1> SUFFICES ASSUME ManagerInv PROVE Accounted
  OBVIOUS
<1>1. Good(acct, ev) /\ acct \in [Wallets -> AcctType] /\ ev \in EvType
  BY DEF ManagerInv, Good
<1>2. TypeOK
  <2>1. dirty \in DirtyType /\ faults \in 0 .. MaxFaults /\ crashes \in 0 .. MaxCrashes
    BY DEF ManagerInv, ProjectionType
  <2>2. dirty.ledgers \subseteq Wallets /\ dirty.positions \subseteq Wallets
    BY <2>1 DEF DirtyType
  <2>3. acct \in Accounts
    BY <1>1 DEF Accounts, AcctType
  <2>4. ev.left \in [Orders -> Nat] /\ ev.short \in [Wallets -> [Assets -> Nat]]
    BY <1>1, EvFields
  <2> QED
    BY <2>1, <2>2, <2>3, <2>4 DEF TypeOK
<1>3. MoneyAccounted
  <2>1. ASSUME NEW w \in Wallets
        PROVE  Total(w, "usdc") = Start[w]["usdc"] + Funded(w) + ev.short[w]["usdc"]
                 + Sum([b \in Standing |-> Earned(ev.fills[b], w) - Spent(ev.fills[b], w)])
    <3>1. Balanced(acct[w], ev, w, "usdc")
      BY <1>1, GoodParts DEF Assets
    <3>2. BalTotal(acct[w]["usdc"]) = Start[w]["usdc"] + Moved(ev, w) + ev.short[w]["usdc"] + Stands(ev, w, "usdc")
      BY <3>1 DEF Balanced
    <3>3. Total(w, "usdc") = BalTotal(acct[w]["usdc"])
      BY DEF Total, BalTotal
    <3> QED
      BY <1>1, <3>2, <3>3, FundedSum, StandingSum
  <2> QED
    BY <2>1 DEF MoneyAccounted
<1>4. SharesAccounted
  <2>1. ASSUME NEW w \in Wallets \ ev.netted, NEW x \in {"yes", "no"}
        PROVE  Total(w, x) = Start[w][x] + ev.short[w][x]
                 + Sum([b \in Standing |-> Bought(ev.fills[b], w, x) - Sold(ev.fills[b], w, x)])
    <3>1. /\ Balanced(acct[w], ev, w, x) /\ Start[w][x] \in Nat /\ ev.short[w][x] \in Nat
          /\ Stands(ev, w, x) \in Int
      BY <1>1, GoodParts DEF Assets
    <3>2. BalTotal(acct[w][x]) = Start[w][x] + ev.short[w][x] + Stands(ev, w, x)
      BY <3>1 DEF Balanced
    <3>3. Total(w, x) = BalTotal(acct[w][x])
      BY DEF Total, BalTotal
    <3> QED
      BY <1>1, <3>2, <3>3, StandingSum
  <2> QED
    BY <2>1 DEF SharesAccounted
<1> QED
  BY <1>2, <1>3, <1>4 DEF Accounted

LEMMA InvOrdersBacked == ManagerInv => OrdersBacked
<1> SUFFICES ASSUME ManagerInv PROVE OrdersBacked
  OBVIOUS
<1>1. Good(acct, ev) /\ ev \in EvType
  BY DEF ManagerInv, Good
<1>2. ASSUME NEW w \in Wallets \ ev.strained, NEW x \in Assets
      PROVE  /\ acct[w][x].locked = Needed(ev, w, x) /\ ev.short[w][x] = 0
             /\ acct[w].coll = acct[w]["usdc"].locked
  <2>1. Backed(acct[w], ev, w, x)
    BY <1>1, GoodParts
  <2> QED
    BY <2>1 DEF Backed
<1>3. LockedBacked
  BY <1>1, <1>2, OpenSum DEF LockedBacked
<1>4. PaidInFull
  BY <1>2 DEF PaidInFull
<1> QED
  BY <1>3, <1>4 DEF OrdersBacked

LEMMA InvPendingBacked == ManagerInv => PendingBacked
<1> SUFFICES ASSUME ManagerInv PROVE PendingBacked
  OBVIOUS
<1>1. Good(acct, ev) /\ ev \in EvType
  BY DEF ManagerInv, Good
<1>2. ASSUME NEW w \in Wallets \ ev.netted, NEW x \in Assets
      PROVE  acct[w][x].pending = Coming(ev, w, x)
  <2>1. Covered(acct[w], ev, w, x)
    BY <1>1, GoodParts
  <2> QED
    BY <2>1 DEF Covered
<1>3. ASSUME NEW w \in Wallets \ ev.netted
      PROVE  /\ acct[w].usdc.pending = Sum([b \in InFlight |-> Earned(ev.fills[b], w)])
             /\ \A x \in {"yes", "no"} :
                  acct[w][x].pending = Sum([b \in InFlight |-> Bought(ev.fills[b], w, x)])
  <2>1. acct[w]["usdc"].pending = Coming(ev, w, "usdc")
    BY <1>2 DEF Assets
  <2>2. \A x \in {"yes", "no"} : acct[w][x].pending = Coming(ev, w, x)
    BY <1>2 DEF Assets
  <2> QED
    BY <1>1, <2>1, <2>2, InFlightSum
<1> QED
  BY <1>3 DEF PendingBacked

LEMMA InvNoChangeLost == ManagerInv => NoChangeLost
<1> SUFFICES ASSUME ManagerInv PROVE NoChangeLost
  OBVIOUS
<1>1. ProjectionType /\ Projected
  BY DEF ManagerInv
<1>2. PostgresIsOneMoment
  BY <1>1 DEF PostgresIsOneMoment, Projected
<1>3. ASSUME wired, NEW w \in Wallets
      PROVE  /\ \/ w \in dirty.ledgers \/ (cap # NoCap /\ w \in cap.rows.ledgers)
                \/ pg[w].ledger = Ledger(acct[w]) /\ rd[w].ledger = Ledger(acct[w])
             /\ \/ w \in dirty.positions \/ (cap # NoCap /\ w \in cap.rows.positions)
                \/ pg[w].position = Position(acct[w]) /\ rd[w].position = Position(acct[w])
  <2>1. /\ w \in dirty.ledgers \/ Ledger(acct[w]) = Ledger(Newest[w])
        /\ w \in dirty.positions \/ Position(acct[w]) = Position(Newest[w])
        /\ w \in Unwritten.ledgers \/ rd[w].ledger = Ledger(Newest[w])
        /\ w \in Unwritten.positions \/ rd[w].position = Position(Newest[w])
    BY <1>1, <1>3 DEF Projected
  <2>2. pg[w].ledger = Ledger(image.acct[w]) /\ pg[w].position = Position(image.acct[w])
    <3>1. pg = Rows(image.acct)
      BY <1>1 DEF Projected
    <3> QED
      BY <3>1, RowsAre
  <2>3. CASE cap = NoCap
    BY <2>1, <2>2, <2>3 DEF Newest, Unwritten
  <2>4. CASE cap # NoCap
    <3>1. Unwritten = cap.rows /\ Newest = cap.of.acct /\ cap.at \in {"postgres", "redis"}
      BY <1>1, <2>4 DEF Newest, Unwritten, ProjectionType, CapType
    <3>2. CASE cap.at = "postgres"
      <4>1. /\ w \in cap.rows.ledgers \/ pg[w].ledger = Ledger(Newest[w])
            /\ w \in cap.rows.positions \/ pg[w].position = Position(Newest[w])
        BY <1>1, <2>4, <3>2 DEF Projected
      <4> QED
        BY <2>1, <2>4, <3>1, <4>1
    <3>3. CASE cap.at = "redis"
      <4>1. image = cap.of
        BY <1>1, <2>4, <3>3 DEF Projected
      <4> QED
        BY <2>1, <2>2, <2>4, <3>1, <4>1
    <3> QED
      BY <3>1, <3>2, <3>3
  <2> QED
    BY <2>3, <2>4
<1>4. DirtyCovers
  BY <1>3 DEF DirtyCovers
<1> QED
  BY <1>2, <1>4 DEF NoChangeLost

\* After every event, in the accounts the shards hold and in the ones a flush
\* captured or Postgres keeps: every balance is what the applied events say,
\* and only a dirty row can differ from a capture (manager.go, projector.go).
THEOREM ManagerInvHolds == Spec => []ManagerInv
<1>1. Init => ManagerInv
  BY InitManager
<1>2. ManagerInv /\ [Next]_vars => ManagerInv'
  BY NextManager
<1> QED
  BY <1>1, <1>2, PTL DEF Spec

\* No unsigned balance of UserWallet or MarketPosition goes below zero, and
\* reserving, filling, releasing (also twice), confirming, failing, depositing
\* and withdrawing neither make nor lose money or shares.
THEOREM AccountedHolds == Spec => []Accounted
BY ManagerInvHolds, InvAccounted, PTL

\* applyFillForOrder finds every fill's reserve locked, and locked and
\* collateral are the need of the open orders, for a wallet whose orders were
\* reserved before they were filled and released without rounding.
THEOREM OrdersBackedHolds == Spec => []OrdersBacked
BY ManagerInvHolds, InvOrdersBacked, PTL

\* ApplySettlementConfirmedByBatch and ApplySettlementFailedByBatch take a
\* batch's own part out of pending and no other batch's.
THEOREM PendingBackedHolds == Spec => []PendingBacked
BY ManagerInvHolds, InvPendingBacked, PTL

\* flushPostgres leaves Postgres at one moment, whatever failed before, and no
\* changed row is forgotten by the dirty index, by RestoreDirty or by recovery.
THEOREM NoChangeLostHolds == Spec => []NoChangeLost
BY ManagerInvHolds, InvNoChangeLost, PTL
=============================================================================
