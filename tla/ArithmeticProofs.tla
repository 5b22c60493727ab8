-------------------------- MODULE ArithmeticProofs --------------------------
(***************************************************************************)
(* The arithmetic that the proofs about the components rest on.            *)
(*                                                                         *)
(* Prices and lots: facts about OrderMath for every Scale, price, spend    *)
(* and quantity.  They are what makes the matching loop correct for a      *)
(* market buy, whose loop condition is on the money left, not on the lots. *)
(*                                                                         *)
(* Sums: what the folds of the community modules compute for every finite  *)
(* set, by induction over its subsets.  The balances of the funds service  *)
(* and the depth of the writer are such sums.                              *)
(***************************************************************************)
EXTENDS OrderMath, FiniteSetsExt, FiniteSetTheorems, TLAPS

-----------------------------------------------------------------------------
(* Prices and lots *)

\* Every order, whatever its outcome, trades at an effective price strictly
\* between 0 and Scale when the YES book does.
LEMMA EffectivePriceInRange ==
    ASSUME NEW outcome, NEW price \in Prices
    PROVE  EffectivePrice(outcome, price) \in Prices
BY ScaleAssumption DEF EffectivePrice, Prices

\* Division with a positive divisor, as two inequalities.
LEMMA DivBounds ==
    ASSUME NEW a \in Nat, NEW d \in Nat \ {0}
    PROVE  /\ a \div d \in Nat
           /\ d * (a \div d) <= a
           /\ a < d * (a \div d) + d
OBVIOUS

\* A quotient is determined by those inequalities.
LEMMA DivUnique ==
    ASSUME NEW a \in Nat, NEW d \in Nat \ {0}, NEW q \in Nat,
           d * q <= a, a < d * q + d
    PROVE  a \div d = q
<1> DEFINE r == a \div d
<1>1. r \in Nat /\ d * r <= a /\ a < d * r + d
  BY DivBounds
<1>2. ASSUME r < q PROVE FALSE
  <2>1. d * (r + 1) <= d * q
    BY <1>1, <1>2
  <2>2. d * (r + 1) = d * r + d
    BY <1>1
  <2> QED BY <2>1, <2>2, <1>1
<1>3. ASSUME q < r PROVE FALSE
  <2>1. d * (q + 1) <= d * r
    BY <1>1, <1>3
  <2>2. d * (q + 1) = d * q + d
    OBVIOUS
  <2> QED BY <2>1, <2>2, <1>1
<1> QED BY <1>1, <1>2, <1>3

\* The money left of a market buy always buys at least one lot, so the
\* branch of matchAsks and matchBids that drops the money without a fill
\* (matchQty == 0) is never taken.
THEOREM SpendBuysALot ==
    ASSUME NEW outcome, NEW price \in Prices, NEW spend \in Nat \ {0}
    PROVE  /\ lotsForOrderSpend(outcome, spend, price) \in Nat
           /\ lotsForOrderSpend(outcome, spend, price) >= 1
<1>1. PICK e \in Prices : e = EffectivePrice(outcome, price)
  BY EffectivePriceInRange
<1>2. e \in Nat \ {0} /\ e < Scale /\ Scale \in Nat
  BY <1>1, ScaleAssumption DEF Prices
<1>3. PICK a \in Nat : a = spend * Scale
  BY <1>2
<1>4. e <= a
  BY <1>2, <1>3
<1>5. a \div e \in Nat /\ a < e * (a \div e) + e
  BY <1>2, <1>3, DivBounds
<1>6. a \div e # 0
  BY <1>2, <1>3, <1>4, <1>5
<1>7. lotsForOrderSpend(outcome, spend, price) = a \div e
  BY <1>1, <1>2, <1>3 DEF lotsForOrderSpend, lotsForSpend
<1> QED BY <1>5, <1>6, <1>7

\* Buying the lots that the money left of a market buy affords costs exactly
\* that money: the buy ends there, filled and with nothing to refund, and
\* never steps over a maker it could only buy in part.
THEOREM SpendIsExhausted ==
    ASSUME NEW outcome, NEW price \in Prices, NEW spend \in Nat \ {0}
    PROVE  actualUnitsForOrder(outcome, lotsForOrderSpend(outcome, spend, price), price)
             = spend
<1>1. PICK e \in Prices : e = EffectivePrice(outcome, price)
  BY EffectivePriceInRange
<1>2. e \in Nat \ {0} /\ e + 1 <= Scale /\ Scale \in Nat \ {0}
  BY <1>1, ScaleAssumption DEF Prices
<1>3. PICK q \in Nat : q = lotsForOrderSpend(outcome, spend, price) /\ q >= 1
  BY SpendBuysALot
<1>4. PICK a \in Nat : a = spend * Scale
  BY <1>2
<1>5. q = a \div e
  BY <1>1, <1>2, <1>3, <1>4 DEF lotsForOrderSpend, lotsForSpend
<1>6. e * q <= a /\ a < e * q + e
  BY <1>2, <1>4, <1>5, DivBounds
<1>7. PICK c \in Nat : c = e * q
  BY <1>2, <1>3
<1>8. q * e = c /\ Scale * spend = a
  BY <1>2, <1>3, <1>4, <1>7
<1>9. a <= c + Scale - 1 /\ c + Scale - 1 < a + Scale
  BY <1>2, <1>4, <1>6, <1>7
<1>10. (c + Scale - 1) \div Scale = spend
  <2>1. c + Scale - 1 \in Nat
    BY <1>2, <1>7
  <2> QED BY <1>2, <1>8, <1>9, <2>1, DivUnique
<1>11. actualUnitsForOrder(outcome, q, price) = (c + Scale - 1) \div Scale
  BY <1>1, <1>2, <1>3, <1>8 DEF actualUnitsForOrder, ceilMulDiv
<1> QED BY <1>3, <1>10, <1>11

\* When the money left does not clear a maker, the lots it affords are fewer
\* than the maker has: the uint64 subtractions of the fill cannot wrap.
THEOREM AffordableIsFewer ==
    ASSUME NEW outcome, NEW price \in Prices, NEW spend \in Nat \ {0},
           NEW qty \in Nat,
           spend < actualUnitsForOrder(outcome, qty, price)
    PROVE  lotsForOrderSpend(outcome, spend, price) < qty
<1>1. PICK e \in Prices : e = EffectivePrice(outcome, price)
  BY EffectivePriceInRange
<1>2. e \in Nat \ {0} /\ Scale \in Nat \ {0}
  BY <1>1, ScaleAssumption DEF Prices
<1>3. PICK a \in Nat : a = spend * Scale
  BY <1>2
<1>4. PICK c \in Nat : c = qty * e
  BY <1>2
<1>5. actualUnitsForOrder(outcome, qty, price) = ceilMulDiv(qty, e)
  BY <1>1 DEF actualUnitsForOrder
<1>6. qty # 0
  BY <1>5 DEF ceilMulDiv
<1>7. spend < (c + Scale - 1) \div Scale
  BY <1>2, <1>4, <1>5, <1>6 DEF ceilMulDiv
<1>8. a < c
  <2>1. PICK u \in Nat : u = (c + Scale - 1) \div Scale /\ Scale * u <= c + Scale - 1
    <3>1. c + Scale - 1 \in Nat
      BY <1>2, <1>4
    <3> QED BY <1>2, <3>1, DivBounds
  <2>2. spend + 1 <= u
    BY <1>7, <2>1
  <2>3. Scale * (spend + 1) <= Scale * u
    BY <1>2, <2>1, <2>2
  <2>4. Scale * (spend + 1) = a + Scale
    BY <1>2, <1>3
  <2> QED BY <1>2, <1>3, <1>4, <2>1, <2>3, <2>4
<1>9. lotsForOrderSpend(outcome, spend, price) = a \div e
  BY <1>1, <1>2, <1>3 DEF lotsForOrderSpend, lotsForSpend
<1>10. PICK q \in Nat : q = a \div e /\ e * q <= a
  BY <1>2, <1>3, DivBounds
<1>11. ASSUME qty <= q PROVE FALSE
  <2>1. e * qty <= e * q
    BY <1>2, <1>10, <1>11
  <2>2. e * qty = c
    BY <1>2, <1>4
  <2>3. PICK m \in Nat : m = e * q
    BY <1>2, <1>10
  <2>4. c <= m /\ m <= a
    BY <1>10, <2>1, <2>2, <2>3
  <2> QED BY <1>8, <2>4
<1> QED BY <1>9, <1>10, <1>11

-----------------------------------------------------------------------------
(* Sums over finite sets *)

\* The element the folds of the community modules take from a set.
Pick(s) == CHOOSE x \in s : TRUE

\* g is what MapThenFoldSet builds to add up f over the subsets of S.
IsSum(g, f, S) ==
    g = [s \in SUBSET S |-> IF s = {} THEN 0 ELSE f[Pick(s)] + g[s \ {Pick(s)}]]

\* Every non-empty set of subsets of a finite set has a smallest member: what the inductions below
\* rest on, a counterexample being taken with no smaller one.
LEMMA SmallestSubset ==
    ASSUME NEW S, IsFiniteSet(S), NEW T \in SUBSET (SUBSET S), T # {}
    PROVE  \E X \in T : \A Y \in SUBSET X : Y \in T => Y = X
<1>1. IsWellFoundedOn(StrictSubsetOrdering(S), SUBSET S)
  BY FS_StrictSubsetOrderingWellFounded, FS_FiniteSubsetsOfFinite, Zenon
<1>2. PICK X \in T : \A Y \in T : ~ (<<Y, X>> \in StrictSubsetOrdering(S))
  BY <1>1, WFMin, Zenon
<1>3. X \in SUBSET S
  OBVIOUS
<1>4. ASSUME NEW Y \in SUBSET X, Y \in T PROVE Y = X
  <2> SUFFICES ASSUME Y # X PROVE FALSE OBVIOUS
  <2>1. <<Y, X>> \in StrictSubsetOrdering(S)
    BY <1>3, <1>4 DEF StrictSubsetOrdering
  <2> QED BY <2>1, <1>2, <1>4
<1> QED BY <1>4

\* A finite set has an element where a function of integers is greatest.
LEMMA GreatestExists ==
    ASSUME NEW S, IsFiniteSet(S), S # {}, NEW f, \A x \in S : f[x] \in Int
    PROVE  \E m \in S : \A x \in S : f[m] >= f[x]
<1> DEFINE Has(X) == \E m \in X : \A x \in X : f[m] >= f[x]
           T == {X \in SUBSET S : X # {} /\ ~Has(X)}
<1> SUFFICES ASSUME T # {} PROVE FALSE
  OBVIOUS
<1>1. PICK X \in T : \A Y \in SUBSET X : Y \in T => Y = X
  <2> HIDE DEF T
  <2>1. T \in SUBSET (SUBSET S)
    BY DEF T
  <2> QED
    BY <2>1, SmallestSubset
<1>2. X \in SUBSET S /\ X # {} /\ ~Has(X)
  OBVIOUS
<1>3. PICK c \in X : TRUE
  BY <1>2
<1>4. X \ {c} \notin T /\ X \ {c} \in SUBSET S
  <2> HIDE DEF T
  <2> QED
    BY <1>1, <1>2, <1>3
<1>5. CASE X \ {c} = {}
  BY <1>2, <1>3, <1>5
<1>6. CASE X \ {c} # {}
  <2>1. PICK m \in X \ {c} : \A x \in X \ {c} : f[m] >= f[x]
    BY <1>4, <1>6
  <2>2. f[m] \in Int /\ f[c] \in Int /\ \A x \in X : f[x] \in Int
    BY <1>2, <1>3, <2>1
  <2>3. CASE f[m] >= f[c]
    <3>1. \A x \in X : f[m] >= f[x]
      BY <2>1, <2>3
    <3> QED
      BY <1>2, <2>1, <3>1
  <2>4. CASE f[c] >= f[m]
    <3>1. \A x \in X : f[c] >= f[x]
      BY <2>1, <2>2, <2>4
    <3> QED
      BY <1>2, <1>3, <3>1
  <2> QED
    BY <2>2, <2>3, <2>4
<1> QED
  BY <1>5, <1>6

\* There is at most one such function, and the ones for two sets agree.
LEMMA SumUnique ==
    ASSUME NEW f, NEW S, NEW U, IsFiniteSet(S), NEW g, NEW h, U \in SUBSET S,
           IsSum(g, f, S), IsSum(h, f, U)
    PROVE  g[U] = h[U]
<1> DEFINE T == {X \in SUBSET U : g[X] # h[X]}
<1> SUFFICES T = {}
  OBVIOUS
<1> SUFFICES ASSUME T # {} PROVE FALSE
  OBVIOUS
<1>0. IsFiniteSet(U) 
  BY FS_Subset
<1>1. PICK X \in T : \A Y \in SUBSET X : Y \in T => Y = X
  <2> HIDE DEF T
  <2>1. T \in SUBSET (SUBSET U) BY DEF T
  <2> QED BY <1>0, <2>1, SmallestSubset
<1>2. CASE X = {}
  BY <1>2 DEF IsSum
<1>3. CASE X # {}
  <2>1. Pick(X) \in X
    BY <1>3 DEF Pick
  <2>2. X \ {Pick(X)} \in SUBSET U /\ X \ {Pick(X)} \notin T
    BY <1>1, <2>1
  <2>3. g[X \ {Pick(X)}] = h[X \ {Pick(X)}]
    BY <2>2
  <2>4. X \in SUBSET U /\ X \in SUBSET S
    OBVIOUS
  <2>5. g[X] = f[Pick(X)] + g[X \ {Pick(X)}]
    BY <1>3, <2>4 DEF IsSum
  <2>6. h[X] = f[Pick(X)] + h[X \ {Pick(X)}]
    BY <1>3, <2>4 DEF IsSum
  <2> QED BY <2>3, <2>5, <2>6
<1> QED BY <1>2, <1>3

\* There is one.
LEMMA SumExists ==
    ASSUME NEW f, NEW S, IsFiniteSet(S)
    PROVE  \E g : IsSum(g, f, S)
<1> DEFINE T == {X \in SUBSET S : ~ \E g : IsSum(g, f, X)}
<1> SUFFICES ASSUME T # {} PROVE FALSE
  OBVIOUS
<1>1. PICK X \in T : \A Y \in SUBSET X : Y \in T => Y = X
  <2> HIDE DEF T
  <2>1. T \in SUBSET (SUBSET S) BY DEF T
  <2> QED BY <2>1, SmallestSubset
<1> DEFINE h[u \in SUBSET S] == (CHOOSE g : IsSum(g, f, u))[u]
           new == [s \in SUBSET X |-> IF s = {} THEN 0 ELSE f[Pick(s)] + h[s \ {Pick(s)}]]
<1>2. ASSUME NEW s \in SUBSET X, s # {}
      PROVE  new[s \ {Pick(s)}] = h[s \ {Pick(s)}]
  <2> DEFINE u == s \ {Pick(s)}
  <2>1. Pick(s) \in s BY <1>2 DEF Pick
  <2>2. u \in SUBSET X /\ u # X /\ u \in SUBSET S /\ X \in SUBSET S
    BY <2>1
  <2>3. u \notin T
    BY <1>1, <2>2
  <2> DEFINE k == CHOOSE g : IsSum(g, f, u)
  <2>4. IsSum(k, f, u)
    BY <2>2, <2>3
  <2>5. h[u] = k[u]
    BY <2>2
  <2>6. CASE u = {}
    <3>1. k[u] = 0
      BY <2>4, <2>6 DEF IsSum
    <3>2. new[u] = 0
      BY <2>2, <2>6
    <3> QED BY <2>5, <3>1, <3>2
  <2>7. CASE u # {}
    <3> DEFINE w == u \ {Pick(u)}
    <3>1. Pick(u) \in u BY <2>7 DEF Pick
    <3>2. w \in SUBSET u /\ w \in SUBSET X /\ w # X /\ w \in SUBSET S
      BY <2>2, <3>1
    <3>3. w \notin T
      BY <1>1, <3>2
    <3> DEFINE j == CHOOSE g : IsSum(g, f, w)
    <3>4. IsSum(j, f, w)
      BY <3>2, <3>3
    <3>5. h[w] = j[w]
      BY <3>2
    <3>6. IsFiniteSet(u)
      BY <2>2, FS_Subset
    <3>7. k[w] = j[w]
      <4> HIDE DEF k, j, w, u
      <4> QED BY <2>4, <3>2, <3>4, <3>6, SumUnique
    <3>8. k[u] = f[Pick(u)] + k[w]
      BY <2>4, <2>7 DEF IsSum
    <3>9. new[u] = f[Pick(u)] + h[w]
      BY <2>2, <2>7
    <3> QED BY <2>5, <3>5, <3>7, <3>8, <3>9
  <2> QED BY <2>6, <2>7
<1>3. IsSum(new, f, X)
  <2>1. new = [s \in SUBSET X |-> IF s = {} THEN 0 ELSE f[Pick(s)] + h[s \ {Pick(s)}]]
    OBVIOUS
  <2> HIDE DEF new, h
  <2>2. \A s \in SUBSET X : (IF s = {} THEN 0 ELSE f[Pick(s)] + h[s \ {Pick(s)}])
                            = (IF s = {} THEN 0 ELSE f[Pick(s)] + new[s \ {Pick(s)}])
    BY <1>2
  <2>3. new = [s \in SUBSET X |-> IF s = {} THEN 0 ELSE f[Pick(s)] + new[s \ {Pick(s)}]]
    BY <2>1, <2>2
  <2> QED
    BY <2>3 DEF IsSum
<1> QED
  BY <1>3

\* The sum of f over S.
SumOver(f, S) == (CHOOSE g : IsSum(g, f, S))[S]

\* Nothing adds up to zero.
LEMMA SumOverEmpty == ASSUME NEW f PROVE SumOver(f, {}) = 0
<1>1. \E g : IsSum(g, f, {}) BY SumExists, FS_EmptySet
<1>2. IsSum(CHOOSE g : IsSum(g, f, {}), f, {}) BY <1>1
<1> QED BY <1>2 DEF SumOver, IsSum

\* The recursion of the fold, with the element it takes.
LEMMA SumOverPick ==
    ASSUME NEW f, NEW S, IsFiniteSet(S), S # {}
    PROVE  SumOver(f, S) = f[Pick(S)] + SumOver(f, S \ {Pick(S)})
<1> DEFINE k == CHOOSE g : IsSum(g, f, S)
           U == S \ {Pick(S)}
           j == CHOOSE g : IsSum(g, f, U)
<1>1. IsSum(k, f, S)
  BY SumExists
<1>2. IsFiniteSet(U) /\ U \in SUBSET S
  BY FS_Subset
<1>3. IsSum(j, f, U)
  BY <1>2, SumExists
<1>4. k[U] = j[U]
  <2> HIDE DEF k, j, U
  <2> QED BY <1>1, <1>2, <1>3, SumUnique
<1>5. k[S] = f[Pick(S)] + k[U]
  BY <1>1 DEF IsSum
<1> QED BY <1>4, <1>5 DEF SumOver

\* A sum of integers is one.
LEMMA SumOverType ==
    ASSUME NEW S, IsFiniteSet(S), NEW f, \A x \in S : f[x] \in Int
    PROVE  SumOver(f, S) \in Int
<1> DEFINE T == {X \in SUBSET S : SumOver(f, X) \notin Int}
<1> SUFFICES ASSUME T # {} PROVE FALSE
  OBVIOUS
<1>1. PICK X \in T : \A Y \in SUBSET X : Y \in T => Y = X
  <2> HIDE DEF T
  <2>1. T \in SUBSET (SUBSET S) BY DEF T
  <2> QED BY <2>1, SmallestSubset
<1>2. X # {}
  BY SumOverEmpty
<1>3. Pick(X) \in X
  BY <1>2 DEF Pick
<1>4. X \ {Pick(X)} \notin T /\ X \ {Pick(X)} \in SUBSET S
  BY <1>1, <1>3
<1>5. IsFiniteSet(X)
  BY FS_Subset
<1>6. SumOver(f, X) = f[Pick(X)] + SumOver(f, X \ {Pick(X)})
  BY <1>2, <1>5, SumOverPick
<1> QED BY <1>3, <1>4, <1>6

\* The order of the additions does not matter: any element may be taken out first, ...
LEMMA SumOverRemove ==
    ASSUME NEW S, IsFiniteSet(S), NEW f, \A x \in S : f[x] \in Int, NEW x \in S
    PROVE  SumOver(f, S) = f[x] + SumOver(f, S \ {x})
<1> DEFINE T == {X \in SUBSET S : \E y \in X : SumOver(f, X) # f[y] + SumOver(f, X \ {y})}
<1> SUFFICES ASSUME T # {} PROVE FALSE
  OBVIOUS
<1>1. PICK X \in T : \A Y \in SUBSET X : Y \in T => Y = X
  <2> HIDE DEF T
  <2>1. T \in SUBSET (SUBSET S) BY DEF T
  <2> QED BY <2>1, SmallestSubset
<1>2. PICK y \in X : SumOver(f, X) # f[y] + SumOver(f, X \ {y})
  OBVIOUS
<1> DEFINE c == Pick(X)
<1>3. c \in X /\ X # {}
  BY DEF Pick
<1>4. \A Y \in SUBSET S : IsFiniteSet(Y) /\ SumOver(f, Y) \in Int
  <2> TAKE Y \in SUBSET S
  <2>1. IsFiniteSet(Y) BY FS_Subset
  <2> QED BY <2>1, SumOverType
<1>5. SumOver(f, X) = f[c] + SumOver(f, X \ {c})
  BY <1>3, <1>4, SumOverPick
<1>6. y # c
  BY <1>2, <1>5
<1>7. X \ {c} \notin T /\ X \ {y} \notin T
  <2> HIDE DEF T, c
  <2> QED BY <1>1, <1>2, <1>3
<1>8. SumOver(f, X \ {c}) = f[y] + SumOver(f, (X \ {c}) \ {y})
  BY <1>6, <1>7
<1>9. SumOver(f, X \ {y}) = f[c] + SumOver(f, (X \ {y}) \ {c})
  BY <1>3, <1>6, <1>7
<1>10. (X \ {c}) \ {y} = (X \ {y}) \ {c} /\ (X \ {c}) \ {y} \in SUBSET S
  OBVIOUS
<1>11. f[c] \in Int /\ f[y] \in Int /\ SumOver(f, (X \ {c}) \ {y}) \in Int
  BY <1>3, <1>4, <1>10
<1>12. SumOver(f, X \ {y}) = f[c] + SumOver(f, (X \ {c}) \ {y})
  BY <1>9, <1>10, Zenon
<1>13. \A a, b, r \in Int : a + (b + r) = b + (a + r)
  OBVIOUS
<1>14. SumOver(f, X) = f[y] + SumOver(f, X \ {y})
  <2> DEFINE r == SumOver(f, (X \ {c}) \ {y})
  <2>1. SumOver(f, X) = f[c] + (f[y] + r)
    BY <1>5, <1>8, Zenon
  <2>2. SumOver(f, X \ {y}) = f[c] + r
    BY <1>12, Zenon
  <2>3. f[c] + (f[y] + r) = f[y] + (f[c] + r)
    BY <1>11, <1>13, Zenon
  <2> QED
    BY <2>1, <2>2, <2>3, Zenon
<1> QED
  BY <1>2, <1>14, Zenon

\* ... or be added last.
LEMMA SumOverAdd ==
    ASSUME NEW S, IsFiniteSet(S), NEW f, NEW x, x \notin S, \A y \in S \cup {x} : f[y] \in Int
    PROVE  SumOver(f, S \cup {x}) = f[x] + SumOver(f, S)
<1> DEFINE X == S \cup {x}
<1>1. IsFiniteSet(X)
  BY FS_AddElement
<1>2. x \in X /\ X \ {x} = S
  OBVIOUS
<1>3. \A y \in X : f[y] \in Int
  OBVIOUS
<1> HIDE DEF X
<1>4. SumOver(f, X) = f[x] + SumOver(f, X \ {x})
  BY <1>1, <1>2, <1>3, SumOverRemove
<1> QED
  BY <1>2, <1>4 DEF X

\* Two functions that agree on S have the same sum over S.
LEMMA SumOverSame ==
    ASSUME NEW S, IsFiniteSet(S), NEW f, NEW g, \A x \in S : f[x] = g[x]
    PROVE  SumOver(f, S) = SumOver(g, S)
<1> DEFINE T == {X \in SUBSET S : SumOver(f, X) # SumOver(g, X)}
<1> SUFFICES ASSUME T # {} PROVE FALSE
  OBVIOUS
<1>1. PICK X \in T : \A Y \in SUBSET X : Y \in T => Y = X
  <2> HIDE DEF T
  <2>1. T \in SUBSET (SUBSET S) BY DEF T
  <2> QED BY <2>1, SmallestSubset
<1>2. X # {}
  BY SumOverEmpty
<1>3. Pick(X) \in X
  BY <1>2 DEF Pick
<1>4. X \ {Pick(X)} \notin T /\ X \ {Pick(X)} \in SUBSET S
  BY <1>1, <1>3
<1>5. IsFiniteSet(X)
  BY FS_Subset
<1>6. /\ SumOver(f, X) = f[Pick(X)] + SumOver(f, X \ {Pick(X)})
      /\ SumOver(g, X) = g[Pick(X)] + SumOver(g, X \ {Pick(X)})
  BY <1>2, <1>5, SumOverPick
<1>7. f[Pick(X)] = g[Pick(X)]
  BY <1>3
<1> QED BY <1>4, <1>6, <1>7

\* A sum of zeros is zero.
LEMMA SumOverZero ==
    ASSUME NEW S, IsFiniteSet(S), NEW f, \A x \in S : f[x] = 0
    PROVE  SumOver(f, S) = 0
<1> DEFINE T == {X \in SUBSET S : SumOver(f, X) # 0}
<1> SUFFICES ASSUME T # {} PROVE FALSE
  OBVIOUS
<1>1. PICK X \in T : \A Y \in SUBSET X : Y \in T => Y = X
  <2> HIDE DEF T
  <2>1. T \in SUBSET (SUBSET S) BY DEF T
  <2> QED BY <2>1, SmallestSubset
<1>2. X # {}
  BY SumOverEmpty
<1>3. Pick(X) \in X
  BY <1>2 DEF Pick
<1>4. X \ {Pick(X)} \notin T /\ X \ {Pick(X)} \in SUBSET S
  BY <1>1, <1>3
<1>5. IsFiniteSet(X)
  BY FS_Subset
<1>6. SumOver(f, X) = f[Pick(X)] + SumOver(f, X \ {Pick(X)})
  BY <1>2, <1>5, SumOverPick
<1> QED BY <1>3, <1>4, <1>6

\* A sum of natural numbers is one.
LEMMA SumOverNat ==
    ASSUME NEW S, IsFiniteSet(S), NEW f, \A x \in S : f[x] \in Nat
    PROVE  SumOver(f, S) \in Nat
<1> DEFINE T == {X \in SUBSET S : SumOver(f, X) \notin Nat}
<1> SUFFICES ASSUME T # {} PROVE FALSE
  OBVIOUS
<1>1. PICK X \in T : \A Y \in SUBSET X : Y \in T => Y = X
  <2> HIDE DEF T
  <2>1. T \in SUBSET (SUBSET S) BY DEF T
  <2> QED BY <2>1, SmallestSubset
<1>2. X # {}
  BY SumOverEmpty
<1>3. Pick(X) \in X
  BY <1>2 DEF Pick
<1>4. X \ {Pick(X)} \notin T /\ X \ {Pick(X)} \in SUBSET S
  BY <1>1, <1>3
<1>5. IsFiniteSet(X)
  BY FS_Subset
<1>6. SumOver(f, X) = f[Pick(X)] + SumOver(f, X \ {Pick(X)})
  BY <1>2, <1>5, SumOverPick
<1> QED BY <1>3, <1>4, <1>6

\* ... and none of them exceeds it.
LEMMA SumOverBounds ==
    ASSUME NEW S, IsFiniteSet(S), NEW f, \A x \in S : f[x] \in Nat, NEW x \in S
    PROVE  f[x] <= SumOver(f, S)
<1>1. IsFiniteSet(S \ {x})
  BY FS_Subset
<1>2. SumOver(f, S \ {x}) \in Nat
  BY <1>1, SumOverNat
<1>3. SumOver(f, S) = f[x] + SumOver(f, S \ {x})
  BY SumOverRemove
<1> QED BY <1>2, <1>3

\* Changing one value changes the sum by as much.
LEMMA SumOverChange ==
    ASSUME NEW S, IsFiniteSet(S), NEW f, NEW g, NEW x \in S,
           \A y \in S : f[y] \in Int /\ g[y] \in Int,
           \A y \in S \ {x} : g[y] = f[y]
    PROVE  SumOver(g, S) = SumOver(f, S) + (g[x] - f[x])
<1>1. IsFiniteSet(S \ {x})
  BY FS_Subset
<1>2. SumOver(f, S \ {x}) = SumOver(g, S \ {x})
  BY <1>1, SumOverSame
<1>3. SumOver(f, S \ {x}) \in Int
  BY <1>1, SumOverType
<1>4. SumOver(f, S) = f[x] + SumOver(f, S \ {x}) /\ SumOver(g, S) = g[x] + SumOver(g, S \ {x})
  BY SumOverRemove
<1> QED BY <1>2, <1>3, <1>4

\* MapThenSumSet computes this sum, ...
LEMMA SumOfMap ==
    ASSUME NEW f, NEW S
    PROVE  MapThenSumSet(LAMBDA x : f[x], S) = SumOver(f, S)
<1> DEFINE it[s \in SUBSET S] == IF s = {} THEN 0
                                ELSE LET x == CHOOSE x \in s : TRUE IN f[x] + it[s \ {x}]
<1>1. MapThenSumSet(LAMBDA x : f[x], S) = it[S]
  BY DEF MapThenSumSet, MapThenFoldSet
<1>2. it = CHOOSE g : IsSum(g, f, S)
  BY DEF IsSum, Pick
<1> QED BY <1>1, <1>2, Zenon DEF SumOver

\* ... so does FoldFunction, ...
LEMMA SumOfFold ==
    ASSUME NEW f
    PROVE  FoldFunction(LAMBDA x, y : x + y, 0, f) = SumOver(f, DOMAIN f)
<1> DEFINE it[s \in SUBSET DOMAIN f] == IF s = {} THEN 0
                                ELSE LET x == CHOOSE x \in s : TRUE IN f[x] + it[s \ {x}]
<1>1. FoldFunction(LAMBDA x, y : x + y, 0, f) = it[DOMAIN f]
  BY DEF FoldFunction, FoldFunctionOnSet, MapThenFoldSet
<1>2. it = CHOOSE g : IsSum(g, f, DOMAIN f)
  BY DEF IsSum, Pick
<1> QED BY <1>1, <1>2, Zenon DEF SumOver

\* ... and a sum of products is the sum of the function of the products.
LEMMA SumOfProducts ==
    ASSUME NEW f, NEW h, NEW S, IsFiniteSet(S)
    PROVE  MapThenSumSet(LAMBDA x : f[x] * h[x], S) = SumOver([x \in S |-> f[x] * h[x]], S)
<1> DEFINE it[s \in SUBSET S] == IF s = {} THEN 0
                                ELSE LET x == CHOOSE x \in s : TRUE IN f[x] * h[x] + it[s \ {x}]
          p == [x \in S |-> f[x] * h[x]]
          E(g) == g = [s \in SUBSET S |-> IF s = {} THEN 0
                         ELSE f[Pick(s)] * h[Pick(s)] + g[s \ {Pick(s)}]]
<1>1. MapThenSumSet(LAMBDA x : f[x] * h[x], S) = it[S]
  BY DEF MapThenSumSet, MapThenFoldSet
<1>2. it = CHOOSE g : E(g)
  BY DEF Pick
<1>3. \A s \in SUBSET S : s # {} => p[Pick(s)] = f[Pick(s)] * h[Pick(s)]
  BY DEF Pick
<1>4. \A g : E(g) <=> IsSum(g, p, S)
  BY <1>3 DEF IsSum
<1>5. PICK g : IsSum(g, p, S)
  BY SumExists
<1>6. E(it)
  BY <1>2, <1>4, <1>5
<1>7. IsSum(it, p, S) BY <1>4, <1>6
<1> DEFINE k == CHOOSE q : IsSum(q, p, S)
<1>8. IsSum(k, p, S)
  BY <1>5
<1>9. it[S] = k[S]
  <2> HIDE DEF it, k, p
  <2>1. S \in SUBSET S
    OBVIOUS
  <2> QED
    BY <1>7, <1>8, <2>1, SumUnique, Zenon
<1> QED BY <1>1, <1>9, Zenon DEF SumOver
=============================================================================
