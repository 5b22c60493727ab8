--------------------------- MODULE ReadModelProofs ---------------------------
(***************************************************************************)
(* Proofs about the two views the users have of a market, for every finite *)
(* set of orders and every number of batches, faults, levels, connections  *)
(* and events, and every length of the queues.                             *)
(*                                                                         *)
(* Writer: the rows and the trades of a writer that has caught up are what *)
(* the matcher did, and Redis serves what is committed.                    *)
(*                                                                         *)
(* Pusher: the hub that loads those read models while hot events come has  *)
(* the depth of the matcher when it has caught up, and the browser that    *)
(* has the number of the hub has its state.                                *)
(***************************************************************************)
EXTENDS Writer, Pusher, ArithmeticProofs

-----------------------------------------------------------------------------
(* Writer: the deltas *)

Carried(n) == DOMAIN deltas[n].upd

\* Delta n is the last one that carries order o.
Final(n, o) ==
    /\ n \in DOMAIN deltas /\ o \in Carried(n)
    /\ \A m \in DOMAIN deltas : m > n => o \notin Carried(m)

\* What the matcher publishes: states and quantities of the same orders, the fills, the time, the depth.
PublishedDelta == [upd : UNION {[D -> Row] : D \in SUBSET Orders},
          qty : UNION {[D -> 0..MaxQty] : D \in SUBSET Orders},
          fills : Seq(1..MaxQty), sec : Nat, depth : [Sides -> Nat]]

\* The times do not fall.
SecondsRise == \A m, n \in DOMAIN deltas : m <= n => deltas[m].sec <= deltas[n].sec

DeltasShaped ==
    /\ deltas \in Seq(PublishedDelta)
    /\ \A n \in DOMAIN deltas : /\ DOMAIN deltas[n].qty = Carried(n)
                                /\ Len(deltas[n].fills) <= Cardinality(Orders)
    /\ SecondsRise

-----------------------------------------------------------------------------
(* Quantities and sums *)

\* MaxQty is a bound of the ordered lots.
LEMMA MaxQtyBounds ==
    ASSUME NEW o \in Orders
    PROVE  MaxQty \in Nat /\ QtyOf[o] \in 1..MaxQty
<1> USE WriterAssumption
<1>1. \A x \in Orders : QtyOf[x] \in Int
  OBVIOUS
<1>2. PICK m \in Orders : \A x \in Orders : QtyOf[m] >= QtyOf[x]
  BY <1>1, GreatestExists
<1> DEFINE Q == {QtyOf[x] : x \in Orders}
<1>3. QtyOf[m] \in Q /\ \A y \in Q : QtyOf[m] >= y
  BY <1>2
<1>4. MaxQty \in Q /\ \A y \in Q : MaxQty >= y
  <2>1. MaxQty = CHOOSE x \in Q : \A y \in Q : x >= y
    BY DEF MaxQty, Max
  <2> HIDE DEF Q
  <2> QED
    BY <1>3, <2>1
<1> QED
  BY <1>4

\* The lots of a side of the book are a natural number.
LEMMA SumOfNat ==
    ASSUME NEW S, IsFiniteSet(S), NEW f \in [S -> Nat]
    PROVE  SumOf(f) = SumOver(f, S) /\ SumOf(f) \in Nat
<1>1. SumOf(f) = SumOver(f, DOMAIN f)
  BY SumOfFold, Zenon DEF SumOf
<1>2. DOMAIN f = S
  OBVIOUS
<1> QED
  BY <1>1, <1>2, SumOverNat

\* So is the volume of a side.
LEMMA VolumeNat ==
    ASSUME NEW r \in [Orders -> Row], NEW side
    PROVE  Volume(r, side) \in Nat
<1> DEFINE S == {p \in Orders : SideOf[p] = side /\ IsOpen(r[p])}
           f == [o \in S |-> r[o].rem]
<1>1. IsFiniteSet(S)
  BY WriterAssumption, FS_Subset
<1>2. f \in [S -> Nat]
  <2>1. \A o \in S : r[o].rem \in Nat
    <3> TAKE o \in S
    <3>1. r[o] \in Row /\ o \in Orders
      OBVIOUS
    <3> QED
      BY <3>1, MaxQtyBounds DEF Row
  <2> QED
    BY <2>1
<1>3. Volume(r, side) = SumOf(f)
  BY DEF Volume
<1> HIDE DEF f, S
<1> QED
  BY <1>1, <1>2, <1>3, SumOfNat

\* The volume of a side depends on the status and the lots of the orders only.
LEMMA VolumeSame ==
    ASSUME NEW r, NEW q, \A o \in Orders : r[o].st = q[o].st /\ r[o].rem = q[o].rem, NEW side
    PROVE  Volume(r, side) = Volume(q, side)
<1> DEFINE S(x) == {p \in Orders : SideOf[p] = side /\ IsOpen(x[p])}
<1>1. S(r) = S(q)
  BY DEF IsOpen
<1>2. [o \in S(r) |-> r[o].rem] = [o \in S(q) |-> q[o].rem]
  BY <1>1
<1> QED
  BY <1>2, Zenon DEF Volume

-----------------------------------------------------------------------------
(* What the matcher publishes *)

\* A batch the matcher publishes: well formed, and about orders that are not closed.
Publishable(upd, qty, fills) ==
    \E D \in SUBSET Orders :
      /\ upd \in [D -> Row] /\ qty \in [D -> 0..MaxQty]
      /\ fills \in Seq(1..MaxQty) /\ Len(fills) <= Cardinality(Orders)
      /\ \A x \in D : book[x].st \notin Closed

\* The state of an order with lots left of what was ordered.
LEMMA StateIsRow ==
    ASSUME NEW o \in Orders, NEW st \in Status, NEW rem \in 0..MaxQty
    PROVE  State(o, st, rem) \in Row
BY MaxQtyBounds DEF State, Row

\* A batch about one order without a fill.
LEMMA OnePublishable ==
    ASSUME NEW o \in Orders, NEW st \in Status, NEW rem \in 0..MaxQty, book[o].st \notin Closed
    PROVE  Publishable([x \in {o} |-> State(o, st, rem)], [x \in {o} |-> rem], <<>>)
<1>1. {o} \in SUBSET Orders
  OBVIOUS
<1>2. /\ [x \in {o} |-> State(o, st, rem)] \in [{o} -> Row]
      /\ [x \in {o} |-> rem] \in [{o} -> 0..MaxQty]
  BY StateIsRow
<1>3. <<>> \in Seq(1..MaxQty) /\ Len(<<>>) = 0 /\ Cardinality(Orders) \in Nat
  BY WriterAssumption, FS_CardinalityType
<1>4. \A x \in {o} : book[x].st \notin Closed
  OBVIOUS
<1>5. Len(<<>>) <= Cardinality(Orders)
  BY <1>3
<1> DEFINE upd == [x \in {o} |-> State(o, st, rem)]
           qty == [x \in {o} |-> rem]
<1> HIDE DEF upd, qty
<1>6. Publishable(upd, qty, <<>>)
  BY <1>1, <1>2, <1>3, <1>4, <1>5, Zenon DEF Publishable, upd, qty
<1> QED
  BY <1>6 DEF upd, qty

\* The batch of a limit or market order.
LEMMA PlacePublishes ==
    ASSUME TypeOK, NEW o \in Orders, NEW type, PlaceOrder(o, type)
    PROVE  \E upd, qty, fills : Publishable(upd, qty, fills) /\ PublishBatch(upd, qty, fills)
<1> DEFINE opp == {m \in Orders : IsOpen(book[m]) /\ SideOf[m] # SideOf[o]}
           Left(take) == QtyOf[o] - SumOf(take)
           Rest(take) == IF Left(take) = 0 THEN "filled" ELSE IF type = "market" THEN "canceled" ELSE "new"
           Hit(take)  == {m \in opp : take[m] > 0}
           Upd(take)  == [x \in Hit(take) \cup {o} |->
                            IF x = o THEN State(o, Rest(take), Left(take))
                            ELSE State(x, IF take[x] = book[x].rem THEN "filled" ELSE "partially_filled",
                                       book[x].rem - take[x])]
           Qty(take, order) == [x \in Hit(take) \cup {o} |->
                                  IF x # o THEN Upd(take)[x].rem
                                  ELSE IF order = <<>> THEN QtyOf[o] ELSE QtyOf[o] - take[order[1]]]
           Fills(take, order) == [i \in DOMAIN order |-> take[order[i]]]
<1>1. PICK take \in [opp -> 0..MaxQty] :
         /\ Left(take) >= 0 /\ \A m \in opp : take[m] <= book[m].rem
         /\ \E order \in SetToSeqs(Hit(take)) :
              PublishBatch(Upd(take), Qty(take, order), Fills(take, order))
  BY Zenon DEF PlaceOrder
<1>2. PICK order \in SetToSeqs(Hit(take)) :
         PublishBatch(Upd(take), Qty(take, order), Fills(take, order))
  BY <1>1
<1> DEFINE D == Hit(take) \cup {o}
<1>3. /\ D \in SUBSET Orders /\ o \notin Hit(take) /\ IsFiniteSet(opp) /\ IsFiniteSet(Hit(take))
      /\ Cardinality(Hit(take)) \in Nat /\ Cardinality(Hit(take)) <= Cardinality(Orders)
      /\ Cardinality(Orders) \in Nat
  <2>1. book[o].st = "none"
    BY DEF PlaceOrder
  <2>2. o \notin opp
    BY <2>1 DEF IsOpen, OpenStatus
  <2>3. opp \in SUBSET Orders /\ Hit(take) \in SUBSET Orders /\ o \notin Hit(take)
    BY <2>2
  <2>4. IsFiniteSet(opp) /\ IsFiniteSet(Hit(take)) /\ Cardinality(Hit(take)) <= Cardinality(Orders)
    <3> HIDE DEF opp, Hit
    <3> QED
      BY <2>3, WriterAssumption, FS_Subset
  <2>5. Cardinality(Hit(take)) \in Nat /\ Cardinality(Orders) \in Nat
    <3> HIDE DEF opp, Hit
    <3> QED
      BY <2>4, WriterAssumption, FS_CardinalityType
  <2> QED
    BY <2>3, <2>4, <2>5
<1>4. MaxQty \in Nat /\ QtyOf[o] \in 1..MaxQty
  BY MaxQtyBounds
<1>5. /\ SumOf(take) \in Nat /\ \A m \in opp : take[m] \in Nat /\ take[m] <= SumOf(take)
      /\ Left(take) \in 0..MaxQty
  <2>1. take \in [opp -> Nat] /\ \A m \in opp : take[m] \in Nat
    BY <1>1, <1>4
  <2>2. SumOf(take) = SumOver(take, opp) /\ SumOf(take) \in Nat
    <3> HIDE DEF opp
    <3> QED
      BY <1>3, <2>1, SumOfNat
  <2>3. \A m \in opp : take[m] <= SumOver(take, opp)
    <3> HIDE DEF opp
    <3> QED
      BY <1>3, <2>1, SumOverBounds
  <2>4. \A m \in opp : take[m] <= SumOf(take)
    BY <2>2, <2>3
  <2>5. QtyOf[o] - SumOf(take) >= 0
    BY <1>1
  <2>6. \A q, t, b \in Nat : q <= b /\ q - t >= 0 => q - t \in 0..b
    OBVIOUS
  <2>7. QtyOf[o] - SumOf(take) \in 0..MaxQty
    BY <1>4, <2>2, <2>5, <2>6
  <2> QED
    BY <2>1, <2>2, <2>4, <2>7
<1>6. \A m \in opp : book[m] \in Row /\ m \in Orders /\ book[m].rem \in 0..MaxQty /\ book[m].st \in OpenStatus
  BY DEF TypeOK, Row, IsOpen
<1>7. Upd(take) \in [D -> Row]
  <2>1. State(o, Rest(take), Left(take)) \in Row
    <3>1. Rest(take) \in Status
      BY DEF Status, OpenStatus, Closed
    <3> HIDE DEF Rest, Left
    <3> QED
      BY <1>5, <3>1, StateIsRow
  <2>2. ASSUME NEW x \in Hit(take), NEW st \in Status
        PROVE  State(x, st, book[x].rem - take[x]) \in Row
    <3>1. x \in opp /\ x \in Orders
      OBVIOUS
    <3>2. book[x].rem - take[x] \in 0..MaxQty
      BY <1>1, <1>4, <1>5, <1>6, <3>1
    <3> QED
      BY <3>1, <3>2, StateIsRow
  <2>3. "filled" \in Status /\ "partially_filled" \in Status
    BY DEF Status, OpenStatus
  <2>4. ASSUME NEW x \in D
        PROVE  (IF x = o THEN State(o, Rest(take), Left(take))
                ELSE State(x, IF take[x] = book[x].rem THEN "filled" ELSE "partially_filled",
                           book[x].rem - take[x])) \in Row
    <3>1. CASE x = o
      BY <2>1, <3>1
    <3>2. CASE x # o
      <4>1. x \in Hit(take)
        BY <3>2
      <4>2. (IF take[x] = book[x].rem THEN "filled" ELSE "partially_filled") \in Status
        BY <2>3
      <4> QED
        BY <2>2, <3>2, <4>1, <4>2
    <3> QED
      BY <3>1, <3>2
  <2> HIDE DEF Rest, Left, Hit
  <2> QED
    BY <2>4
<1>8. Qty(take, order) \in [D -> 0..MaxQty]
  <2>1. \A x \in D : Upd(take)[x].rem \in 0..MaxQty
    <3> HIDE DEF Upd
    <3> QED
      BY <1>7 DEF Row
  <2>2. QtyOf[o] \in 0..MaxQty
    BY <1>4
  <2>3. order # <<>> => QtyOf[o] - take[order[1]] \in 0..MaxQty
    <3> SUFFICES ASSUME order # <<>> PROVE QtyOf[o] - take[order[1]] \in 0..MaxQty
      OBVIOUS
    <3>1. order \in [1..Cardinality(Hit(take)) -> Hit(take)]
      BY DEF SetToSeqs
    <3>2. 1 \in 1..Cardinality(Hit(take))
      <4> HIDE DEF Hit
      <4>1. CASE Cardinality(Hit(take)) = 0
        BY <3>1, <4>1
      <4> QED
        BY <1>3, <4>1
    <3>3. order[1] \in Hit(take)
      <4> HIDE DEF Hit
      <4> QED
        BY <3>1, <3>2
    <3>4. order[1] \in opp
      BY <3>3
    <3>5. take[order[1]] \in Nat /\ take[order[1]] <= SumOf(take)
      BY <1>5, <3>4
    <3>6. QtyOf[o] - SumOf(take) >= 0
      BY <1>5
    <3>7. \A q, t, s, b \in Nat : q <= b /\ q - s >= 0 /\ t <= s => q - t \in 0..b
      OBVIOUS
    <3> QED
      BY <1>4, <1>5, <3>5, <3>6, <3>7
  <2> HIDE DEF Upd, Hit
  <2> QED
    BY <2>1, <2>2, <2>3
<1>9. Fills(take, order) \in Seq(1..MaxQty) /\ Len(Fills(take, order)) <= Cardinality(Orders)
  <2> DEFINE N == Cardinality(Hit(take))
  <2>1. order \in [1..N -> Hit(take)]
    BY DEF SetToSeqs
  <2>2. \A m \in Hit(take) : take[m] \in 1..MaxQty
    BY <1>1, <1>4
  <2>3. Fills(take, order) = [i \in 1..N |-> take[order[i]]]
    BY <2>1
  <2>4. \A i \in 1..N : take[order[i]] \in 1..MaxQty
    <3> HIDE DEF Hit, N
    <3> QED
      BY <2>1, <2>2
  <2>5. N \in Nat /\ N <= Cardinality(Orders)
    BY <1>3
  <2> HIDE DEF N, Hit, Fills
  <2> QED
    BY <2>3, <2>4, <2>5
<1>10. \A x \in D : book[x].st \notin Closed
  <2>1. book[o].st = "none"
    BY DEF PlaceOrder
  <2> QED
    BY <1>6, <2>1 DEF OpenStatus, Closed
<1>11. Publishable(Upd(take), Qty(take, order), Fills(take, order))
  <2> HIDE DEF Upd, Qty, Fills, D
  <2> QED
    BY <1>3, <1>7, <1>8, <1>9, <1>10 DEF Publishable
<1> QED
  BY <1>2, <1>11

\* Every step of the matcher publishes such a batch.
LEMMA MatcherPublishes ==
    ASSUME TypeOK, NEW o \in Orders,
           \/ PlaceOrder(o, "limit") \/ PlaceOrder(o, "market") \/ RejectOrder(o) \/ CancelOrder(o)
    PROVE  \E upd, qty, fills : Publishable(upd, qty, fills) /\ PublishBatch(upd, qty, fills)
<1>1. CASE PlaceOrder(o, "limit") \/ PlaceOrder(o, "market")
  BY <1>1, PlacePublishes
<1>2. CASE RejectOrder(o)
  <2>1. "rejected" \in Status /\ book[o].st \notin Closed
    BY <1>2 DEF RejectOrder, Status, Closed
  <2>2. QtyOf[o] \in 0..MaxQty
    BY MaxQtyBounds
  <2>3. Publishable([x \in {o} |-> State(o, "rejected", QtyOf[o])], [x \in {o} |-> QtyOf[o]], <<>>)
    BY <2>1, <2>2, OnePublishable
  <2> QED
    BY <1>2, <2>3, Zenon DEF RejectOrder
<1>3. CASE CancelOrder(o)
  <2>1. "canceled" \in Status /\ book[o].st \notin Closed
    BY <1>3 DEF CancelOrder, Status, Closed, IsOpen, OpenStatus
  <2>2. book[o].rem \in 0..MaxQty
    BY DEF TypeOK, Row
  <2>3. Publishable([x \in {o} |-> State(o, "canceled", book[o].rem)], [x \in {o} |-> book[o].rem], <<>>)
    BY <2>1, <2>2, OnePublishable
  <2> QED
    BY <1>3, <2>3, Zenon DEF CancelOrder
<1> QED
  BY <1>1, <1>2, <1>3

\* What it does to the stream and to the book.
LEMMA PublishEffect ==
    ASSUME TypeOK, DeltasShaped, NEW upd, NEW qty, NEW fills,
           Publishable(upd, qty, fills), PublishBatch(upd, qty, fills)
    PROVE  /\ DeltasShaped'
           /\ Len(deltas') = Len(deltas) + 1 /\ Len(deltas) \in Nat /\ Len(deltas') <= MaxBatches
           /\ DOMAIN deltas = 1..Len(deltas) /\ DOMAIN deltas' = 1..Len(deltas')
           /\ \A n \in DOMAIN deltas : deltas'[n] = deltas[n]
           /\ deltas'[Len(deltas')].upd = upd
           /\ deltas'[Len(deltas')].depth = [s \in Sides |-> Volume(book', s)]
           /\ DOMAIN upd \subseteq Orders /\ book' \in [Orders -> Row]
           /\ \A o \in Orders : book'[o] = IF o \in DOMAIN upd THEN upd[o] ELSE book[o]
           /\ \A o \in DOMAIN upd : book[o].st \notin Closed
<1>1. PICK D \in SUBSET Orders :
        /\ upd \in [D -> Row] /\ qty \in [D -> 0..MaxQty]
        /\ fills \in Seq(1..MaxQty) /\ Len(fills) <= Cardinality(Orders)
        /\ \A x \in D : book[x].st \notin Closed
  BY DEF Publishable
<1>2. book' = [o \in Orders |-> IF o \in DOMAIN upd THEN upd[o] ELSE book[o]]
  BY DEF PublishBatch
<1>3. DOMAIN upd = D /\ DOMAIN qty = D
  BY <1>1
<1>4. book' \in [Orders -> Row]
  BY <1>1, <1>2, <1>3 DEF TypeOK
<1> DEFINE dep == [s \in Sides |-> Volume(book', s)]
<1>5. dep \in [Sides -> Nat]
  <2>1. \A s \in Sides : Volume(book', s) \in Nat
    BY <1>4, VolumeNat
  <2> QED
    BY <2>1
<1>14. PICK sec \in ProducedAt(fills) :
         deltas' = Append(deltas, [upd |-> upd, qty |-> qty, fills |-> fills, sec |-> sec, depth |-> dep])
  BY Zenon DEF PublishBatch
<1>15. deltas \in Seq(PublishedDelta)
  BY DEF DeltasShaped
<1>16. /\ Len(deltas) \in Nat /\ DOMAIN deltas = 1..Len(deltas)
       /\ deltas # <<>> => Len(deltas) \in 1..Len(deltas)
  BY <1>15
<1>17. /\ \A n \in DOMAIN deltas : deltas[n].sec \in Nat
       /\ Len(deltas) \in Nat /\ DOMAIN deltas = 1..Len(deltas)
       /\ deltas # <<>> => Len(deltas) \in DOMAIN deltas
  <2>1. \A n \in DOMAIN deltas : deltas[n] \in PublishedDelta
    BY <1>15, <1>16
  <2>2. \A n \in DOMAIN deltas : deltas[n].sec \in Nat
    BY <2>1 DEF PublishedDelta
  <2> QED
    BY <1>16, <2>2
<1>18. sec \in Nat /\ \A n \in DOMAIN deltas : deltas[n].sec <= sec
  <2>1. CASE deltas = <<>>
    <3>1. DOMAIN deltas = {}
      BY <2>1
    <3> QED
      BY <2>1, <3>1 DEF ProducedAt
  <2>2. CASE deltas # <<>>
    <3>1. Last(deltas).sec = deltas[Len(deltas)].sec
      BY DEF Last
    <3>4. SecondsRise /\ Len(deltas) \in DOMAIN deltas /\ \A n \in DOMAIN deltas : n <= Len(deltas)
      BY <1>17, <2>2 DEF DeltasShaped
    <3>2. deltas[Len(deltas)].sec \in Nat /\ \A n \in DOMAIN deltas : deltas[n].sec <= deltas[Len(deltas)].sec
      BY <1>17, <3>4, Zenon DEF SecondsRise
    <3>3. sec \in {deltas[Len(deltas)].sec, deltas[Len(deltas)].sec + 1}
      BY <2>2, <3>1 DEF ProducedAt
    <3> QED
      BY <1>17, <3>2, <3>3
  <2> QED
    BY <2>1, <2>2
<1> DEFINE d == [upd |-> upd, qty |-> qty, fills |-> fills, sec |-> sec, depth |-> dep]
<1>6. deltas' = Append(deltas, d) /\ Len(deltas) < MaxBatches
  BY <1>14, Zenon DEF PublishBatch
<1>7. d \in PublishedDelta
  <2>1. upd \in UNION {[X -> Row] : X \in SUBSET Orders}
    BY <1>1
  <2>2. qty \in UNION {[X -> 0..MaxQty] : X \in SUBSET Orders}
    BY <1>1
  <2> HIDE DEF dep
  <2> QED
    BY <1>1, <1>5, <1>18, <2>1, <2>2 DEF PublishedDelta
<1>8. d.upd = upd /\ d.qty = qty /\ d.fills = fills /\ d.sec = sec /\ d.depth = dep
  OBVIOUS
<1>9. deltas \in Seq(PublishedDelta) /\ MaxBatches \in Nat
  BY WriterAssumption DEF DeltasShaped
<1> HIDE DEF d, dep
<1>10. /\ deltas' \in Seq(PublishedDelta) /\ Len(deltas) \in Nat
       /\ Len(deltas') = Len(deltas) + 1 /\ Len(deltas') <= MaxBatches
       /\ DOMAIN deltas = 1..Len(deltas) /\ DOMAIN deltas' = 1..Len(deltas')
       /\ \A n \in DOMAIN deltas : deltas'[n] = deltas[n]
       /\ deltas'[Len(deltas')] = d
  BY <1>6, <1>7, <1>9
<1>11. DeltasShaped'
  <2>1. \A n \in DOMAIN deltas' : n \in DOMAIN deltas \/ n = Len(deltas')
    BY <1>10
  <2>2. \A n \in DOMAIN deltas : /\ DOMAIN deltas[n].qty = DOMAIN deltas[n].upd
                                 /\ Len(deltas[n].fills) <= Cardinality(Orders)
    BY DEF DeltasShaped, Carried
  <2>3. \A n \in DOMAIN deltas' : /\ DOMAIN deltas'[n].qty = DOMAIN deltas'[n].upd
                                  /\ Len(deltas'[n].fills) <= Cardinality(Orders)
    BY <1>1, <1>3, <1>8, <1>10, <2>1, <2>2
  <2>4. SecondsRise'
    <3> SUFFICES ASSUME NEW m \in DOMAIN deltas', NEW n \in DOMAIN deltas', m <= n
                 PROVE  deltas'[m].sec <= deltas'[n].sec
      BY DEF SecondsRise
    <3>1. CASE n \in DOMAIN deltas
      <4>1. m \in DOMAIN deltas
        BY <1>10, <3>1
      <4> QED
        BY <1>10, <3>1, <4>1 DEF DeltasShaped, SecondsRise
    <3>2. CASE n = Len(deltas')
      BY <1>8, <1>10, <1>18, <2>1, <3>2
    <3> QED
      BY <2>1, <3>1, <3>2
  <2> QED
    BY <1>10, <2>3, <2>4 DEF DeltasShaped, Carried
<1>12. deltas'[Len(deltas')].depth = [s \in Sides |-> Volume(book', s)]
  BY <1>8, <1>10, Zenon DEF dep
<1>13. \A o \in Orders : book'[o] = IF o \in DOMAIN upd THEN upd[o] ELSE book[o]
  BY <1>2
<1> QED
  BY <1>1, <1>3, <1>4, <1>8, <1>10, <1>11, <1>12, <1>13

-----------------------------------------------------------------------------
(* The trades of the deltas *)

\* The trades of some deltas.
Committed(A) == UNION {Range(TradesOf(n)) : n \in A}

\* The trades of a delta have its number and differ in the index of the fill.
LEMMA TradesShaped ==
    ASSUME TypeOK, DeltasShaped, NEW n \in DOMAIN deltas
    PROVE  /\ TradesOf(n) \in Seq(Trade) /\ DOMAIN TradesOf(n) = 1..Len(deltas[n].fills)
           /\ Len(TradesOf(n)) = Len(deltas[n].fills) /\ Len(TradesOf(n)) \in Nat
           /\ \A i \in DOMAIN TradesOf(n) : TradesOf(n)[i].evt = n /\ TradesOf(n)[i].fill = i
           /\ \A t \in Range(TradesOf(n)) : t.evt = n /\ t \in Trade
           /\ IsFiniteSet(Range(TradesOf(n)))
<1> DEFINE fl == deltas[n].fills
           T  == [i \in 1..Len(fl) |-> [evt |-> n, fill |-> i, qty |-> fl[i]]]
<1>1. deltas \in Seq(PublishedDelta) /\ Len(fl) <= Cardinality(Orders) /\ Len(deltas) <= MaxBatches
  BY DEF DeltasShaped, TypeOK
<1>2. deltas[n] \in PublishedDelta /\ n \in 1..MaxBatches
  BY <1>1, WriterAssumption
<1>3. fl \in Seq(1..MaxQty)
  BY <1>2 DEF PublishedDelta
<1>4. Len(fl) \in Nat /\ DOMAIN fl = 1..Len(fl) /\ \A i \in 1..Len(fl) : fl[i] \in 1..MaxQty
  <2> HIDE DEF fl
  <2>1. \A S : \A q \in Seq(S) : /\ Len(q) \in Nat /\ DOMAIN q = 1..Len(q)
                                 /\ \A i \in 1..Len(q) : q[i] \in S
    OBVIOUS
  <2> QED
    BY <1>3, <2>1, Zenon
<1>5. TradesOf(n) = T
  BY <1>4 DEF TradesOf
<1>6. Cardinality(Orders) \in Nat
  BY WriterAssumption, FS_CardinalityType
<1>7. \A i \in 1..Len(fl) : /\ T[i] \in Trade /\ T[i].evt = n /\ T[i].fill = i
  <2> HIDE DEF fl
  <2> QED
    BY <1>1, <1>2, <1>4, <1>6 DEF Trade
<1>8. T \in Seq(Trade) /\ DOMAIN T = 1..Len(fl) /\ Len(T) = Len(fl)
  <2>1. DOMAIN T = 1..Len(fl)
    OBVIOUS
  <2>2. T = [i \in 1..Len(fl) |-> T[i]]
    OBVIOUS
  <2> HIDE DEF T, fl
  <2> QED
    BY <1>4, <1>7, <2>1, <2>2
<1>9. IsFiniteSet(Range(T))
  <2>1. T \in Surjection(1..Len(fl), Range(T))
    <3> HIDE DEF fl
    <3> QED
      BY DEF Surjection, Range
  <2>2. IsFiniteSet(1..Len(fl))
    BY <1>4, FS_Interval
  <2> HIDE DEF T
  <2> QED
    BY <2>1, <2>2, FS_Surjection
<1>10. \A t \in Range(T) : t.evt = n /\ t \in Trade
  <2> HIDE DEF T
  <2> QED
    BY <1>7, <1>8 DEF Range
<1> HIDE DEF T, fl
<1> QED
  BY <1>4, <1>5, <1>7, <1>8, <1>9, <1>10 DEF fl

\* The trades of a delta have its time.
LEMMA TradesTimed ==
    ASSUME TypeOK, DeltasShaped, NEW A \in SUBSET DOMAIN deltas, NEW t \in Committed(A)
    PROVE  /\ t.evt \in DOMAIN deltas /\ ExecutedAt(t) = deltas[t.evt].sec /\ ExecutedAt(t) \in Nat
<1>1. PICK n \in A : t \in Range(TradesOf(n))
  BY DEF Committed
<1>2. t.evt = n /\ n \in DOMAIN deltas
  BY <1>1, TradesShaped
<1>3. deltas[n] \in PublishedDelta
  BY <1>2 DEF DeltasShaped
<1> QED
  BY <1>2, <1>3 DEF PublishedDelta, ExecutedAt

\* The trades of one more delta.
LEMMA CommittedAdd ==
    ASSUME NEW A, NEW n
    PROVE  Committed(A \cup {n}) = Committed(A) \cup Range(TradesOf(n))
BY DEF Committed

\* The trades of deltas that stay are the same.
LEMMA CommittedSame ==
    ASSUME NEW A, A \subseteq DOMAIN deltas, \A n \in DOMAIN deltas : deltas'[n] = deltas[n]
    PROVE  Committed(A)' = Committed(A) /\ \A n \in A : TradesOf(n)' = TradesOf(n)
<1>1. \A n \in A : TradesOf(n)' = TradesOf(n)
  BY DEF TradesOf
<1>2. {Range(TradesOf(n)') : n \in A} = {Range(TradesOf(n)) : n \in A}
  BY <1>1
<1>3. Committed(A)' = UNION {Range(TradesOf(n)') : n \in A}
  BY DEF Committed, Range
<1> QED
  BY <1>1, <1>2, <1>3 DEF Committed

-----------------------------------------------------------------------------
(* The inductive invariant *)

\* The delta that is committed and not finished is the one at the cursor, and Redis does not have it.
OneAtATime ==
    /\ cur # 0 => cur = cursor /\ cur \in applied \ synced /\ cur \notin nakd \cup acked
    /\ phase = "down" => cur = 0
    /\ \A n \in applied : n <= cursor

\* An order that no delta carries is unknown everywhere; of any other, the last delta that carries it
\* has what the book has.
BookIsLast ==
    \A o \in Orders :
      \/ /\ \A n \in DOMAIN deltas : o \notin Carried(n)
         /\ book[o] = None /\ rows[o] = None /\ o \notin userOrders
      \/ \E n \in DOMAIN deltas : Final(n, o) /\ deltas[n].upd[o] = book[o]

\* An order is closed before it is released.
ReleasedClosed == \A o \in released : book[o].st \in Closed

\* The depth of the last delta is the volume of the book.
DepthIsLast ==
    deltas # <<>> => deltas[Len(deltas)].depth = [s \in Sides |-> Volume(book, s)]

\* Once the last delta about an order is committed, its row is right, ...
RowsFollow ==
    \A o \in Orders : \A n \in applied :
      Final(n, o) => rows[o].st = book[o].st /\ rows[o].rem = book[o].rem

\* ... and once Redis has it, so are its entries.
RedisFollows ==
    \A o \in Orders : \A n \in synced :
      Final(n, o) => /\ o \in userOrders <=> IsOpen(book[o])
                     /\ IsOpen(book[o]) => info[o].st = book[o].st /\ info[o].rem = book[o].rem

\* The tables have the trades of the committed deltas, price:history those that Redis has.
TradesFollow ==
    /\ trades = Committed(applied) /\ IsFiniteSet(trades)
    /\ history = {PointOf(t) : t \in Committed(synced)}

\* Redis has the depth of the rows when the tables and Redis have the last delta and none is missing.
DepthFollows ==
    1..Len(deltas) \subseteq applied /\ (deltas = <<>> \/ Len(deltas) \in synced) =>
      depth = [s \in Sides |-> Volume(rows, s)]

\* trades:latest shows trades of Redis's deltas, each once, and one of the last second.
RecentFollows ==
    /\ IsInjective(recent) /\ Range(recent) \subseteq Committed(synced)
    /\ Committed(synced) # {} =>
         \E t \in Range(recent) : \A u \in Committed(synced) : ExecutedAt(u) <= ExecutedAt(t)

WriterInv ==
    /\ TypeOK /\ DeltasShaped /\ OneAtATime
    /\ BookIsLast /\ ReleasedClosed /\ DepthIsLast
    /\ RowsFollow /\ RedisFollows /\ TradesFollow /\ DepthFollows /\ RecentFollows

-----------------------------------------------------------------------------
(* Types *)

\* The parts of a delta.
LEMMA DeltaParts ==
    ASSUME DeltasShaped, NEW n \in DOMAIN deltas
    PROVE  /\ Carried(n) \subseteq Orders /\ deltas[n].depth \in [Sides -> Nat]
           /\ \A o \in Carried(n) : deltas[n].upd[o] \in Row /\ deltas[n].qty[o] \in 0..MaxQty
<1>1. deltas \in Seq(PublishedDelta) /\ DOMAIN deltas[n].qty = Carried(n)
  BY DEF DeltasShaped
<1>2. deltas[n] \in PublishedDelta
  BY <1>1
<1>3. /\ deltas[n].upd \in UNION {[D -> Row] : D \in SUBSET Orders}
      /\ deltas[n].qty \in UNION {[D -> 0..MaxQty] : D \in SUBSET Orders}
      /\ deltas[n].depth \in [Sides -> Nat]
  BY <1>2 DEF PublishedDelta
<1>4. PICK D \in SUBSET Orders : deltas[n].upd \in [D -> Row]
  BY <1>3
<1>5. PICK E \in SUBSET Orders : deltas[n].qty \in [E -> 0..MaxQty]
  BY <1>3
<1>6. Carried(n) = D /\ E = D
  BY <1>1, <1>4, <1>5 DEF Carried
<1> QED
  BY <1>3, <1>4, <1>5, <1>6

\* A row with another initial quantity.
LEMMA RowInit ==
    ASSUME NEW r \in Row, NEW v \in 0..MaxQty
    PROVE  /\ [r EXCEPT !.init = v] \in Row
           /\ [r EXCEPT !.init = v].st = r.st /\ [r EXCEPT !.init = v].rem = r.rem
BY DEF Row

\* What a delta makes of the rows, ...
LEMMA RowsType ==
    ASSUME TypeOK, DeltasShaped, NEW n \in DOMAIN deltas
    PROVE  /\ ApplyStateEvents(n) \in [Orders -> Row]
           /\ \A o \in Orders \ Carried(n) : ApplyStateEvents(n)[o] = rows[o]
           /\ \A o \in Carried(n) : /\ ApplyStateEvents(n)[o].st = deltas[n].upd[o].st
                                    /\ ApplyStateEvents(n)[o].rem = deltas[n].upd[o].rem
<1>1. ASSUME NEW o \in Carried(n)
      PROVE  /\ o \in Orders /\ deltas[n].upd[o] \in Row
             /\ Upsert(n, o) \in 0..MaxQty
  <2>1. rows[o] \in Row /\ o \in Orders /\ deltas[n].upd[o] \in Row /\ deltas[n].qty[o] \in 0..MaxQty
    BY DeltaParts DEF TypeOK
  <2> QED
    BY <2>1 DEF Upsert, Row
<1>2. rows \in [Orders -> Row]
  BY DEF TypeOK
<1>3. ASSUME NEW o \in Orders
      PROVE  /\ o \in Carried(n) =>
                  /\ ApplyStateEvents(n)[o] \in Row
                  /\ ApplyStateEvents(n)[o].st = deltas[n].upd[o].st
                  /\ ApplyStateEvents(n)[o].rem = deltas[n].upd[o].rem
             /\ o \notin Carried(n) => ApplyStateEvents(n)[o] = rows[o]
  <2>1. CASE o \in Carried(n)
    <3>1. ApplyStateEvents(n)[o] = [deltas[n].upd[o] EXCEPT !.init = Upsert(n, o)]
      BY <2>1 DEF ApplyStateEvents, Carried
    <3> QED
      BY <1>1, <2>1, <3>1, RowInit
  <2>2. CASE o \notin Carried(n)
    BY <2>2 DEF ApplyStateEvents, Carried
  <2> QED
    BY <2>1, <2>2
<1>4. \A o \in Orders : ApplyStateEvents(n)[o] \in Row
  BY <1>2, <1>3
<1>5. ApplyStateEvents(n) = [o \in Orders |-> ApplyStateEvents(n)[o]]
  BY DEF ApplyStateEvents
<1>6. ApplyStateEvents(n) \in [Orders -> Row]
  BY <1>4, <1>5
<1> QED
  BY <1>1, <1>3, <1>6

\* ... of order:info ...
LEMMA InfoType ==
    ASSUME TypeOK, DeltasShaped, NEW n \in DOMAIN deltas
    PROVE  /\ WriteInfo(n) \in [Orders -> Row]
           /\ \A o \in Orders \ Carried(n) : WriteInfo(n)[o] = info[o]
           /\ \A o \in Carried(n) : /\ WriteInfo(n)[o].st = deltas[n].upd[o].st
                                    /\ WriteInfo(n)[o].rem = deltas[n].upd[o].rem
<1>1. info \in [Orders -> Row]
  BY DEF TypeOK
<1>2. ASSUME NEW o \in Orders
      PROVE  /\ o \in Carried(n) =>
                  /\ WriteInfo(n)[o] \in Row
                  /\ WriteInfo(n)[o].st = deltas[n].upd[o].st
                  /\ WriteInfo(n)[o].rem = deltas[n].upd[o].rem
             /\ o \notin Carried(n) => WriteInfo(n)[o] = info[o]
  <2>1. CASE o \in Carried(n)
    <3>1. WriteInfo(n)[o] = [deltas[n].upd[o] EXCEPT !.init = deltas[n].qty[o]]
      BY <2>1 DEF WriteInfo, Carried
    <3> QED
      BY <2>1, <3>1, RowInit, DeltaParts
  <2>2. CASE o \notin Carried(n)
    BY <2>2 DEF WriteInfo, Carried
  <2> QED
    BY <2>1, <2>2
<1>3. \A o \in Orders : WriteInfo(n)[o] \in Row
  BY <1>1, <1>2
<1>4. WriteInfo(n) = [o \in Orders |-> WriteInfo(n)[o]]
  BY DEF WriteInfo
<1>5. WriteInfo(n) \in [Orders -> Row]
  BY <1>3, <1>4
<1> QED
  BY <1>2, <1>5, DeltaParts

\* ... and of trades:latest: its trades, the newest first, before the ones that were there.
LEMMA RecentType ==
    ASSUME TypeOK, DeltasShaped, NEW n \in DOMAIN deltas
    PROVE  LET T == TradesOf(n) IN
           /\ PushTrades(n) \in Seq(Trade) /\ Len(PushTrades(n)) <= RecentLimit
           /\ Len(PushTrades(n)) <= Len(T) + Len(recent)
           /\ Len(PushTrades(n)) = Len(T) + Len(recent) \/ Len(PushTrades(n)) = RecentLimit
           /\ DOMAIN PushTrades(n) = 1..Len(PushTrades(n))
           /\ \A i \in DOMAIN PushTrades(n) :
                PushTrades(n)[i] = IF i <= Len(T) THEN T[(Len(T) - i) + 1] ELSE recent[i - Len(T)]
<1> DEFINE T == TradesOf(n)
           R == Reverse(T)
           all == R \o recent
           k == IF Len(all) < RecentLimit THEN Len(all) ELSE RecentLimit
<1>1. T \in Seq(Trade) /\ recent \in Seq(Trade) /\ RecentLimit \in Nat \ {0}
  BY TradesShaped, WriterAssumption DEF TypeOK
<1> HIDE DEF T
<1>2. R \in Seq(Trade) /\ Len(R) = Len(T) /\ \A i \in 1..Len(T) : R[i] = T[(Len(T) - i) + 1]
  <2>1. Len(T) \in Nat /\ \A i \in 1..Len(T) : T[(Len(T) - i) + 1] \in Trade
    BY <1>1
  <2>2. R = [i \in 1..Len(T) |-> T[(Len(T) - i) + 1]]
    BY DEF Reverse
  <2> HIDE DEF R
  <2> QED
    BY <2>1, <2>2
<1> HIDE DEF R
<1>3. /\ all \in Seq(Trade) /\ Len(all) = Len(T) + Len(recent)
      /\ \A i \in 1..Len(all) : all[i] = IF i <= Len(T) THEN R[i] ELSE recent[i - Len(T)]
  <2>1. \A q, r \in Seq(Trade) :
          /\ q \o r \in Seq(Trade) /\ Len(q \o r) = Len(q) + Len(r)
          /\ \A i \in 1..(Len(q) + Len(r)) : (q \o r)[i] = IF i <= Len(q) THEN q[i] ELSE r[i - Len(q)]
    OBVIOUS
  <2>2. /\ all \in Seq(Trade) /\ Len(all) = Len(R) + Len(recent)
        /\ \A i \in 1..(Len(R) + Len(recent)) : all[i] = IF i <= Len(R) THEN R[i] ELSE recent[i - Len(R)]
    BY <1>1, <1>2, <2>1, Zenon
  <2> QED
    BY <1>2, <2>2
<1> HIDE DEF all
<1>4. k \in Nat /\ k <= Len(all) /\ k <= RecentLimit /\ (k = Len(all) \/ k = RecentLimit)
  BY <1>1, <1>3
<1> HIDE DEF k
<1> DEFINE P == SubSeq(all, 1, k)
<1>5. P \in Seq(Trade) /\ Len(P) = k /\ DOMAIN P = 1..k /\ \A i \in 1..k : P[i] = all[i]
  BY <1>3, <1>4
<1>6. PushTrades(n) = P
  BY DEF PushTrades, P, k, all, R, T
<1> HIDE DEF P
<1>7. \A i \in 1..k : P[i] = IF i <= Len(T) THEN T[(Len(T) - i) + 1] ELSE recent[i - Len(T)]
  <2> TAKE i \in 1..k
  <2>1. i \in 1..Len(all) /\ Len(T) \in Nat
    BY <1>1, <1>3, <1>4
  <2>2. P[i] = IF i <= Len(T) THEN R[i] ELSE recent[i - Len(T)]
    BY <1>3, <1>5, <2>1
  <2>3. i <= Len(T) => R[i] = T[(Len(T) - i) + 1]
    BY <1>2, <2>1
  <2> QED
    BY <2>2, <2>3
<1> QED
  BY <1>3, <1>4, <1>5, <1>6, <1>7 DEF T

-----------------------------------------------------------------------------
(* The initial state, and the steps *)

\* A side without orders has no volume.
LEMMA EmptyVolume ==
    ASSUME NEW r, \A o \in Orders : r[o] = None, NEW side
    PROVE  Volume(r, side) = 0
<1> DEFINE S == {p \in Orders : SideOf[p] = side /\ IsOpen(r[p])}
           f == [o \in S |-> r[o].rem]
<1>1. S = {}
  BY DEF IsOpen, OpenStatus, None
<1>2. DOMAIN f = {}
  BY <1>1
<1>3. Volume(r, side) = SumOf(f)
  BY DEF Volume
<1> HIDE DEF f, S
<1>4. SumOf(f) = SumOver(f, DOMAIN f)
  BY SumOfFold, Zenon DEF SumOf
<1> QED
  BY <1>2, <1>3, <1>4, SumOverEmpty

\* The initial state satisfies the invariant.
LEMMA InitWriter == Init => WriterInv
<1> SUFFICES ASSUME Init PROVE WriterInv
  OBVIOUS
<1>1. \A o \in Orders : None \in Row
  BY MaxQtyBounds DEF None, Row
<1>2. TypeOK
  BY <1>1, WriterAssumption DEF Init, TypeOK, Sides
<1>3. DeltasShaped
  BY DEF Init, DeltasShaped, SecondsRise
<1>4. OneAtATime /\ BookIsLast /\ ReleasedClosed /\ DepthIsLast /\ RowsFollow /\ RedisFollows
  BY DEF Init, OneAtATime, BookIsLast, ReleasedClosed, DepthIsLast, RowsFollow, RedisFollows
<1>5. Committed(applied) = {} /\ Committed(synced) = {}
  BY DEF Init, Committed
<1>6. TradesFollow
  BY <1>5, FS_EmptySet DEF Init, TradesFollow
<1>7. DepthFollows
  <2>1. \A s \in Sides : Volume(rows, s) = 0
    BY EmptyVolume DEF Init
  <2> QED
    BY <2>1 DEF Init, DepthFollows
<1>8. RecentFollows
  BY <1>5 DEF Init, RecentFollows, IsInjective, Range
<1> QED
  BY <1>2, <1>3, <1>4, <1>6, <1>7, <1>8 DEF WriterInv

\* The matcher publishes a batch: the tables and Redis have not seen it.
LEMMA PublishKeeps ==
    ASSUME WriterInv, NEW upd, NEW qty, NEW fills,
           Publishable(upd, qty, fills), PublishBatch(upd, qty, fills)
    PROVE  WriterInv'
<1> USE DEF stream, tables, redis, process
<1>1. TypeOK /\ DeltasShaped
  BY DEF WriterInv
<1>a. Len(deltas') = Len(deltas) + 1 /\ Len(deltas) \in Nat
  BY <1>1, PublishEffect, Zenon
<1>0. PICK L \in Nat : L = Len(deltas')
  BY <1>a
<1>2. /\ DeltasShaped'
      /\ L = Len(deltas) + 1 /\ Len(deltas) \in Nat /\ L <= MaxBatches
      /\ DOMAIN deltas = 1..Len(deltas) /\ DOMAIN deltas' = 1..L
      /\ \A n \in DOMAIN deltas : deltas'[n] = deltas[n]
      /\ deltas'[L].upd = upd
      /\ deltas'[L].depth = [s \in Sides |-> Volume(book', s)]
      /\ DOMAIN upd \subseteq Orders /\ book' \in [Orders -> Row]
      /\ \A o \in Orders : book'[o] = IF o \in DOMAIN upd THEN upd[o] ELSE book[o]
      /\ \A o \in DOMAIN upd : book[o].st \notin Closed
  BY <1>0, <1>1, PublishEffect
<1>3. UNCHANGED <<stream, tables, redis, process>> /\ faults' \in 0..MaxFaults
  BY <1>1, WriterAssumption DEF PublishBatch, Fault, TypeOK
<1>4. released' \subseteq released \cup {o \in DOMAIN upd : upd[o].st \in Closed}
  BY DEF PublishBatch
<1>5. TypeOK'
  <2>1. released' \subseteq Orders
    BY <1>1, <1>2, <1>4 DEF TypeOK
  <2>2. sent' \in 0..Len(deltas')
    BY <1>0, <1>1, <1>2, <1>3 DEF TypeOK
  <2>3. Len(deltas') <= MaxBatches
    BY <1>0, <1>2
  <2> QED
    BY <1>1, <1>2, <1>3, <2>1, <2>2, <2>3 DEF TypeOK
<1>6. OneAtATime'
  BY <1>3 DEF WriterInv, OneAtATime
<1>7. /\ \A n \in DOMAIN deltas : Carried(n)' = Carried(n) /\ n # L /\ n < L /\ n \in DOMAIN deltas'
      /\ Carried(L)' = DOMAIN upd /\ L \in DOMAIN deltas'
      /\ \A n \in DOMAIN deltas' : n \in DOMAIN deltas \/ n = L
  BY <1>2 DEF Carried
<1>8. /\ \A o \in Orders : \A n \in DOMAIN deltas :
             Final(n, o)' <=> Final(n, o) /\ o \notin DOMAIN upd
      /\ \A o \in DOMAIN upd : Final(L, o)'
  BY <1>2, <1>7 DEF Final
<1>9. BookIsLast'
  <2> SUFFICES ASSUME NEW o \in Orders
               PROVE  \/ /\ \A n \in DOMAIN deltas' : o \notin Carried(n)'
                         /\ book'[o] = None /\ rows'[o] = None /\ o \notin userOrders'
                      \/ \E n \in DOMAIN deltas' : Final(n, o)' /\ deltas'[n].upd[o] = book'[o]
    BY DEF BookIsLast
  <2>1. CASE o \in DOMAIN upd
    BY <1>2, <1>7, <1>8, <2>1
  <2>2. CASE o \notin DOMAIN upd
    <3>1. book'[o] = book[o]
      BY <1>2, <2>2
    <3>2. CASE /\ \A n \in DOMAIN deltas : o \notin Carried(n)
               /\ book[o] = None /\ rows[o] = None /\ o \notin userOrders
      BY <1>3, <1>7, <2>2, <3>1, <3>2
    <3>3. CASE \E n \in DOMAIN deltas : Final(n, o) /\ deltas[n].upd[o] = book[o]
      BY <1>2, <1>7, <1>8, <2>2, <3>1, <3>3
    <3> QED
      BY <3>2, <3>3 DEF WriterInv, BookIsLast
  <2> QED
    BY <2>1, <2>2
<1>10. ReleasedClosed'
  <2> SUFFICES ASSUME NEW o \in released' PROVE book'[o].st \in Closed
    BY DEF ReleasedClosed
  <2>1. CASE o \in DOMAIN upd /\ upd[o].st \in Closed
    BY <1>2, <2>1
  <2>2. CASE o \in released
    <3>1. book[o].st \in Closed /\ o \in Orders
      BY <1>1, <2>2 DEF WriterInv, ReleasedClosed, TypeOK
    <3>2. o \notin DOMAIN upd
      BY <1>2, <3>1
    <3> QED
      BY <1>2, <3>1, <3>2
  <2> QED
    BY <1>4, <2>1, <2>2
<1>11. DepthIsLast'
  BY <1>0, <1>2 DEF DepthIsLast
<1>12. applied \subseteq DOMAIN deltas /\ synced \subseteq applied
  BY <1>1, <1>2 DEF TypeOK
<1>13. RowsFollow'
  <2> SUFFICES ASSUME NEW o \in Orders, NEW n \in applied, Final(n, o)'
               PROVE  rows[o].st = book'[o].st /\ rows[o].rem = book'[o].rem
    BY <1>3 DEF RowsFollow
  <2>1. Final(n, o) /\ book'[o] = book[o]
    BY <1>2, <1>8, <1>12
  <2> QED
    BY <2>1 DEF WriterInv, RowsFollow
<1>14. RedisFollows'
  <2> SUFFICES ASSUME NEW o \in Orders, NEW n \in synced, Final(n, o)'
               PROVE  /\ o \in userOrders <=> IsOpen(book'[o])
                      /\ IsOpen(book'[o]) => info[o].st = book'[o].st /\ info[o].rem = book'[o].rem
    BY <1>3 DEF RedisFollows, IsOpen
  <2>1. Final(n, o) /\ book'[o] = book[o]
    BY <1>2, <1>8, <1>12
  <2> QED
    BY <2>1 DEF WriterInv, RedisFollows
<1>15. Committed(applied)' = Committed(applied) /\ Committed(synced)' = Committed(synced)
  <2>1. \A A : A \subseteq DOMAIN deltas => Committed(A)' = Committed(A)
    BY <1>2, CommittedSame
  <2> QED
    BY <1>3, <1>12, <2>1 DEF Committed
<1>16. TradesFollow'
  BY <1>3, <1>15 DEF WriterInv, TradesFollow, PointOf
<1>17. DepthFollows'
  <2>1. deltas' # <<>> /\ L \notin synced'
    BY <1>2, <1>3, <1>12
  <2> QED
    BY <1>0, <2>1 DEF DepthFollows
<1>18. RecentFollows'
  <2>1. \A t \in Committed(synced) : ExecutedAt(t)' = ExecutedAt(t)
    <3> SUFFICES ASSUME NEW n \in synced, NEW t \in Range(TradesOf(n)) PROVE ExecutedAt(t)' = ExecutedAt(t)
      BY DEF Committed
    <3>1. n \in DOMAIN deltas /\ t.evt = n
      BY <1>1, <1>12, TradesShaped
    <3> QED
      BY <1>2, <3>1 DEF ExecutedAt
  <2>2. Range(recent) \subseteq Committed(synced)
    BY DEF WriterInv, RecentFollows
  <2> QED
    BY <1>3, <1>15, <2>1, <2>2 DEF WriterInv, RecentFollows
<1> QED
  BY <1>2, <1>5, <1>6, <1>9, <1>10, <1>11, <1>13, <1>14, <1>16, <1>17, <1>18 DEF WriterInv

\* Where the stream and the book stay, so does everything that is said about them.
LEMMA MatcherStays ==
    ASSUME WriterInv, UNCHANGED matcher, released' \subseteq released
    PROVE  /\ DeltasShaped' /\ ReleasedClosed' /\ DepthIsLast'
           /\ \A n, o : Final(n, o)' <=> Final(n, o)
           /\ \A n : Carried(n)' = Carried(n)
           /\ \A A : Committed(A)' = Committed(A)
           /\ \A n : TradesOf(n)' = TradesOf(n)
<1> USE DEF matcher
<1>1. \A n, o : Final(n, o)' <=> Final(n, o)
  BY DEF Final, Carried
<1>2. \A n : Carried(n)' = Carried(n)
  BY DEF Carried
<1>3. \A n : TradesOf(n)' = TradesOf(n)
  BY DEF TradesOf
<1>4. \A A : Committed(A)' = Committed(A)
  BY DEF Committed, TradesOf
<1>5. DeltasShaped' /\ ReleasedClosed'
  BY DEF WriterInv, DeltasShaped, SecondsRise, Carried, ReleasedClosed
<1>6. DepthIsLast'
  <2>1. \A s \in Sides : Volume(book', s) = Volume(book, s)
    OBVIOUS
  <2> QED
    BY <2>1 DEF WriterInv, DepthIsLast
<1> QED
  BY <1>1, <1>2, <1>3, <1>4, <1>5, <1>6

\* The positions of the stream.
LEMMA Positions ==
    ASSUME TypeOK, DeltasShaped
    PROVE  /\ Len(deltas) \in Nat /\ DOMAIN deltas = 1..Len(deltas)
           /\ sent \in Nat /\ sent <= Len(deltas) /\ cursor \in Nat /\ cursor <= sent
           /\ applied \subseteq DOMAIN deltas /\ synced \subseteq applied
           /\ applied \subseteq 1..sent
BY DEF TypeOK, DeltasShaped

\* Steps that touch neither the tables, Redis nor the matcher.
LEMMA StoresStay ==
    ASSUME WriterInv, UNCHANGED <<matcher, tables, redis>>, released' \subseteq released
    PROVE  /\ DeltasShaped' /\ BookIsLast' /\ ReleasedClosed' /\ DepthIsLast'
           /\ RowsFollow' /\ RedisFollows' /\ TradesFollow' /\ DepthFollows' /\ RecentFollows'
<1> USE DEF matcher, tables, redis
<1>1. /\ DeltasShaped' /\ ReleasedClosed' /\ DepthIsLast'
      /\ \A n, o : Final(n, o)' <=> Final(n, o)
      /\ \A n : Carried(n)' = Carried(n)
      /\ \A A : Committed(A)' = Committed(A)
  BY MatcherStays
<1>2. BookIsLast' /\ RowsFollow' /\ RedisFollows'
  BY <1>1 DEF WriterInv, BookIsLast, RowsFollow, RedisFollows
<1>3. Committed(applied)' = Committed(applied) /\ Committed(synced)' = Committed(synced)
  BY <1>1 DEF Committed, TradesOf
<1>4. TradesFollow' /\ RecentFollows'
  BY <1>3 DEF WriterInv, TradesFollow, RecentFollows, ExecutedAt, matcher
<1>5. \A s \in Sides : Volume(rows, s)' = Volume(rows, s)
  BY Zenon DEF Volume
<1>6. DepthFollows'
  BY <1>5 DEF WriterInv, DepthFollows
<1> QED
  BY <1>1, <1>2, <1>4, <1>6

\* A crash, and the end of the catch-up.
LEMMA CrashKeeps == ASSUME WriterInv, Crash PROVE WriterInv'
<1>1. UNCHANGED <<matcher, tables, redis>> /\ released' \subseteq released
  BY DEF Crash
<1>2. /\ TypeOK /\ DeltasShaped /\ OneAtATime
      /\ Len(deltas) \in Nat /\ sent \in Nat /\ cursor \in Nat
  BY Positions DEF WriterInv
<1>3. TypeOK'
  BY <1>2, WriterAssumption DEF Crash, Fault, TypeOK, matcher, tables, redis
<1>4. OneAtATime'
  BY <1>2 DEF Crash, OneAtATime, tables, redis
<1> QED
  BY <1>1, <1>3, <1>4, StoresStay DEF WriterInv

\* The released loop starts.
LEMMA CatchUpKeeps == ASSUME WriterInv, CatchUpDone \/ UNCHANGED vars PROVE WriterInv'
<1>1. /\ UNCHANGED <<matcher, tables, redis, stream, released, cur, faults>>
      /\ phase' = phase \/ (phase' = "run")
  BY DEF CatchUpDone, vars, process
<1>2. TypeOK' /\ OneAtATime'
  BY <1>1 DEF WriterInv, TypeOK, OneAtATime, matcher, tables, redis, stream
<1> QED
  BY <1>1, <1>2, StoresStay DEF WriterInv

\* Of two last deltas about an order, there is one.
LEMMA FinalOnce ==
    ASSUME WriterInv, NEW o \in Orders, NEW n, Final(n, o)
    PROVE  deltas[n].upd[o] = book[o]
<1>1. DOMAIN deltas = 1..Len(deltas) /\ Len(deltas) \in Nat
  BY Positions DEF WriterInv
<1>2. PICK m \in DOMAIN deltas : Final(m, o) /\ deltas[m].upd[o] = book[o]
  BY DEF WriterInv, BookIsLast, Final
<1>3. m = n
  BY <1>1, <1>2 DEF Final
<1> QED
  BY <1>2, <1>3

\* The transaction of a delta ahead of the cursor.
LEMMA CommitKeeps ==
    ASSUME WriterInv, NEW n \in DOMAIN deltas, n > cursor, Commit(n),
           UNCHANGED <<matcher, redis>>, released' \subseteq released
    PROVE  /\ rows' \in [Orders -> Row] /\ trades' \subseteq Trade /\ cursor' = n
           /\ applied' = applied \cup {n} /\ n \notin applied
           /\ \A m \in applied' : m <= cursor'
           /\ BookIsLast' /\ RowsFollow' /\ RedisFollows' /\ TradesFollow' /\ DepthFollows'
           /\ RecentFollows'
<1> USE DEF matcher, redis
<1>1. TypeOK /\ DeltasShaped
  BY DEF WriterInv
<1>2. /\ Len(deltas) \in Nat /\ DOMAIN deltas = 1..Len(deltas) /\ n \in 1..Len(deltas)
      /\ sent \in Nat /\ sent <= Len(deltas) /\ cursor \in Nat /\ cursor <= sent
      /\ applied \subseteq DOMAIN deltas /\ synced \subseteq applied
  BY <1>1, Positions
<1>3. \A m \in applied : m <= cursor /\ m # n /\ m \in Nat /\ m < n
  BY <1>2 DEF WriterInv, OneAtATime
<1>4. /\ rows' = ApplyStateEvents(n) /\ trades' = trades \cup Range(TradesOf(n))
      /\ cursor' = n /\ applied' = applied \cup {n}
  BY DEF Commit, AdvanceCursor
<1>5. /\ rows' \in [Orders -> Row]
      /\ \A o \in Orders \ Carried(n) : rows'[o] = rows[o]
      /\ \A o \in Carried(n) : /\ rows'[o].st = deltas[n].upd[o].st
                               /\ rows'[o].rem = deltas[n].upd[o].rem
  BY <1>1, <1>4, RowsType
<1>6. /\ \A m, o : Final(m, o)' <=> Final(m, o)
      /\ \A m : Carried(m)' = Carried(m)
  BY MatcherStays
<1>7. BookIsLast'
  <2> SUFFICES ASSUME NEW o \in Orders
               PROVE  \/ /\ \A m \in DOMAIN deltas : o \notin Carried(m)
                         /\ book[o] = None /\ rows'[o] = None /\ o \notin userOrders
                      \/ \E m \in DOMAIN deltas : Final(m, o) /\ deltas[m].upd[o] = book[o]
    BY <1>6 DEF BookIsLast
  <2> QED
    BY <1>5 DEF WriterInv, BookIsLast
<1>8. RowsFollow'
  <2> SUFFICES ASSUME NEW o \in Orders, NEW m \in applied', Final(m, o)
               PROVE  rows'[o].st = book[o].st /\ rows'[o].rem = book[o].rem
    BY <1>6 DEF RowsFollow
  <2>1. CASE m = n
    BY <1>5, <2>1, FinalOnce DEF Final
  <2>2. CASE m \in applied
    <3>1. o \notin Carried(n)
      BY <1>3, <2>2 DEF Final
    <3> QED
      BY <1>5, <2>2, <3>1 DEF WriterInv, RowsFollow
  <2> QED
    BY <1>4, <2>1, <2>2
<1>9. RedisFollows'
  BY <1>6 DEF WriterInv, RedisFollows
<1>10. /\ Committed(applied)' = Committed(applied) \cup Range(TradesOf(n))
       /\ Committed(synced)' = Committed(synced)
  BY <1>4 DEF Committed, TradesOf
<1>11. trades' \subseteq Trade /\ TradesFollow'
  <2>1. IsFiniteSet(Range(TradesOf(n))) /\ \A t \in Range(TradesOf(n)) : t \in Trade
    BY <1>1, TradesShaped
  <2>2. trades = Committed(applied) /\ IsFiniteSet(trades) /\ trades \subseteq Trade
    BY <1>1 DEF WriterInv, TradesFollow, TypeOK
  <2>3. IsFiniteSet(trades \cup Range(TradesOf(n)))
    BY <2>1, <2>2, FS_Union
  <2>4. history' = {PointOf(t) : t \in Committed(synced)'}
    BY <1>10 DEF WriterInv, TradesFollow
  <2>5. trades' = Committed(applied)'
    BY <1>4, <1>10, <2>2
  <2>6. IsFiniteSet(trades)' /\ trades' \subseteq Trade
    BY <1>4, <2>1, <2>2, <2>3
  <2> QED
    BY <2>4, <2>5, <2>6 DEF TradesFollow
<1>12. DepthFollows'
  <2>1. deltas # <<>> /\ Len(deltas) \notin synced
    BY <1>2, <1>3
  <2> QED
    BY <2>1 DEF DepthFollows
<1>13. RecentFollows'
  BY <1>10 DEF WriterInv, RecentFollows, ExecutedAt, matcher
<1>14. n \notin applied /\ \A m \in applied' : m <= cursor'
  BY <1>2, <1>3, <1>4
<1> QED
  BY <1>4, <1>5, <1>7, <1>8, <1>9, <1>11, <1>12, <1>13, <1>14

\* handleMessage up to the end of the transaction.
LEMMA HandleKeeps == ASSUME WriterInv, NEW n \in 1..MaxBatches, HandleDelta(n) PROVE WriterInv'
<1> USE DEF matcher
<1>1. TypeOK /\ DeltasShaped /\ OneAtATime
  BY DEF WriterInv
<1>2. /\ Len(deltas) \in Nat /\ DOMAIN deltas = 1..Len(deltas)
      /\ sent \in Nat /\ sent <= Len(deltas) /\ cursor \in Nat /\ cursor <= sent
      /\ applied \subseteq 1..sent /\ synced \subseteq applied
  BY <1>1, Positions
<1>3. /\ UNCHANGED <<matcher, redis, phase>> /\ released' = released
      /\ phase # "down" /\ cur = 0
  BY DEF HandleDelta
<1>4. /\ n \in DOMAIN deltas /\ sent' \in Nat /\ sent <= sent' /\ sent' <= Len(deltas) /\ n \in 1..sent'
      /\ n \notin acked /\ nakd \subseteq 1..sent /\ acked \subseteq 1..sent
  BY <1>1, <1>2 DEF HandleDelta, Deliverable, Deliver, TypeOK
<1>5. CASE Behind(n)
  <2>1. nakd' = nakd \ {n} /\ acked' = acked \cup {n} /\ UNCHANGED <<tables, cur, faults>>
    BY <1>5 DEF HandleDelta, AckBehind
  <2>2. TypeOK'
    BY <1>1, <1>2, <1>3, <1>4, <2>1 DEF TypeOK, tables, redis
  <2>3. OneAtATime'
    BY <1>1, <1>3, <2>1 DEF OneAtATime, tables, redis
  <2> QED
    BY <1>3, <2>1, <2>2, <2>3, StoresStay DEF WriterInv
<1>6. CASE ~Behind(n) /\ Commit(n) /\ cur' = n /\ nakd' = nakd \ {n} /\ UNCHANGED <<acked, faults>>
  <2>1. n > cursor
    BY <1>2, <1>6 DEF Behind
  <2>2. /\ rows' \in [Orders -> Row] /\ trades' \subseteq Trade /\ cursor' = n
        /\ applied' = applied \cup {n} /\ n \notin applied
        /\ \A m \in applied' : m <= cursor'
        /\ BookIsLast' /\ RowsFollow' /\ RedisFollows' /\ TradesFollow' /\ DepthFollows'
        /\ RecentFollows'
    BY <1>3, <1>4, <1>6, <2>1, CommitKeeps
  <2>3. TypeOK'
    BY <1>1, <1>2, <1>3, <1>4, <1>6, <2>2 DEF TypeOK, redis
  <2>4. OneAtATime'
    BY <1>1, <1>2, <1>3, <1>4, <1>6, <2>2 DEF OneAtATime, redis
  <2> QED
    BY <1>3, <2>2, <2>3, <2>4, MatcherStays DEF WriterInv
<1>7. CASE ~Behind(n) /\ Fault /\ nakd' = nakd \cup {n} /\ UNCHANGED <<acked, cur>>
           /\ (Commit(n) \/ UNCHANGED tables)
  <2>1. n > cursor
    BY <1>2, <1>7 DEF Behind
  <2>2. faults' \in 0..MaxFaults
    BY <1>1, <1>7, WriterAssumption DEF Fault, TypeOK
  <2>3. CASE Commit(n)
    <3>1. /\ rows' \in [Orders -> Row] /\ trades' \subseteq Trade /\ cursor' = n
          /\ applied' = applied \cup {n} /\ n \notin applied
          /\ \A m \in applied' : m <= cursor'
          /\ BookIsLast' /\ RowsFollow' /\ RedisFollows' /\ TradesFollow' /\ DepthFollows'
          /\ RecentFollows'
      BY <1>3, <1>4, <2>1, <2>3, CommitKeeps
    <3>2. TypeOK'
      BY <1>1, <1>2, <1>3, <1>4, <1>7, <2>2, <3>1 DEF TypeOK, redis
    <3>3. OneAtATime'
      BY <1>1, <1>3, <1>7, <3>1 DEF OneAtATime, redis
    <3> QED
      BY <1>3, <3>1, <3>2, <3>3, MatcherStays DEF WriterInv
  <2>4. CASE UNCHANGED tables
    <3>1. TypeOK'
      BY <1>1, <1>2, <1>3, <1>4, <1>7, <2>2, <2>4 DEF TypeOK, redis, tables
    <3>2. OneAtATime'
      BY <1>1, <1>3, <1>7, <2>4 DEF OneAtATime, redis, tables
    <3> QED
      BY <1>3, <2>4, <3>1, <3>2, StoresStay DEF WriterInv
  <2> QED
    BY <1>7, <2>3, <2>4
<1> QED
  BY <1>5, <1>6, <1>7 DEF HandleDelta

\* When every delta is committed, the rows are the book.
LEMMA AllApplied ==
    ASSUME WriterInv, 1..Len(deltas) \subseteq applied, NEW o \in Orders
    PROVE  rows[o].st = book[o].st /\ rows[o].rem = book[o].rem
<1>1. DOMAIN deltas = 1..Len(deltas)
  BY Positions DEF WriterInv
<1>2. CASE book[o] = None /\ rows[o] = None
  BY <1>2
<1>3. CASE \E n \in DOMAIN deltas : Final(n, o)
  BY <1>1, <1>3 DEF WriterInv, RowsFollow
<1> QED
  BY <1>2, <1>3 DEF WriterInv, BookIsLast

\* trades:latest after a delta that Redis did not have.
LEMMA PushKeeps ==
    ASSUME WriterInv, cur # 0, UNCHANGED <<matcher, tables>>,
           recent' = PushTrades(cur), synced' = synced \cup {cur}
    PROVE  RecentFollows'
<1> USE DEF matcher, tables
<1>1. TypeOK /\ DeltasShaped /\ RecentFollows
  BY DEF WriterInv
<1>2. PICK n : n = cur
  OBVIOUS
<1>3. /\ Len(deltas) \in Nat /\ DOMAIN deltas = 1..Len(deltas)
      /\ applied \subseteq DOMAIN deltas /\ synced \subseteq applied /\ cursor \in Nat
  BY <1>1, Positions
<1>4. n \in applied /\ n \notin synced /\ n = cursor /\ n \in DOMAIN deltas /\ n \in Nat
  BY <1>2, <1>3 DEF WriterInv, OneAtATime
<1>5. \A m \in synced : m \in DOMAIN deltas /\ m \in Nat /\ m < n
  BY <1>3, <1>4 DEF WriterInv, OneAtATime
<1> DEFINE T == TradesOf(n)
<1>6. /\ T \in Seq(Trade) /\ DOMAIN T = 1..Len(T) /\ Len(T) \in Nat
      /\ \A i \in DOMAIN T : T[i].evt = n /\ T[i].fill = i
      /\ \A t \in Range(T) : t.evt = n
  BY <1>1, <1>4, TradesShaped
<1>7. \A t \in Committed(synced) : t.evt \in Nat /\ t.evt < n
  <2> SUFFICES ASSUME NEW m \in synced, NEW t \in Range(TradesOf(m)) PROVE t.evt \in Nat /\ t.evt < n
    BY DEF Committed
  <2> QED
    BY <1>1, <1>5, TradesShaped
<1>8. Committed(synced)' = Committed(synced) \cup Range(T)
  BY <1>2 DEF Committed, TradesOf
<1> DEFINE P == PushTrades(n)
<1>9. /\ P \in Seq(Trade) /\ Len(P) <= RecentLimit /\ Len(P) <= Len(T) + Len(recent)
      /\ Len(P) = Len(T) + Len(recent) \/ Len(P) = RecentLimit
      /\ DOMAIN P = 1..Len(P)
      /\ \A i \in DOMAIN P : P[i] = IF i <= Len(T) THEN T[(Len(T) - i) + 1] ELSE recent[i - Len(T)]
  BY <1>1, <1>4, RecentType
<1>10. recent' = P
  BY <1>2
<1> HIDE DEF T, P
<1>11. /\ recent \in Seq(Trade) /\ DOMAIN recent = 1..Len(recent) /\ Len(recent) \in Nat
       /\ Len(recent) <= RecentLimit /\ RecentLimit \in Nat \ {0}
  BY <1>1, WriterAssumption DEF TypeOK
<1>12. IsInjective(recent) /\ \A i \in 1..Len(recent) : recent[i] \in Committed(synced)
  BY <1>1, <1>11 DEF RecentFollows, Range
<1>13. Len(P) \in Nat
  <2>1. \A S : \A q \in Seq(S) : Len(q) \in Nat
    OBVIOUS
  <2> QED
    BY <1>9, <2>1, Zenon
<1>0. \A p, t, r \in Nat : \A i \in 1..p :
        /\ i <= t => (t - i) + 1 \in 1..t
        /\ ~(i <= t) /\ p <= t + r => i - t \in 1..r
  OBVIOUS
<1>14. ASSUME NEW i \in 1..Len(P), i <= Len(T)
       PROVE  /\ (Len(T) - i) + 1 \in DOMAIN T /\ P[i] = T[(Len(T) - i) + 1]
              /\ P[i].evt = n /\ P[i].fill = (Len(T) - i) + 1 /\ P[i] \in Range(T)
  <2>1. (Len(T) - i) + 1 \in 1..Len(T)
    BY <1>0, <1>6, <1>11, <1>13, <1>14, Zenon
  <2>2. (Len(T) - i) + 1 \in DOMAIN T
    BY <1>6, <2>1
  <2>3. P[i] = T[(Len(T) - i) + 1]
    BY <1>9, <1>14
  <2> QED
    BY <1>6, <2>2, <2>3 DEF Range
<1>15. ASSUME NEW i \in 1..Len(P), ~(i <= Len(T))
       PROVE  /\ i - Len(T) \in 1..Len(recent) /\ P[i] = recent[i - Len(T)]
              /\ P[i] \in Committed(synced) /\ P[i].evt # n
  <2>3. i - Len(T) \in 1..Len(recent)
    <3>1. Len(P) <= Len(T) + Len(recent)
      BY <1>9
    <3> QED
      BY <1>0, <1>6, <1>11, <1>13, <1>15, <3>1, Zenon
  <2>4. P[i] = recent[i - Len(T)]
    BY <1>9, <1>15
  <2>1. i - Len(T) \in 1..Len(recent) /\ P[i] = recent[i - Len(T)]
    BY <2>3, <2>4
  <2>2. P[i] \in Committed(synced)
    BY <1>12, <2>1
  <2> QED
    BY <1>4, <1>7, <2>1, <2>2
<1>16. IsInjective(P)
  <2> SUFFICES ASSUME NEW i \in 1..Len(P), NEW j \in 1..Len(P), P[i] = P[j] PROVE i = j
    BY <1>9 DEF IsInjective
  <2>1. CASE i <= Len(T) /\ j <= Len(T)
    <3>1. (Len(T) - i) + 1 = (Len(T) - j) + 1
      BY <1>14, <2>1
    <3> QED
      BY <1>6, <1>13, <3>1
  <2>2. CASE i <= Len(T) /\ ~(j <= Len(T))
    BY <1>14, <1>15, <2>2
  <2>3. CASE ~(i <= Len(T)) /\ j <= Len(T)
    BY <1>14, <1>15, <2>3
  <2>4. CASE ~(i <= Len(T)) /\ ~(j <= Len(T))
    <3>1. i - Len(T) = j - Len(T)
      BY <1>11, <1>12, <1>15, <2>4 DEF IsInjective
    <3> QED
      BY <1>6, <1>13, <3>1
  <2> QED
    BY <2>1, <2>2, <2>3, <2>4
<1>17. Range(P) \subseteq Committed(synced) \cup Range(T)
  <2> SUFFICES ASSUME NEW i \in 1..Len(P) PROVE P[i] \in Committed(synced) \cup Range(T)
    BY <1>9 DEF Range
  <2> QED
    BY <1>14, <1>15
<1>20. \A u \in Committed(synced) \cup Range(T) : ExecutedAt(u) <= deltas[n].sec
  <2> TAKE u \in Committed(synced) \cup Range(T)
  <2>1. Committed(synced) \cup Range(T) = Committed(synced \cup {n})
    BY CommittedAdd DEF T
  <2>2. synced \cup {n} \in SUBSET DOMAIN deltas
    BY <1>3, <1>4
  <2>3. u.evt \in DOMAIN deltas /\ ExecutedAt(u) = deltas[u.evt].sec
    BY <1>1, <2>1, <2>2, TradesTimed
  <2>4. u.evt <= n
    BY <1>4, <1>6, <1>7
  <2> QED
    BY <1>1, <1>4, <2>3, <2>4 DEF DeltasShaped, SecondsRise
<1>18. ASSUME Committed(synced) \cup Range(T) # {}
       PROVE  \E t \in Range(P) : \A u \in Committed(synced) \cup Range(T) : ExecutedAt(u) <= ExecutedAt(t)
  <2>1. CASE Len(T) > 0
    <3>a. Len(P) = Len(T) + Len(recent) \/ Len(P) = RecentLimit
      BY <1>9
    <3>0. \A p, t, r, l \in Nat : t > 0 /\ l # 0 /\ (p = t + r \/ p = l) => 1 \in 1..p /\ 1 <= t
      OBVIOUS
    <3>1. 1 \in 1..Len(P) /\ 1 <= Len(T)
      BY <1>6, <1>11, <1>13, <2>1, <3>0, <3>a
    <3>2. P[1].evt = n /\ P[1] \in Range(P)
      BY <1>9, <1>14, <3>1 DEF Range
    <3>3. ExecutedAt(P[1]) = deltas[n].sec
      BY <3>2 DEF ExecutedAt
    <3> QED
      BY <1>20, <3>2, <3>3
  <2>2. CASE Len(T) = 0
    <3>1. Range(T) = {}
      BY <1>6, <2>2 DEF Range
    <3>2. PICK t \in Range(recent) : \A u \in Committed(synced) : ExecutedAt(u) <= ExecutedAt(t)
      BY <1>1, <1>18, <3>1 DEF RecentFollows
    <3>3. PICK j \in 1..Len(recent) : t = recent[j]
      BY <1>11, <3>2 DEF Range
    <3>a. Len(P) = Len(T) + Len(recent) \/ Len(P) = RecentLimit
      BY <1>9
    <3>0. \A p, q, r, l \in Nat : \A x \in 1..r : q = 0 /\ r <= l /\ (p = q + r \/ p = l)
                                               => x \in 1..p /\ ~(x <= q)
      OBVIOUS
    <3>4. j \in 1..Len(P) /\ ~(j <= Len(T))
      BY <1>6, <1>11, <1>13, <2>2, <3>0, <3>3, <3>a
    <3>5. P[j] = recent[j - Len(T)] /\ j - Len(T) = j
      BY <1>9, <2>2, <3>4
    <3>6. t \in Range(P)
      BY <1>9, <3>3, <3>4, <3>5 DEF Range
    <3> QED
      BY <3>1, <3>2, <3>6
  <2> QED
    BY <1>6, <2>1, <2>2
<1>19. Committed(synced)' = Committed(synced) \cup Range(T)
  BY <1>8 DEF T
<1> QED
  BY <1>10, <1>16, <1>17, <1>18, <1>19 DEF RecentFollows, ExecutedAt

\* updateRedisReadModels for the delta that was just committed.
LEMMA UpdateKeeps ==
    ASSUME WriterInv, cur # 0, UpdateRedisReadModels(cur), UNCHANGED <<matcher, tables>>,
           released' \subseteq released
    PROVE  /\ depth' \in [Sides -> Nat] /\ userOrders' \subseteq Orders /\ info' \in [Orders -> Row]
           /\ recent' \in Seq(Trade) /\ Len(recent') <= RecentLimit /\ history' \subseteq Point
           /\ synced' = synced \cup {cur} /\ synced' \subseteq applied
           /\ BookIsLast' /\ RowsFollow' /\ RedisFollows' /\ TradesFollow' /\ DepthFollows'
           /\ RecentFollows'
<1> USE DEF matcher, tables
<1>1. TypeOK /\ DeltasShaped
  BY DEF WriterInv
<1>2. PICK n : n = cur
  OBVIOUS
<1>3. /\ Len(deltas) \in Nat /\ DOMAIN deltas = 1..Len(deltas)
      /\ applied \subseteq DOMAIN deltas /\ synced \subseteq applied /\ cursor \in Nat
  BY <1>1, Positions
<1>4. n \in applied /\ n \notin synced /\ n = cursor /\ n \in DOMAIN deltas /\ n \in Nat
  BY <1>2, <1>3 DEF WriterInv, OneAtATime
<1>5. \A m \in applied : m \in Nat /\ m <= n
  BY <1>3, <1>4 DEF WriterInv, OneAtATime
<1>6. /\ depth' = deltas[n].depth /\ userOrders' = OpenMembers(n) /\ info' = WriteInfo(n)
      /\ recent' = PushTrades(n) /\ history' = history \cup {PointOf(t) : t \in Range(TradesOf(n))}
      /\ synced' = synced \cup {n}
  BY <1>2 DEF UpdateRedisReadModels
<1>7. /\ info' \in [Orders -> Row]
      /\ \A o \in Orders \ Carried(n) : info'[o] = info[o]
      /\ \A o \in Carried(n) : info'[o].st = deltas[n].upd[o].st /\ info'[o].rem = deltas[n].upd[o].rem
  BY <1>1, <1>4, <1>6, InfoType
<1>8. /\ \A o \in Orders \ Carried(n) : o \in userOrders' <=> o \in userOrders
      /\ \A o \in Carried(n) : o \in userOrders' <=> IsOpen(deltas[n].upd[o])
  BY <1>6 DEF OpenMembers, Carried
<1>9. Carried(n) \subseteq Orders /\ depth' \in [Sides -> Nat]
  BY <1>1, <1>4, <1>6, DeltaParts
<1>10. userOrders' \subseteq Orders
  BY <1>1, <1>6, <1>9 DEF TypeOK, OpenMembers, Carried
<1>11. recent' \in Seq(Trade) /\ Len(recent') <= RecentLimit
  BY <1>1, <1>4, <1>6, RecentType
<1>12. history' \subseteq Point
  <2>1. \A t \in Range(TradesOf(n)) : PointOf(t) \in Point
    <3> TAKE t \in Range(TradesOf(n))
    <3>1. t \in Trade
      BY <1>1, <1>4, TradesShaped
    <3> QED
      BY <3>1 DEF Trade, Point, PointOf
  <2> QED
    BY <1>1, <1>6, <2>1 DEF TypeOK
<1>13. /\ \A m, o : Final(m, o)' <=> Final(m, o)
       /\ \A m : Carried(m)' = Carried(m)
  BY MatcherStays
<1>14. BookIsLast'
  <2> SUFFICES ASSUME NEW o \in Orders
               PROVE  \/ /\ \A m \in DOMAIN deltas : o \notin Carried(m)
                         /\ book[o] = None /\ rows[o] = None /\ o \notin userOrders'
                      \/ \E m \in DOMAIN deltas : Final(m, o) /\ deltas[m].upd[o] = book[o]
    BY <1>13 DEF BookIsLast
  <2> QED
    BY <1>4, <1>8 DEF WriterInv, BookIsLast
<1>15. RowsFollow'
  BY <1>13 DEF WriterInv, RowsFollow
<1>16. RedisFollows'
  <2> SUFFICES ASSUME NEW o \in Orders, NEW m \in synced', Final(m, o)
               PROVE  /\ o \in userOrders' <=> IsOpen(book[o])
                      /\ IsOpen(book[o]) => info'[o].st = book[o].st /\ info'[o].rem = book[o].rem
    BY <1>13 DEF RedisFollows
  <2>1. CASE m = n
    BY <1>7, <1>8, <2>1, FinalOnce DEF Final
  <2>2. CASE m \in synced
    <3>1. m < n
      BY <1>3, <1>4, <1>5, <2>2
    <3>2. o \notin Carried(n)
      BY <1>4, <3>1 DEF Final
    <3> QED
      BY <1>7, <1>8, <2>2, <3>2 DEF WriterInv, RedisFollows
  <2> QED
    BY <1>6, <2>1, <2>2
<1>17. TradesFollow'
  <2>1. /\ Committed(applied)' = Committed(applied)
        /\ Committed(synced)' = Committed(synced) \cup Range(TradesOf(n))
    BY <1>6 DEF Committed, TradesOf
  <2>2. history = {PointOf(t) : t \in Committed(synced)}
    BY DEF WriterInv, TradesFollow
  <2>3. history' = {PointOf(t) : t \in Committed(synced)'}
    BY <1>6, <2>1, <2>2
  <2> QED
    BY <2>1, <2>3 DEF WriterInv, TradesFollow
<1>18. DepthFollows'
  <2> SUFFICES ASSUME 1..Len(deltas) \subseteq applied
               PROVE  depth' = [s \in Sides |-> Volume(rows, s)]
    <3>1. rows' = rows /\ deltas' = deltas /\ applied' = applied
      OBVIOUS
    <3> QED
      BY <3>1, Zenon DEF DepthFollows
  <2>1. n = Len(deltas) /\ deltas # <<>>
    <3>1. n \in 1..Len(deltas) /\ Len(deltas) \in Nat
      BY <1>3, <1>4
    <3>2. Len(deltas) \in 1..Len(deltas)
      BY <3>1
    <3>3. Len(deltas) <= n
      BY <1>5, <3>2
    <3>4. n = Len(deltas) /\ Len(deltas) # 0
      BY <3>1, <3>3
    <3>5. Len(<<>>) = 0
      OBVIOUS
    <3> QED
      BY <3>4, <3>5
  <2>2. depth' = [s \in Sides |-> Volume(book, s)]
    BY <1>6, <2>1 DEF WriterInv, DepthIsLast
  <2>3. \A o \in Orders : rows[o].st = book[o].st /\ rows[o].rem = book[o].rem
    BY AllApplied
  <2>4. \A s \in Sides : Volume(rows, s) = Volume(book, s)
    BY <2>3, VolumeSame
  <2> QED
    BY <2>2, <2>4
<1>19. RecentFollows'
  BY <1>2, <1>6, PushKeeps
<1> QED
  BY <1>2, <1>3, <1>4, <1>6, <1>7, <1>9, <1>10, <1>11, <1>12, <1>14, <1>15, <1>16, <1>17, <1>18, <1>19

\* Redis and the acknowledgement of the delta that was committed.
LEMMA FinishKeeps == ASSUME WriterInv, FinishDelta PROVE WriterInv'
<1>1. TypeOK /\ DeltasShaped /\ OneAtATime
  BY DEF WriterInv
<1>2. /\ UNCHANGED <<matcher, released, sent, tables, phase>> /\ cur # 0 /\ cur' = 0
      /\ released' \subseteq released
  BY DEF FinishDelta
<1>3. cur \in 1..sent /\ cur \notin nakd \cup acked /\ sent \in Nat
  BY <1>1, <1>2, Positions DEF TypeOK, OneAtATime
<1>4. CASE UpdateRedisReadModels(cur) /\ acked' = acked \cup {cur} /\ UNCHANGED <<nakd, faults>>
  <2>1. /\ depth' \in [Sides -> Nat] /\ userOrders' \subseteq Orders /\ info' \in [Orders -> Row]
        /\ recent' \in Seq(Trade) /\ Len(recent') <= RecentLimit /\ history' \subseteq Point
        /\ synced' = synced \cup {cur} /\ synced' \subseteq applied
        /\ BookIsLast' /\ RowsFollow' /\ RedisFollows' /\ TradesFollow' /\ DepthFollows'
        /\ RecentFollows'
    BY <1>2, <1>4, UpdateKeeps
  <2>2. TypeOK'
    BY <1>1, <1>2, <1>3, <1>4, <2>1 DEF TypeOK, matcher, tables
  <2>3. OneAtATime'
    BY <1>1, <1>2, <2>1 DEF OneAtATime, tables
  <2> QED
    BY <1>2, <2>1, <2>2, <2>3, MatcherStays DEF WriterInv
<1>5. CASE Fault /\ acked' = acked \cup {cur} /\ UNCHANGED <<redis, nakd>>
  <2>1. faults' \in 0..MaxFaults
    BY <1>1, <1>5, WriterAssumption DEF Fault, TypeOK
  <2>2. TypeOK'
    BY <1>1, <1>2, <1>3, <1>5, <2>1 DEF TypeOK, matcher, tables, redis
  <2>3. OneAtATime'
    BY <1>1, <1>2 DEF OneAtATime, tables
  <2> QED
    BY <1>2, <1>5, <2>2, <2>3, StoresStay DEF WriterInv
<1>6. CASE Fault /\ UpdateRedisReadModels(cur) /\ nakd' = nakd \cup {cur} /\ UNCHANGED acked
  <2>1. /\ depth' \in [Sides -> Nat] /\ userOrders' \subseteq Orders /\ info' \in [Orders -> Row]
        /\ recent' \in Seq(Trade) /\ Len(recent') <= RecentLimit /\ history' \subseteq Point
        /\ synced' = synced \cup {cur} /\ synced' \subseteq applied
        /\ BookIsLast' /\ RowsFollow' /\ RedisFollows' /\ TradesFollow' /\ DepthFollows'
        /\ RecentFollows'
    BY <1>2, <1>6, UpdateKeeps
  <2>2. faults' \in 0..MaxFaults
    BY <1>1, <1>6, WriterAssumption DEF Fault, TypeOK
  <2>3. TypeOK'
    BY <1>1, <1>2, <1>3, <1>6, <2>1, <2>2 DEF TypeOK, matcher, tables
  <2>4. OneAtATime'
    BY <1>1, <1>2, <2>1 DEF OneAtATime, tables
  <2> QED
    BY <1>2, <2>1, <2>3, <2>4, MatcherStays DEF WriterInv
<1> QED
  BY <1>4, <1>5, <1>6 DEF FinishDelta

\* A released event closes a row that is behind, and leaves one that is not.
LEMMA ReleasedKeeps == ASSUME WriterInv, NEW o \in Orders, HandleReleased(o) PROVE WriterInv'
<1>1. TypeOK /\ DeltasShaped /\ OneAtATime
  BY DEF WriterInv
<1>2. /\ UNCHANGED <<matcher, stream, trades, cursor, applied, depth, userOrders, recent, history,
                     synced, process>>
      /\ released' \subseteq released /\ o \in released /\ faults' \in 0..MaxFaults
  BY <1>1, WriterAssumption DEF HandleReleased, Fault, TypeOK
<1>3. book[o].st \in Closed /\ ~IsOpen(book[o]) /\ book[o] # None
  BY <1>2 DEF WriterInv, ReleasedClosed, Closed, IsOpen, OpenStatus, None
<1>4. CASE UNCHANGED <<rows, info>>
  <2>1. UNCHANGED <<matcher, tables, redis>>
    BY <1>2, <1>4 DEF tables, redis
  <2>2. TypeOK' /\ OneAtATime'
    BY <1>1, <1>2, <2>1 DEF TypeOK, OneAtATime, matcher, stream, tables, redis, process
  <2> QED
    BY <1>2, <2>1, <2>2, StoresStay DEF WriterInv
<1>5. CASE /\ rows' = [rows EXCEPT ![o].st = IF @ \in Closed \cup {"none"} THEN @ ELSE book[o].st]
           /\ info' = [info EXCEPT ![o] = None]
  <2> DEFINE v == IF rows[o].st \in Closed \cup {"none"} THEN rows[o].st ELSE book[o].st
             r == [rows[o] EXCEPT !.st = v]
  <2>1. rows \in [Orders -> Row] /\ info \in [Orders -> Row] /\ rows[o] \in Row /\ book[o] \in Row
    BY <1>1 DEF TypeOK
  <2>2. rows' = [rows EXCEPT ![o] = r]
    BY <1>5
  <2>3. v \in Status \cup {"none"}
    BY <2>1 DEF Row
  <2> HIDE DEF v
  <2>4. r \in Row /\ r.st = v /\ r.rem = rows[o].rem
    BY <2>1, <2>3 DEF Row
  <2> HIDE DEF r
  <2>5. None \in Row
    BY MaxQtyBounds DEF None, Row
  <2>6. /\ rows' \in [Orders -> Row] /\ rows'[o] = r
        /\ \A p \in Orders \ {o} : rows'[p] = rows[p]
    BY <2>1, <2>2, <2>4
  <2>7. /\ info' \in [Orders -> Row] /\ \A p \in Orders \ {o} : info'[p] = info[p]
    BY <1>5, <2>1, <2>5
  <2>8. rows[o].st = book[o].st => v = book[o].st
    BY DEF v
  <2>9. /\ DeltasShaped' /\ ReleasedClosed' /\ DepthIsLast'
        /\ \A n, p : Final(n, p)' <=> Final(n, p)
        /\ \A n : Carried(n)' = Carried(n)
        /\ \A A : Committed(A)' = Committed(A)
    BY <1>2, MatcherStays
  <2>10. TypeOK'
    BY <1>1, <1>2, <2>6, <2>7 DEF TypeOK, matcher, stream, process
  <2>11. OneAtATime'
    BY <1>1, <1>2 DEF OneAtATime, stream, process
  <2>12. BookIsLast'
    <3> SUFFICES ASSUME NEW p \in Orders
                 PROVE  \/ /\ \A m \in DOMAIN deltas : p \notin Carried(m)
                           /\ book[p] = None /\ rows'[p] = None /\ p \notin userOrders
                        \/ \E m \in DOMAIN deltas : Final(m, p) /\ deltas[m].upd[p] = book[p]
      BY <1>2, <2>9 DEF BookIsLast, matcher
    <3> QED
      BY <1>3, <2>6 DEF WriterInv, BookIsLast
  <2>13. RowsFollow'
    <3> SUFFICES ASSUME NEW p \in Orders, NEW n \in applied, Final(n, p)
                 PROVE  rows'[p].st = book[p].st /\ rows'[p].rem = book[p].rem
      BY <1>2, <2>9 DEF RowsFollow, matcher
    <3>1. rows[p].st = book[p].st /\ rows[p].rem = book[p].rem
      BY DEF WriterInv, RowsFollow
    <3> QED
      BY <2>4, <2>6, <2>8, <3>1
  <2>14. RedisFollows'
    <3> SUFFICES ASSUME NEW p \in Orders, NEW n \in synced, Final(n, p)
                 PROVE  /\ p \in userOrders <=> IsOpen(book[p])
                        /\ IsOpen(book[p]) => info'[p].st = book[p].st /\ info'[p].rem = book[p].rem
      BY <1>2, <2>9 DEF RedisFollows, matcher
    <3>1. /\ p \in userOrders <=> IsOpen(book[p])
          /\ IsOpen(book[p]) => info[p].st = book[p].st /\ info[p].rem = book[p].rem
      BY DEF WriterInv, RedisFollows
    <3> QED
      BY <1>3, <2>7, <3>1
  <2>15. Committed(applied)' = Committed(applied) /\ Committed(synced)' = Committed(synced)
    BY <1>2, <2>9 DEF Committed, TradesOf, matcher
  <2>16. TradesFollow' /\ RecentFollows'
    BY <1>2, <2>15 DEF WriterInv, TradesFollow, RecentFollows, ExecutedAt, matcher
  <2>17. DepthFollows'
    <3> SUFFICES ASSUME 1..Len(deltas) \subseteq applied, deltas = <<>> \/ Len(deltas) \in synced
                 PROVE  depth = [s \in Sides |-> Volume(rows', s)]
      BY <1>2 DEF DepthFollows, matcher
    <3>1. \A p \in Orders : rows[p].st = book[p].st /\ rows[p].rem = book[p].rem
      BY AllApplied
    <3>2. \A p \in Orders : rows'[p].st = rows[p].st /\ rows'[p].rem = rows[p].rem
      BY <2>4, <2>6, <2>8, <3>1
    <3>3. \A s \in Sides : Volume(rows', s) = Volume(rows, s)
      BY <3>2, VolumeSame
    <3>4. depth = [s \in Sides |-> Volume(rows, s)]
      BY DEF WriterInv, DepthFollows
    <3> QED
      BY <3>3, <3>4
  <2> QED
    BY <2>9, <2>10, <2>11, <2>12, <2>13, <2>14, <2>16, <2>17 DEF WriterInv
<1> QED
  BY <1>4, <1>5 DEF HandleReleased

\* R is the end of an enumeration s of the trades S in the order of their times, ...
EndsWith(s, S, R) ==
    /\ IsFiniteSet(S) /\ S \subseteq Trade /\ s \in SetToSeqs(S)
    /\ \A t \in S : ExecutedAt(t) \in Nat
    /\ \A i, j \in DOMAIN s : i < j => ExecutedAt(s[i]) <= ExecutedAt(s[j])
    /\ R = SubSeq(s, IF Len(s) > RecentLimit THEN Len(s) - RecentLimit + 1 ELSE 1, Len(s))

\* ... so that it has each trade once, and one of the last second.
ShowsNewest(R, S) ==
    /\ R \in Seq(Trade) /\ Len(R) <= RecentLimit /\ IsInjective(R) /\ Range(R) \subseteq S
    /\ S # {} => \E t \in Range(R) : \A u \in S : ExecutedAt(u) <= ExecutedAt(t)

\* What rebuildRecentTrades pushes.
LEMMA NewestTrades == ASSUME NEW s, NEW S, NEW R, EndsWith(s, S, R) PROVE ShowsNewest(R, S)
<1>0. /\ IsFiniteSet(S) /\ S \subseteq Trade /\ s \in SetToSeqs(S)
      /\ \A t \in S : ExecutedAt(t) \in Nat
      /\ \A i, j \in DOMAIN s : i < j => ExecutedAt(s[i]) <= ExecutedAt(s[j])
      /\ R = SubSeq(s, IF Len(s) > RecentLimit THEN Len(s) - RecentLimit + 1 ELSE 1, Len(s))
  BY DEF EndsWith
<1> DEFINE N == Cardinality(S)
<1>1. N \in Nat /\ RecentLimit \in Nat \ {0}
  BY <1>0, FS_CardinalityType, WriterAssumption
<1>2. s \in [1..N -> S] /\ \A i, j \in 1..N : i # j => s[i] # s[j]
  BY <1>0 DEF SetToSeqs
<1>3. s \in Surjection(1..N, S)
  <2>1. s \in Injection(1..N, S)
    BY <1>2 DEF Injection, IsInjective
  <2>2. Cardinality(1..N) = N
    <3> HIDE DEF N
    <3> QED
      BY <1>1, FS_Interval
  <2> HIDE DEF N
  <2> QED
    BY <1>0, <2>1, <2>2, FS_Injection DEF N
<1>4. \A u \in S : \E i \in 1..N : s[i] = u
  BY <1>3 DEF Surjection
<1> HIDE DEF N
<1>5. s \in Seq(S) /\ Len(s) = N /\ DOMAIN s = 1..N
  BY <1>1, <1>2
<1> DEFINE a == IF N > RecentLimit THEN N - RecentLimit + 1 ELSE 1
<1>6. /\ a \in Nat \ {0} /\ a <= N + 1 /\ N - a + 1 \in Nat /\ N - a + 1 <= RecentLimit
      /\ N # 0 => a <= N
  BY <1>1
<1>7. R = SubSeq(s, a, N)
  BY <1>0, <1>5
<1> HIDE DEF a
<1> DEFINE K == N - a + 1
<1>8. R \in Seq(S) /\ Len(R) = K /\ DOMAIN R = 1..K /\ \A i \in 1..K : R[i] = s[a + i - 1]
  <2>1. \A q \in Seq(S) : \A b, c \in Nat : b # 0 /\ b <= c + 1 /\ c <= Len(q) =>
          /\ SubSeq(q, b, c) \in Seq(S) /\ Len(SubSeq(q, b, c)) = c - b + 1
          /\ DOMAIN SubSeq(q, b, c) = 1..(c - b + 1)
          /\ \A i \in 1..(c - b + 1) : SubSeq(q, b, c)[i] = q[b + i - 1]
    OBVIOUS
  <2>2. a \in Nat /\ a # 0 /\ N <= Len(s)
    BY <1>1, <1>5, <1>6
  <2>3. a <= N + 1
    BY <1>6
  <2>4. LET Q == SubSeq(s, a, N) IN
        /\ Q \in Seq(S) /\ Len(Q) = N - a + 1 /\ DOMAIN Q = 1..(N - a + 1)
        /\ \A i \in 1..(N - a + 1) : Q[i] = s[a + i - 1]
    BY <1>1, <1>5, <2>1, <2>2, <2>3, Zenon
  <2> QED
    BY <1>7, <2>4, Zenon
<1>9. \A i \in 1..K : a + i - 1 \in 1..N
  BY <1>1, <1>6
<1>10. K \in Nat /\ K <= RecentLimit /\ (N # 0 => K \in 1..K /\ a + K - 1 = N)
  BY <1>1, <1>6
<1>11. \A i, j \in 1..K : a + i - 1 = a + j - 1 => i = j
  BY <1>1, <1>6
<1> HIDE DEF K
<1>12. IsInjective(R)
  <2> SUFFICES ASSUME NEW i \in 1..K, NEW j \in 1..K, R[i] = R[j] PROVE i = j
    BY <1>8 DEF IsInjective
  <2>1. s[a + i - 1] = s[a + j - 1]
    BY <1>8
  <2>2. a + i - 1 = a + j - 1
    BY <1>2, <1>9, <2>1, Zenon
  <2> QED
    BY <1>11, <2>2, Zenon
<1>13. Range(R) \subseteq S
  <2> SUFFICES ASSUME NEW i \in 1..K PROVE R[i] \in S
    BY <1>8 DEF Range
  <2> QED
    BY <1>2, <1>8, <1>9
<1>14. R \in Seq(Trade)
  <2>1. \A q \in Seq(S) : q \in Seq(Trade)
    BY <1>0
  <2> QED
    BY <1>8, <2>1, Zenon
<1>15. ASSUME S # {} PROVE \E t \in Range(R) : \A u \in S : ExecutedAt(u) <= ExecutedAt(t)
  <2>1. N # 0 /\ N \in 1..N
    BY <1>1, <1>4, <1>15
  <2>2. R[K] = s[N] /\ R[K] \in Range(R)
    BY <1>8, <1>10, <2>1 DEF Range
  <2>3. \A u \in S : ExecutedAt(u) <= ExecutedAt(s[N])
    <3> TAKE u \in S
    <3>1. PICK i \in 1..N : s[i] = u
      BY <1>4
    <3>3. ExecutedAt(s[N]) \in Nat
      BY <1>0, <1>2, <2>1
    <3>4. CASE i < N
      BY <1>0, <1>5, <2>1, <3>1, <3>4
    <3>5. CASE i = N
      BY <3>1, <3>3, <3>5
    <3> QED
      BY <1>1, <3>4, <3>5
  <2> QED
    BY <2>2, <2>3
<1> QED
  BY <1>8, <1>10, <1>12, <1>13, <1>14, <1>15 DEF ShowsNewest

\* A restart: Redis is built again from the tables.
LEMMA StartKeeps == ASSUME WriterInv, Start PROVE WriterInv'
<1>1. TypeOK /\ DeltasShaped /\ OneAtATime /\ TradesFollow
  BY DEF WriterInv
<1>2. /\ UNCHANGED <<matcher, released, stream, tables, cur, faults>> /\ phase = "down"
      /\ phase' = "catchup" /\ cur = 0 /\ released' \subseteq released
  BY <1>1 DEF Start, OneAtATime
<1>3. /\ depth' = [s \in Sides |-> Volume(rows, s)]
      /\ userOrders' = {o \in Orders : IsOpen(rows[o])}
      /\ info' = [o \in Orders |-> IF IsOpen(rows[o]) THEN rows[o] ELSE None]
      /\ history' = {PointOf(t) : t \in trades} /\ synced' = applied
  BY DEF Start, RebuildRedisModels, RebuildDepths, RebuildActiveOrders, RebuildPriceHistory
<1>4. /\ recent' \in Seq(Trade) /\ Len(recent') <= RecentLimit
      /\ IsInjective(recent') /\ Range(recent') \subseteq trades
      /\ trades # {} => \E t \in Range(recent') : \A u \in trades : ExecutedAt(u) <= ExecutedAt(t)
  <2>1. PICK s \in SetToSeqs(trades) :
          /\ \A i, j \in DOMAIN s : i < j => ExecutedAt(s[i]) <= ExecutedAt(s[j])
          /\ recent' = SubSeq(s, IF Len(s) > RecentLimit THEN Len(s) - RecentLimit + 1 ELSE 1, Len(s))
    BY DEF Start, RebuildRedisModels, RebuildRecentTrades
  <2>2. trades \subseteq Trade /\ IsFiniteSet(trades)
    BY <1>1 DEF TypeOK, TradesFollow
  <2>5. \A t \in trades : ExecutedAt(t) \in Nat
    BY <1>1, TradesTimed, Positions DEF TradesFollow
  <2>3. EndsWith(s, trades, recent')
    BY <2>1, <2>2, <2>5, Zenon DEF EndsWith
  <2>4. ShowsNewest(recent', trades)
    BY <2>3, NewestTrades, Zenon
  <2> QED
    BY <2>4, Zenon DEF ShowsNewest
<1>5. rows \in [Orders -> Row] /\ \A o \in Orders : None \in Row
  BY <1>1, MaxQtyBounds DEF TypeOK, None, Row
<1>6. TypeOK'
  <2>1. depth' \in [Sides -> Nat]
    <3>1. \A s \in Sides : Volume(rows, s) \in Nat
      BY <1>5, VolumeNat
    <3> QED
      BY <1>3, <3>1
  <2>2. userOrders' \subseteq Orders /\ info' \in [Orders -> Row]
    BY <1>3, <1>5
  <2>3. history' \subseteq Point
    <3>1. \A t \in trades : PointOf(t) \in Point
      <4> TAKE t \in trades
      <4>1. t \in Trade
        BY <1>1 DEF TypeOK
      <4> QED
        BY <4>1 DEF Trade, Point, PointOf
    <3> QED
      BY <1>3, <3>1
  <2> QED
    BY <1>1, <1>2, <1>3, <1>4, <2>1, <2>2, <2>3 DEF TypeOK, matcher, stream, tables
<1>7. OneAtATime'
  BY <1>1, <1>2 DEF OneAtATime, tables
<1>8. /\ DeltasShaped' /\ ReleasedClosed' /\ DepthIsLast'
      /\ \A n, o : Final(n, o)' <=> Final(n, o)
      /\ \A n : Carried(n)' = Carried(n)
      /\ \A A : Committed(A)' = Committed(A)
  BY <1>2, MatcherStays
<1>9. BookIsLast'
  <2> SUFFICES ASSUME NEW o \in Orders
               PROVE  \/ /\ \A m \in DOMAIN deltas : o \notin Carried(m)
                         /\ book[o] = None /\ rows[o] = None /\ o \notin userOrders'
                      \/ \E m \in DOMAIN deltas : Final(m, o) /\ deltas[m].upd[o] = book[o]
    BY <1>2, <1>8 DEF BookIsLast, matcher, tables
  <2>1. rows[o] = None => o \notin userOrders'
    BY <1>3 DEF IsOpen, OpenStatus, None
  <2> QED
    BY <2>1 DEF WriterInv, BookIsLast
<1>10. RowsFollow'
  BY <1>2, <1>8 DEF WriterInv, RowsFollow, matcher, tables
<1>11. RedisFollows'
  <2> SUFFICES ASSUME NEW o \in Orders, NEW n \in applied, Final(n, o)
               PROVE  /\ o \in userOrders' <=> IsOpen(book[o])
                      /\ IsOpen(book[o]) => info'[o].st = book[o].st /\ info'[o].rem = book[o].rem
    BY <1>2, <1>3, <1>8 DEF RedisFollows, matcher
  <2>1. rows[o].st = book[o].st /\ rows[o].rem = book[o].rem
    BY DEF WriterInv, RowsFollow
  <2>2. IsOpen(rows[o]) <=> IsOpen(book[o])
    BY <2>1 DEF IsOpen
  <2> QED
    BY <1>3, <2>1, <2>2
<1>12. Committed(applied)' = Committed(applied) /\ Committed(synced)' = Committed(applied)
  BY <1>2, <1>3 DEF Committed, TradesOf, matcher, tables
<1>13. trades = Committed(applied) /\ trades' = trades
  BY <1>1, <1>2 DEF TradesFollow, tables
<1>14. TradesFollow'
  BY <1>1, <1>3, <1>12, <1>13 DEF TradesFollow
<1>15. RecentFollows'
  BY <1>2, <1>4, <1>12, <1>13 DEF RecentFollows, ExecutedAt, matcher
<1>16. DepthFollows'
  <2>1. depth' = [s \in Sides |-> Volume(rows', s)]
    <3>1. rows' = rows
      BY <1>2 DEF tables
    <3> QED
      BY <1>3, <3>1
  <2> QED
    BY <2>1, Zenon DEF DepthFollows
<1> QED
  BY <1>6, <1>7, <1>8, <1>9, <1>10, <1>11, <1>14, <1>15, <1>16 DEF WriterInv

-----------------------------------------------------------------------------
(* The theorems *)

\* Every step keeps the invariant.
LEMMA WriterStep == ASSUME WriterInv, [Next]_vars PROVE WriterInv'
<1>1. ASSUME NEW o \in Orders,
             PlaceOrder(o, "limit") \/ PlaceOrder(o, "market") \/ RejectOrder(o) \/ CancelOrder(o)
      PROVE  WriterInv'
  <2>1. TypeOK
    BY DEF WriterInv
  <2>2. PICK upd, qty, fills : Publishable(upd, qty, fills) /\ PublishBatch(upd, qty, fills)
    BY <1>1, <2>1, MatcherPublishes, Zenon
  <2> QED
    BY <2>2, PublishKeeps, Zenon
<1>2. ASSUME NEW n \in 1..MaxBatches, HandleDelta(n) PROVE WriterInv'
  BY <1>2, HandleKeeps
<1> QED
  BY <1>1, <1>2, ReleasedKeeps, FinishKeeps, CrashKeeps, StartKeeps, CatchUpKeeps, Zenon DEF Next

\* The invariant of the writer holds in every state: what the tables and Redis have of an order is what
\* the last delta about it says as soon as that delta is committed, or written to Redis, through
\* failed transactions, redeliveries, crashes, rebuilds and released events that come early.
THEOREM WriterInvHolds == Spec => []WriterInv
<1>1. WriterInv /\ [Next]_vars => WriterInv'
  BY WriterStep
<1> QED
  BY <1>1, InitWriter, PTL DEF Spec

\* Once every delta is acknowledged and none was passed over, the rows and the trades are what the
\* matcher did (handleMessage, handleOrderReleasedMessage).
THEOREM RowsCaughtUpHolds == Spec => []RowsCaughtUp
<1>1. ASSUME WriterInv PROVE RowsCaughtUp
  <2> SUFFICES ASSUME CaughtUp, Skipped = {}
               PROVE  /\ \A o \in Orders : rows[o].st = book[o].st /\ rows[o].rem = book[o].rem
                      /\ trades = UNION {Range(TradesOf(n)) : n \in DOMAIN deltas}
    BY DEF RowsCaughtUp
  <2>1. DOMAIN deltas = 1..Len(deltas) /\ applied \subseteq DOMAIN deltas
    BY <1>1, Positions DEF WriterInv
  <2>2. 1..Len(deltas) \subseteq applied
    BY DEF CaughtUp, Skipped
  <2>3. applied = DOMAIN deltas
    BY <2>1, <2>2
  <2> QED
    BY <1>1, <2>2, <2>3, AllApplied DEF WriterInv, TradesFollow, Committed
<1> QED
  BY <1>1, WriterInvHolds, PTL

\* Redis never shows a trade twice or one that is not committed, shows one of the last second when it
\* has every committed delta, and agrees with the tables once the writer has caught up
\* (updateRedisReadModels, the rebuild at the start).
THEOREM RedisSoundHolds == Spec => []RedisSound
<1>1. ASSUME WriterInv PROVE RedisSound
  <2>1. TypeOK /\ DeltasShaped /\ TradesFollow /\ RecentFollows
    BY <1>1 DEF WriterInv
  <2>2. DOMAIN deltas = 1..Len(deltas) /\ Len(deltas) \in Nat
        /\ applied \subseteq DOMAIN deltas /\ synced \subseteq applied
    BY <2>1, Positions
  <2>3. RecentSound
    <3>1. Committed(synced) \subseteq Committed(applied)
      BY <2>2 DEF Committed
    <3>2. IsInjective(recent) /\ Range(recent) \subseteq trades
      BY <2>1, <3>1 DEF TradesFollow, RecentFollows
    <3>3. synced = applied => trades = Committed(synced)
      BY <2>1 DEF TradesFollow
    <3> QED
      BY <2>1, <3>2, <3>3 DEF RecentSound, RecentFollows
  <2>4. RedisCaughtUp
    <3> SUFFICES ASSUME CaughtUp, Skipped = {}, synced = applied
                 PROVE  /\ depth = [s \in Sides |-> Volume(rows, s)]
                        /\ userOrders = {o \in Orders : IsOpen(rows[o])}
                        /\ \A o \in userOrders : info[o].st = rows[o].st /\ info[o].rem = rows[o].rem
                        /\ history = {PointOf(t) : t \in trades}
      BY DEF RedisCaughtUp
    <3>1. 1..Len(deltas) \subseteq applied
      BY DEF CaughtUp, Skipped
    <3>2. deltas = <<>> \/ Len(deltas) \in synced
      <4>1. Len(deltas) = 0 => deltas = <<>>
        BY <2>1 DEF DeltasShaped
      <4>2. Len(deltas) # 0 => Len(deltas) \in 1..Len(deltas)
        BY <2>2
      <4> QED
        BY <3>1, <4>1, <4>2
    <3>3. depth = [s \in Sides |-> Volume(rows, s)]
      BY <1>1, <3>1, <3>2 DEF WriterInv, DepthFollows
    <3>4. \A o \in Orders : rows[o].st = book[o].st /\ rows[o].rem = book[o].rem
      BY <1>1, <3>1, AllApplied
    <3>5. \A o \in Orders : IsOpen(rows[o]) <=> IsOpen(book[o])
      BY <3>4 DEF IsOpen
    <3>6. ASSUME NEW o \in Orders
          PROVE  /\ o \in userOrders <=> IsOpen(rows[o])
                 /\ o \in userOrders => info[o].st = rows[o].st /\ info[o].rem = rows[o].rem
      <4>1. CASE rows[o] = None /\ o \notin userOrders
        BY <4>1 DEF IsOpen, OpenStatus, None
      <4>2. CASE \E n \in DOMAIN deltas : Final(n, o)
        <5>1. PICK n \in synced : Final(n, o)
          BY <2>2, <3>1, <4>2
        <5>2. /\ o \in userOrders <=> IsOpen(book[o])
              /\ IsOpen(book[o]) => info[o].st = book[o].st /\ info[o].rem = book[o].rem
          BY <1>1, <5>1 DEF WriterInv, RedisFollows
        <5> QED
          BY <3>4, <3>5, <5>2
      <4> QED
        BY <1>1, <4>1, <4>2 DEF WriterInv, BookIsLast
    <3>7. userOrders \subseteq Orders
      BY <2>1 DEF TypeOK
    <3>8. history = {PointOf(t) : t \in trades}
      BY <2>1 DEF TradesFollow
    <3> QED
      BY <3>3, <3>6, <3>7, <3>8
  <2> QED
    BY <2>1, <2>3, <2>4 DEF RedisSound
<1> QED
  BY <1>1, WriterInvHolds, PTL

-----------------------------------------------------------------------------
(* Pusher: chosen parts of sequences *)

\* The places in I before i.
Below(I, i) == {j \in I : j < i}

\* The k-th place in I.
Place(I, k) == CHOOSE i \in I : Cardinality(Below(I, i)) = k - 1

\* A set of places is finite.
LEMMA PlacesFinite ==
    ASSUME NEW n \in Nat, NEW I \in SUBSET (1..n)
    PROVE  IsFiniteSet(I) /\ Cardinality(I) \in Nat
<1>1. IsFiniteSet(1..n)
  BY FS_Interval
<1>2. IsFiniteSet(I)
  BY <1>1, FS_Subset
<1> QED
  BY <1>2, FS_CardinalityType

\* A set of places has a k-th one, for every k up to its size.
LEMMA PlaceExists ==
    ASSUME NEW n \in Nat, NEW I \in SUBSET (1..n), NEW k \in 1..Cardinality(I)
    PROVE  Place(I, k) \in I /\ Cardinality(Below(I, Place(I, k))) = k - 1
<1>1. IsFiniteSet(I) /\ Cardinality(I) \in Nat
  BY PlacesFinite
<1>2. \A i \in Int : IsFiniteSet(Below(I, i)) /\ Cardinality(Below(I, i)) \in Nat
  <2> TAKE i \in Int
  <2>1. Below(I, i) \in SUBSET (1..n)
    BY DEF Below
  <2> QED
    BY <2>1, PlacesFinite
<1>0. \A i \in I : i \in Int /\ 1 <= i /\ i <= n
  OBVIOUS
<1> DEFINE T == {i \in 1..(n + 1) : Cardinality(Below(I, i)) >= k}
           f == [i \in T |-> 0 - i]
<1>3. Cardinality(Below(I, 1)) = 0 /\ Cardinality(Below(I, n + 1)) = Cardinality(I)
  <2>1. Below(I, 1) = {} /\ Below(I, n + 1) = I
    <3>1. \A i \in I : i < n + 1 /\ ~(i < 1)
      BY <1>0
    <3> QED
      BY <3>1 DEF Below
  <2>2. Cardinality(Below(I, 1)) = 0
    BY <2>1, FS_EmptySet
  <2> QED
    BY <2>1, <2>2
<1>4. n + 1 \in T
  BY <1>1, <1>3
<1>5. PICK m \in T : \A x \in T : f[m] >= f[x]
  <2>1. T \in SUBSET (1..(n + 1)) /\ T # {} /\ \A x \in T : f[x] \in Int
    BY <1>4
  <2>2. n + 1 \in Nat
    OBVIOUS
  <2> HIDE DEF T, f
  <2>3. IsFiniteSet(T)
    BY <2>1, <2>2, PlacesFinite
  <2> QED
    BY <2>1, <2>3, GreatestExists
<1>6. m \in 1..(n + 1) /\ Cardinality(Below(I, m)) >= k /\ m # 1
  BY <1>3
<1>7. m - 1 \in 1..n /\ ~(Cardinality(Below(I, m - 1)) >= k)
  <2>1. m - 1 \in 1..n
    BY <1>6
  <2>2. f[m] = 0 - m /\ (m - 1 \in T => f[m - 1] = 0 - (m - 1))
    BY <1>5
  <2>3. m - 1 \notin T
    BY <1>5, <2>1, <2>2
  <2> QED
    BY <2>1, <2>3
<1>8. CASE m - 1 \in I
  <2>1. Below(I, m) = Below(I, m - 1) \cup {m - 1} /\ m - 1 \notin Below(I, m - 1)
    <3>1. \A i \in I : (i < m <=> i < m - 1 \/ i = m - 1)
      BY <1>0, <1>6
    <3>2. ~(m - 1 < m - 1) /\ m - 1 < m
      BY <1>6
    <3> QED
      BY <1>8, <3>1, <3>2 DEF Below
  <2> DEFINE B == Below(I, m - 1)
  <2>4. IsFiniteSet(B)
    BY <1>2, <1>7
  <2> HIDE DEF B
  <2>5. Cardinality(B \cup {m - 1}) = IF m - 1 \in B THEN Cardinality(B) ELSE Cardinality(B) + 1
    BY <2>4, FS_AddElement
  <2>2. Cardinality(Below(I, m)) = Cardinality(Below(I, m - 1)) + 1
    BY <2>1, <2>5 DEF B
  <2>3. Cardinality(Below(I, m - 1)) = k - 1
    BY <1>2, <1>6, <1>7, <2>2
  <2> QED
    BY <1>8, <2>3 DEF Place
<1>9. CASE m - 1 \notin I
  <2>1. Below(I, m) = Below(I, m - 1)
    <3>1. \A i \in I : (i < m <=> i < m - 1)
      BY <1>0, <1>6, <1>9
    <3> QED
      BY <3>1 DEF Below
  <2> QED
    BY <1>6, <1>7, <2>1
<1> QED
  BY <1>8, <1>9

\* What Chosen takes from a sequence.
LEMMA ChosenAt ==
    ASSUME NEW S, NEW s \in Seq(S), NEW I \in SUBSET DOMAIN s
    PROVE  /\ Chosen(s, I) \in Seq(S) /\ Len(Chosen(s, I)) = Cardinality(I) /\ Cardinality(I) \in Nat
           /\ DOMAIN Chosen(s, I) = 1..Cardinality(I)
           /\ \A k \in 1..Cardinality(I) :
                 /\ Place(I, k) \in I /\ Chosen(s, I)[k] = s[Place(I, k)]
                 /\ Cardinality(Below(I, Place(I, k))) = k - 1
<1>1. Len(s) \in Nat /\ I \in SUBSET (1..Len(s))
  OBVIOUS
<1>2. Cardinality(I) \in Nat
  BY <1>1, PlacesFinite
<1>3. \A k \in 1..Cardinality(I) : Place(I, k) \in I /\ Cardinality(Below(I, Place(I, k))) = k - 1
  BY <1>1, PlaceExists
<1>4. Chosen(s, I) = [k \in 1..Cardinality(I) |-> s[Place(I, k)]]
  BY DEF Chosen, Place, Below
<1>5. \A k \in 1..Cardinality(I) : s[Place(I, k)] \in S
  BY <1>1, <1>3
<1> HIDE DEF Place
<1>6. Chosen(s, I) \in [1..Cardinality(I) -> S]
  BY <1>4, <1>5
<1>7. Chosen(s, I) \in Seq(S) /\ Len(Chosen(s, I)) = Cardinality(I)
  BY <1>2, <1>6
<1> QED
  BY <1>2, <1>3, <1>4, <1>7

\* What is left of the trades without n is there once, if the trades were, and n is not.
LEMMA WithoutOnce ==
    ASSUME NEW S, NEW s \in Seq(S), NEW n
    PROVE  /\ Without(s, n) \in Seq(S)
           /\ \A k \in DOMAIN Without(s, n) : Without(s, n)[k] # n
           /\ IsInjective(s) => IsInjective(Without(s, n))
<1> DEFINE I == {i \in DOMAIN s : s[i] # n}
<1>1. I \in SUBSET DOMAIN s /\ Without(s, n) = Chosen(s, I) /\ \A i \in I : s[i] # n
  BY DEF Without
<1> HIDE DEF I
<1>2. /\ Chosen(s, I) \in Seq(S) /\ DOMAIN Chosen(s, I) = 1..Cardinality(I) /\ Cardinality(I) \in Nat
      /\ \A k \in 1..Cardinality(I) :
           /\ Place(I, k) \in I /\ Chosen(s, I)[k] = s[Place(I, k)]
           /\ Cardinality(Below(I, Place(I, k))) = k - 1
  BY <1>1, ChosenAt
<1>3. ASSUME IsInjective(s), NEW j \in 1..Cardinality(I), NEW k \in 1..Cardinality(I),
             Chosen(s, I)[j] = Chosen(s, I)[k]
      PROVE  j = k
  <2>1. Place(I, j) = Place(I, k)
    BY <1>1, <1>2, <1>3 DEF IsInjective
  <2>2. j - 1 = k - 1
    BY <1>2, <2>1
  <2> QED
    BY <2>2
<1> QED
  BY <1>1, <1>2, <1>3 DEF IsInjective

\* An end of a sequence, taken place by place.
LEMMA ChosenEnd ==
    ASSUME NEW S, NEW s \in Seq(S), NEW a \in 0..Len(s), NEW I, I = {i \in DOMAIN s : i > a}
    PROVE  /\ Chosen(s, I) \in Seq(S) /\ Len(Chosen(s, I)) = Len(s) - a
           /\ \A k \in 1..(Len(s) - a) : Chosen(s, I)[k] = s[a + k]
<1>1. I = (a + 1)..Len(s) /\ I \in SUBSET DOMAIN s /\ Len(s) \in Nat
  OBVIOUS
<1>2. Cardinality(I) = Len(s) - a
  <2>1. a + 1 \in Int /\ Len(s) \in Int
    BY <1>1
  <2>2. Cardinality((a + 1)..Len(s)) = IF a + 1 > Len(s) THEN 0 ELSE Len(s) - (a + 1) + 1
    BY <2>1, FS_Interval
  <2>3. a <= Len(s) /\ a \in Int
    BY <1>1
  <2>4. Cardinality(I) = IF a + 1 > Len(s) THEN 0 ELSE Len(s) - (a + 1) + 1
    BY <1>1, <2>2
  <2> QED
    BY <2>1, <2>3, <2>4
<1>3. /\ Chosen(s, I) \in Seq(S) /\ Len(Chosen(s, I)) = Cardinality(I)
      /\ \A k \in 1..Cardinality(I) :
           /\ Place(I, k) \in I /\ Chosen(s, I)[k] = s[Place(I, k)]
           /\ Cardinality(Below(I, Place(I, k))) = k - 1
  BY <1>1, ChosenAt
<1>4. ASSUME NEW k \in 1..(Len(s) - a) PROVE Place(I, k) = a + k
  <2> DEFINE p == Place(I, k)
  <2>1. p \in I /\ Cardinality(Below(I, p)) = k - 1
    BY <1>2, <1>3
  <2> HIDE DEF p
  <2>2. Below(I, p) = (a + 1)..(p - 1)
    BY <1>1, <2>1 DEF Below
  <2>4. a + 1 \in Int /\ p - 1 \in Int /\ p \in Int /\ p > a
    BY <1>1, <2>1
  <2>5. Cardinality((a + 1)..(p - 1)) = IF a + 1 > p - 1 THEN 0 ELSE (p - 1) - (a + 1) + 1
    BY <2>4, FS_Interval
  <2>3. Cardinality(Below(I, p)) = p - 1 - a
    BY <2>2, <2>4, <2>5
  <2> QED
    BY <1>1, <2>1, <2>3 DEF p
<1> QED
  BY <1>2, <1>3, <1>4

-----------------------------------------------------------------------------
(* Views, messages and connections *)

LEMMA Bounds == QueueSize \in Nat \ {0} /\ MaxConns \in Nat \ {0} /\ MaxEvents \in Nat
BY PusherAssumption

\* The fields of a view that was built.
LEMMA ViewParts ==
    ASSUME NEW v \in View
    PROVE  /\ v.seq \in 0..MaxEvents /\ v.depth \in [Levels -> 0..MaxEvents]
           /\ v.trades \in Seq(1..MaxEvents) /\ v.history \in Seq(1..MaxEvents)
BY DEF View

LEMMA NoViewIsView == NoView \in View /\ NoView.seq = 0 /\ NoView.trades = <<>>
BY Bounds DEF NoView, View, NoDepth

\* An event makes a view of a view, which shows every trade once if the first did.
LEMMA ApplyView ==
    ASSUME NEW v \in View, NEW n \in 1..MaxEvents, NEW seq \in 0..MaxEvents
    PROVE  /\ Apply(v, n, seq) \in View /\ Apply(v, n, seq).seq = seq
           /\ Apply(v, n, seq).depth = [l \in Levels |-> IF l \in events[n] THEN n ELSE v.depth[l]]
           /\ IsInjective(v.trades) => IsInjective(Apply(v, n, seq).trades)
<1> DEFINE d == [l \in Levels |-> IF l \in events[n] THEN n ELSE v.depth[l]]
           w == Without(v.trades, n)
           t == <<n>> \o w
           h == Append(v.history, n)
<1>1. /\ v.depth \in [Levels -> 0..MaxEvents]
      /\ v.trades \in Seq(1..MaxEvents) /\ v.history \in Seq(1..MaxEvents)
  BY ViewParts
<1>2. d \in [Levels -> 0..MaxEvents]
  BY <1>1
<1>3. w \in Seq(1..MaxEvents) /\ (\A k \in DOMAIN w : w[k] # n)
      /\ (IsInjective(v.trades) => IsInjective(w))
  BY <1>1, WithoutOnce
<1>4. h \in Seq(1..MaxEvents)
  BY <1>1
<1>5. Apply(v, n, seq) = [seq |-> seq, depth |-> d, trades |-> t, history |-> h]
  BY DEF Apply
<1> HIDE DEF d, h, w
<1>6. t \in Seq(1..MaxEvents) /\ Len(t) = Len(w) + 1 /\ t[1] = n /\ Len(w) \in Nat
      /\ (\A i \in 2..Len(t) : i - 1 \in DOMAIN w /\ t[i] = w[i - 1])
  BY <1>3
<1> HIDE DEF t
<1>7. ASSUME IsInjective(w) PROVE IsInjective(t)
  <2> SUFFICES ASSUME NEW i \in 1..Len(t), NEW j \in 1..Len(t), t[i] = t[j] PROVE i = j
    BY <1>6 DEF IsInjective
  <2>1. CASE i = 1 /\ j = 1
    BY <2>1
  <2>2. CASE i # 1 /\ j # 1
    <3>1. i - 1 \in DOMAIN w /\ j - 1 \in DOMAIN w /\ w[i - 1] = w[j - 1]
      BY <1>6, <2>2
    <3>2. i - 1 = j - 1
      BY <1>7, <3>1 DEF IsInjective
    <3> QED
      BY <3>2
  <2>3. CASE i = 1 /\ j # 1
    BY <1>3, <1>6, <2>3
  <2>4. CASE i # 1 /\ j = 1
    BY <1>3, <1>6, <2>4
  <2> QED
    BY <2>1, <2>2, <2>3, <2>4
<1>8. Apply(v, n, seq) \in View
  BY <1>2, <1>4, <1>5, <1>6 DEF View
<1> QED
  BY <1>3, <1>5, <1>7, <1>8 DEF d

LEMMA DeltaIsMessage ==
    ASSUME NEW n \in 0..MaxEvents, NEW seq \in 0..MaxEvents
    PROVE  /\ Delta(n, seq) \in Message /\ Delta(n, seq).t = "delta"
           /\ Delta(n, seq).seq = seq /\ Delta(n, seq).evt = n
BY NoViewIsView DEF Delta, Message

\* What a connection that was just registered is.
Fresh(k) ==
    /\ k \in Connection /\ k.pc = "ensure" /\ k.reg = TRUE /\ k.open = TRUE /\ k.closed = FALSE
    /\ k.boot = TRUE /\ k.pend = <<>> /\ k.batch = <<>> /\ k.send = <<>> /\ k.snap = NoView

LEMMA UnusedIsConnection ==
    /\ Unused \in Connection /\ Unused.pc = "off" /\ Unused.reg = FALSE /\ Unused.open = FALSE
    /\ Unused.closed = FALSE /\ Unused.boot = TRUE /\ Unused.pend = <<>> /\ Unused.batch = <<>>
    /\ Unused.send = <<>> /\ Unused.snap = NoView
BY NoViewIsView DEF Unused, Connection

LEMMA RegisterIsFresh == Fresh(RegisterMarket)
BY UnusedIsConnection, NoViewIsView DEF RegisterMarket, Connection, Fresh

\* Everything but the queue, and whether the socket is open, stays.
SameButQueue(j, k) ==
    /\ j.pc = k.pc /\ j.reg = k.reg /\ j.closed = k.closed /\ j.boot = k.boot
    /\ j.batch = k.batch /\ j.snap = k.snap

\* A message is put in the queue, or the socket is closed.
Enqueued(j, k, m) ==
    /\ j \in Connection /\ SameButQueue(j, k) /\ j.pend = k.pend /\ Len(j.send) <= QueueSize
    /\ \/ j.send = Append(k.send, m) /\ j.open = k.open
       \/ j.send = k.send /\ j.open = FALSE /\ ~(Len(k.send) < QueueSize)

LEMMA EnqueueRawEffect ==
    ASSUME NEW k \in Connection, NEW m \in Message, Len(k.send) <= QueueSize
    PROVE  Enqueued(EnqueueRaw(k, m), k, m)
<1>1. k.send \in Seq(Message) /\ QueueSize \in Nat
  BY Bounds DEF Connection
<1>2. CASE Len(k.send) < QueueSize
  <2> DEFINE j == [k EXCEPT !.send = Append(@, m)]
  <2>1. EnqueueRaw(k, m) = j
    BY <1>2 DEF EnqueueRaw
  <2>2. Append(k.send, m) \in Seq(Message) /\ Len(Append(k.send, m)) = Len(k.send) + 1
    BY <1>1
  <2>3. j \in Connection /\ SameButQueue(j, k) /\ j.pend = k.pend /\ j.send = Append(k.send, m)
        /\ j.open = k.open
    BY <2>2 DEF Connection, SameButQueue
  <2> HIDE DEF j
  <2>4. Len(j.send) <= QueueSize
    BY <1>1, <1>2, <2>2, <2>3
  <2> QED
    BY <2>1, <2>3, <2>4 DEF Enqueued
<1>3. CASE ~(Len(k.send) < QueueSize)
  <2> DEFINE j == [k EXCEPT !.open = FALSE]
  <2>1. EnqueueRaw(k, m) = j
    BY <1>3 DEF EnqueueRaw
  <2>2. j \in Connection /\ SameButQueue(j, k) /\ j.pend = k.pend /\ j.send = k.send
        /\ j.open = FALSE
    BY DEF Connection, SameButQueue
  <2> HIDE DEF j
  <2> QED
    BY <1>3, <2>1, <2>2 DEF Enqueued
<1> QED
  BY <1>2, <1>3

\* A delta is put behind the snapshot that is being made, or in the queue.
Offers(j, k, m) ==
    IF k.boot
    THEN /\ j \in Connection /\ SameButQueue(j, k) /\ j.send = k.send /\ j.open = k.open
         /\ j.pend = Append(k.pend, m)
    ELSE Enqueued(j, k, m)

LEMMA EnqueueMarketEffect ==
    ASSUME NEW k \in Connection, NEW m \in Message, Len(k.send) <= QueueSize
    PROVE  Offers(EnqueueMarket(k, m), k, m)
<1>1. CASE k.boot
  <2> DEFINE j == [k EXCEPT !.pend = Append(@, m)]
  <2>1. EnqueueMarket(k, m) = j
    BY <1>1 DEF EnqueueMarket
  <2>2. k.pend \in Seq(Message)
    BY DEF Connection
  <2>3. Append(k.pend, m) \in Seq(Message)
    BY <2>2
  <2>4. /\ j \in Connection /\ SameButQueue(j, k) /\ j.send = k.send /\ j.open = k.open
        /\ j.pend = Append(k.pend, m)
    BY <2>3 DEF Connection, SameButQueue
  <2> QED
    BY <1>1, <2>1, <2>4 DEF Offers
<1>2. CASE ~k.boot
  <2>1. EnqueueMarket(k, m) = EnqueueRaw(k, m)
    BY <1>2 DEF EnqueueMarket
  <2> QED
    BY <1>2, <2>1, EnqueueRawEffect DEF Offers
<1> QED
  BY <1>1, <1>2

\* finishMarketBootstrap has queued the snapshot m.
Snapped(j, k, m) ==
    /\ j \in Connection /\ j.pc = "drain" /\ j.reg = k.reg /\ j.closed = k.closed /\ j.boot = k.boot
    /\ j.batch = k.batch /\ j.snap = k.snap /\ j.pend = k.pend /\ Len(j.send) <= QueueSize
    /\ \/ j.send = Append(k.send, m) /\ j.open = k.open
       \/ j.send = k.send /\ j.open = FALSE

Snapshot(k) == [t |-> "snapshot", seq |-> k.snap.seq, evt |-> 0, view |-> k.snap]

LEMMA SnapshotIsMessage ==
    ASSUME NEW k \in Connection
    PROVE  /\ Snapshot(k) \in Message /\ Snapshot(k).t = "snapshot"
           /\ Snapshot(k).seq = k.snap.seq /\ Snapshot(k).view = k.snap
<1>1. k.snap \in View /\ k.snap.seq \in 0..MaxEvents
  BY ViewParts DEF Connection
<1> QED
  BY <1>1, Bounds DEF Snapshot, Message

LEMMA SendSnapshotEffect ==
    ASSUME NEW k \in Connection, NEW m \in Message, Len(k.send) <= QueueSize
    PROVE  Snapped([EnqueueRaw(k, m) EXCEPT !.pc = "drain"], k, m)
<1> DEFINE j == EnqueueRaw(k, m)
           i == [j EXCEPT !.pc = "drain"]
<1>1. Enqueued(j, k, m)
  BY EnqueueRawEffect
<1> HIDE DEF j
<1>2. j \in Connection
  BY <1>1 DEF Enqueued
<1>3. /\ i \in Connection /\ i.pc = "drain" /\ i.reg = j.reg /\ i.closed = j.closed /\ i.boot = j.boot
      /\ i.batch = j.batch /\ i.snap = j.snap /\ i.pend = j.pend /\ i.send = j.send /\ i.open = j.open
  BY <1>2 DEF Connection
<1> HIDE DEF i
<1>4. Snapped(i, k, m)
  BY <1>1, <1>3 DEF Enqueued, SameButQueue, Snapped
<1> QED
  BY <1>4 DEF i, j

\* It has taken what waited, b of it newer than the snapshot.
Drained(j, k, b) ==
    /\ j \in Connection /\ j.reg = k.reg /\ j.open = k.open /\ j.closed = k.closed
    /\ j.send = k.send /\ j.snap = k.snap /\ j.pend = <<>> /\ j.batch = b
    /\ IF b = <<>> THEN j.pc = "read" /\ j.boot = FALSE ELSE j.pc = "send" /\ j.boot = TRUE

LEMMA DrainEffect ==
    ASSUME NEW k \in Connection, NEW b \in Seq(Message)
    PROVE  Drained([k EXCEPT !.pend = <<>>, !.batch = b, !.boot = b # <<>>,
                             !.pc = IF b = <<>> THEN "read" ELSE "send"], k, b)
<1>1. <<>> \in Seq(Message)
  OBVIOUS
<1>2. CASE b = <<>>
  <2>1. (b # <<>>) = FALSE /\ (IF b = <<>> THEN "read" ELSE "send") = "read"
    BY <1>2
  <2>2. Drained([k EXCEPT !.pend = <<>>, !.batch = b, !.boot = FALSE, !.pc = "read"], k, b)
    BY <1>1, <1>2 DEF Connection, Drained
  <2> QED
    BY <2>1, <2>2
<1>3. CASE b # <<>>
  <2>1. (b # <<>>) = TRUE /\ (IF b = <<>> THEN "read" ELSE "send") = "send"
    BY <1>3
  <2>2. Drained([k EXCEPT !.pend = <<>>, !.batch = b, !.boot = TRUE, !.pc = "send"], k, b)
    BY <1>1, <1>3 DEF Connection, Drained
  <2> QED
    BY <2>1, <2>2
<1> QED
  BY <1>2, <1>3

\* It has queued the first of the batch.
Forwarded(j, k) ==
    /\ j \in Connection /\ j.reg = k.reg /\ j.closed = k.closed /\ j.boot = k.boot
    /\ j.snap = k.snap /\ j.pend = k.pend /\ j.batch = Tail(k.batch) /\ Len(j.send) <= QueueSize
    /\ j.pc = IF Len(k.batch) = 1 THEN "drain" ELSE "send"
    /\ \/ j.send = Append(k.send, Head(k.batch)) /\ j.open = k.open
       \/ j.send = k.send /\ j.open = FALSE

LEMMA SendPendingEffect ==
    ASSUME NEW k \in Connection, k.batch # <<>>, Len(k.send) <= QueueSize
    PROVE  Forwarded([EnqueueRaw(k, Head(k.batch)) EXCEPT
                        !.batch = Tail(k.batch), !.pc = IF Len(k.batch) = 1 THEN "drain" ELSE "send"], k)
<1> DEFINE m == Head(k.batch)
           j == EnqueueRaw(k, m)
           p == IF Len(k.batch) = 1 THEN "drain" ELSE "send"
           i == [j EXCEPT !.batch = Tail(k.batch), !.pc = p]
<1>1. k.batch \in Seq(Message)
  BY DEF Connection
<1>2. m \in Message /\ Tail(k.batch) \in Seq(Message)
  BY <1>1
<1> HIDE DEF m
<1>3. Enqueued(j, k, m)
  BY <1>2, EnqueueRawEffect
<1> HIDE DEF j
<1>4. j \in Connection
  BY <1>3 DEF Enqueued
<1>5. p \in {"drain", "send"} /\ p = IF Len(k.batch) = 1 THEN "drain" ELSE "send"
  OBVIOUS
<1> HIDE DEF p
<1>6. /\ i \in Connection /\ i.pc = p /\ i.reg = j.reg /\ i.closed = j.closed /\ i.boot = j.boot
      /\ i.batch = Tail(k.batch) /\ i.snap = j.snap /\ i.pend = j.pend /\ i.send = j.send
      /\ i.open = j.open
  BY <1>2, <1>4, <1>5 DEF Connection
<1> HIDE DEF i
<1>7. Forwarded(i, k)
  BY <1>3, <1>5, <1>6 DEF Enqueued, SameButQueue, Forwarded, m
<1> QED
  BY <1>7 DEF i, j, p, m

-----------------------------------------------------------------------------
(* Pusher: the hub *)

HubType ==
    /\ events \in Seq(SUBSET Levels) /\ Len(events) <= MaxEvents
    /\ writer \in 0..Len(events) /\ started \in BOOLEAN
    /\ hot \in Seq(DOMAIN events) /\ lost \subseteq DOMAIN events /\ blind \subseteq lost
    /\ market \in [loaded : BOOLEAN, view : View] /\ (market.view.seq > 0 => market.loaded)
    /\ loading \in [depth : [Levels -> 0..MaxEvents], at : 0..MaxEvents, held : BOOLEAN]
    /\ step \in {"idle", "copy", "cast"} /\ panicked \in BOOLEAN

\* The hot events the hub has not applied yet.
Waiting == {hot[i] : i \in (IF step = "idle" THEN 1 ELSE 2)..Len(hot)}

\* Hot events come in the order of their numbers, each later than the number the hub has given last.
HotOrdered ==
    /\ step # "idle" => hot # <<>> /\ market.loaded
    /\ \A i, j \in DOMAIN hot : i < j => hot[i] < hot[j]
    /\ \A n \in Waiting : n > market.view.seq
    /\ market.view.seq <= Len(events)

\* What the holder of loadMu has read is a state of the read models, and until the load every event
\* waits or was lost.
LoadSound ==
    /\ loading.held =>
         ~market.loaded /\ loading.at <= writer /\ loading.depth = DepthAt(loading.at)
    /\ ~market.loaded => \A n \in DOMAIN events : n \in blind \/ n \in Waiting

\* n is the last event that sets level l, or 0 when none does.
IsLast(n, l) ==
    /\ n \in {0} \cup DOMAIN events /\ (n # 0 => l \in events[n])
    /\ \A m \in DOMAIN events : m > n => l \notin events[m]

\* A level of the hub is right, unless its last event is still to come, or was lost.
DepthTracks ==
    market.loaded =>
      \A l \in Levels, n \in 0..Len(events) : IsLast(n, l) =>
         \/ n \in blind \cup Waiting
         \/ market.view.depth[l] = n /\ \A m \in Waiting : l \notin events[m]

HubInv == HubType /\ HotOrdered /\ LoadSound /\ DepthTracks

\* A level of the depth after n events is the last of them that sets it.
LEMMA DepthAtLast ==
    ASSUME HubType, NEW n \in 0..Len(events), NEW l \in Levels
    PROVE  LET d == DepthAt(n)[l] IN
           /\ d \in 0..n /\ (d # 0 => l \in events[d])
           /\ \A m \in 1..n : m > d => l \notin events[m]
<1> DEFINE S == {0} \cup {i \in 1..n : l \in events[i]}
           f == [x \in S |-> x]
<1>1. S \in SUBSET (0..n) /\ 0 \in S /\ n \in Nat
  BY DEF HubType
<1>2. IsFiniteSet(S)
  <2>1. IsFiniteSet(0..n)
    BY <1>1, FS_Interval
  <2> QED
    BY <1>1, <2>1, FS_Subset
<1>3. PICK m \in S : \A x \in S : f[m] >= f[x]
  <2>1. S # {} /\ \A x \in S : f[x] \in Int
    BY <1>1
  <2> HIDE DEF S, f
  <2> QED
    BY <1>2, <2>1, GreatestExists
<1>4. m \in S /\ \A x \in S : m >= x
  BY <1>3
<1>5. DepthAt(n)[l] = Max(S)
  BY DEF DepthAt
<1>6. Max(S) \in S /\ \A x \in S : Max(S) >= x
  <2> HIDE DEF S
  <2> QED
    BY <1>4 DEF Max
<1> DEFINE d == DepthAt(n)[l]
<1>7. d \in S /\ \A x \in S : d >= x
  BY <1>5, <1>6
<1> HIDE DEF d
<1>8. d \in 0..n /\ (d # 0 => l \in events[d])
  BY <1>1, <1>7
<1>9. ASSUME NEW k \in 1..n, k > d, l \in events[k] PROVE FALSE
  <2>1. k \in S
    BY <1>9
  <2> HIDE DEF S
  <2> QED
    BY <1>1, <1>7, <1>8, <1>9, <2>1
<1> QED
  BY <1>8, <1>9 DEF d

LEMMA DepthAtIsLast ==
    ASSUME HubType, NEW l \in Levels
    PROVE  DepthAt(Len(events))[l] \in Nat /\ IsLast(DepthAt(Len(events))[l], l)
<1>1. Len(events) \in 0..Len(events) /\ DOMAIN events = 1..Len(events)
  BY DEF HubType
<1> QED
  BY <1>1, DepthAtLast DEF IsLast

LEMMA DepthAtType ==
    ASSUME HubType, NEW n \in 0..Len(events)
    PROVE  DepthAt(n) \in [Levels -> 0..MaxEvents]
<1>1. \A l \in Levels : DepthAt(n)[l] \in 0..MaxEvents
  <2> TAKE l \in Levels
  <2>1. DepthAt(n)[l] \in 0..n
    BY DepthAtLast
  <2>2. n \in Nat /\ n <= MaxEvents /\ MaxEvents \in Nat
    BY Bounds DEF HubType
  <2> QED
    BY <2>1, <2>2
<1>2. DepthAt(n) = [l \in Levels |-> DepthAt(n)[l]]
  BY DEF DepthAt
<1> QED
  BY <1>1, <1>2

\* Two last events of a level are one.
LEMMA LastUnique ==
    ASSUME HubType, NEW l, NEW n, NEW m, IsLast(n, l), IsLast(m, l)
    PROVE  n = m
<1>1. DOMAIN events = 1..Len(events) /\ Len(events) \in Nat
  BY DEF HubType
<1> QED
  BY <1>1 DEF IsLast

LEMMA HotFacts ==
    ASSUME HubType
    PROVE  /\ DOMAIN events = 1..Len(events) /\ Len(events) \in Nat /\ MaxEvents \in Nat
           /\ DOMAIN hot = 1..Len(hot) /\ Len(hot) \in Nat
           /\ \A i \in DOMAIN hot : hot[i] \in Nat /\ hot[i] \in DOMAIN events
           /\ market.view \in View /\ market.view.seq \in Nat /\ market.loaded \in BOOLEAN
           /\ Waiting \subseteq DOMAIN events
           /\ \A n : n \in Waiting <=> \E i \in DOMAIN hot : n = hot[i] /\ (i = 1 => step = "idle")
<1>1. Len(events) \in Nat /\ DOMAIN events = 1..Len(events) /\ MaxEvents \in Nat
      /\ Len(hot) \in Nat /\ DOMAIN hot = 1..Len(hot)
      /\ \A i \in DOMAIN hot : hot[i] \in DOMAIN events
  BY Bounds DEF HubType
<1>2. market.view \in View /\ market.loaded \in BOOLEAN
  BY DEF HubType
<1>3. market.view.seq \in Nat
  BY <1>1, <1>2, ViewParts
<1>4. \A n : n \in Waiting <=> \E i \in DOMAIN hot : n = hot[i] /\ (i = 1 => step = "idle")
  <2>1. CASE step = "idle"
    BY <1>1, <2>1 DEF Waiting
  <2>2. CASE step # "idle"
    <3>1. Waiting = {hot[i] : i \in 2..Len(hot)}
      BY <2>2 DEF Waiting
    <3>2. \A i : i \in 2..Len(hot) <=> i \in DOMAIN hot /\ i # 1
      BY <1>1
    <3> QED
      BY <2>2, <3>1, <3>2
  <2> QED
    BY <2>1, <2>2
<1> QED
  BY <1>1, <1>2, <1>3, <1>4

\* Actions that leave the hub alone.
LEMMA HubStays ==
    ASSUME HubInv, UNCHANGED <<events, writer, hot, lost, blind, market, loading, step>>,
           started' \in BOOLEAN, panicked' \in BOOLEAN
    PROVE  HubInv'
<1>1. HubType' /\ HotOrdered' /\ DepthTracks' /\ Waiting' = Waiting
  BY DEF HubInv, HubType, HotOrdered, DepthTracks, Waiting, IsLast
<1>2. LoadSound'
  BY <1>1 DEF HubInv, LoadSound, DepthAt
<1> QED
  BY <1>1, <1>2 DEF HubInv

LEMMA PublishHub == ASSUME HubInv, PublishMarketDelta PROVE HubInv'
<1>1. /\ HubType /\ HotOrdered /\ LoadSound /\ DepthTracks
      /\ Len(events) < MaxEvents
      /\ UNCHANGED <<writer, started, step, market, loading, panicked>>
  BY DEF HubInv, PublishMarketDelta
<1>2. PICK s \in SUBSET Levels : events' = Append(events, s)
  BY DEF PublishMarketDelta
<1> DEFINE n == Len(events) + 1
<1>3. \/ hot' = Append(hot, n) /\ UNCHANGED <<lost, blind>>
      \/ lost' = lost \cup {n} /\ blind' = blind \cup {n} /\ UNCHANGED hot
  BY DEF PublishMarketDelta
<1>4. /\ DOMAIN events = 1..Len(events) /\ Len(events) \in Nat /\ MaxEvents \in Nat
      /\ DOMAIN hot = 1..Len(hot) /\ Len(hot) \in Nat
      /\ \A i \in DOMAIN hot : hot[i] \in Nat /\ hot[i] \in DOMAIN events
      /\ market.view.seq \in Nat /\ market.loaded \in BOOLEAN
      /\ Waiting \subseteq DOMAIN events
      /\ \A k : k \in Waiting <=> \E i \in DOMAIN hot : k = hot[i] /\ (i = 1 => step = "idle")
  BY <1>1, HotFacts
<1>5. /\ events' \in Seq(SUBSET Levels) /\ Len(events') = n /\ DOMAIN events' = 1..n
      /\ n \in Nat /\ n \notin DOMAIN events /\ n \in DOMAIN events' /\ n <= MaxEvents
      /\ events'[n] = s /\ (\A k \in DOMAIN events : k \in DOMAIN events' /\ events'[k] = events[k])
      /\ \A k \in DOMAIN events' : k \in DOMAIN events \/ k = n
  BY <1>1, <1>2, <1>4 DEF HubType
<1>6. blind \subseteq blind' /\ lost \subseteq lost' /\ blind' \subseteq lost' /\ lost' \subseteq DOMAIN events'
  BY <1>1, <1>3, <1>5 DEF HubType
<1>7. /\ hot' \in Seq(DOMAIN events')
      /\ \A k \in Waiting : k \in Waiting'
      /\ \A k \in Waiting' : k \in Waiting \/ (k = n /\ hot' = Append(hot, n))
      /\ n \in Waiting' \/ n \in blind'
      /\ (\A i, j \in DOMAIN hot' : i < j => hot'[i] < hot'[j])
      /\ (hot # <<>> => hot' # <<>>)
  <2>1. hot \in Seq(DOMAIN events')
    <3>1. DOMAIN events \subseteq DOMAIN events'
      BY <1>5
    <3> QED
      BY <1>1, <3>1 DEF HubType
  <2>2. CASE hot' = Append(hot, n)
    <3>1. /\ hot' \in Seq(DOMAIN events') /\ Len(hot') = Len(hot) + 1 /\ DOMAIN hot' = 1..(Len(hot) + 1)
          /\ hot'[Len(hot) + 1] = n /\ (\A i \in DOMAIN hot : hot'[i] = hot[i])
      BY <1>4, <1>5, <2>1, <2>2
    <3>2. Waiting' = {hot'[i] : i \in (IF step = "idle" THEN 1 ELSE 2)..Len(hot')}
      BY <1>1 DEF Waiting
    <3>3. step # "idle" => Len(hot) >= 1
      BY <1>1, <1>4 DEF HotOrdered
    <3>4. \A k : k \in Waiting' <=> k \in Waiting \/ k = n
      <4>1. CASE step = "idle"
        <5>1. \A k : k \in Waiting' <=> \E i \in 1..(Len(hot) + 1) : k = hot'[i]
          BY <3>1, <3>2, <4>1
        <5>2. \A k : k \in Waiting <=> \E i \in 1..Len(hot) : k = hot[i]
          BY <1>4, <4>1
        <5>3. \A i \in 1..(Len(hot) + 1) : i \in 1..Len(hot) \/ i = Len(hot) + 1
          BY <1>4
        <5>4. \A i \in 1..Len(hot) : i \in 1..(Len(hot) + 1) /\ hot'[i] = hot[i]
          BY <1>4, <3>1
        <5>5. Len(hot) + 1 \in 1..(Len(hot) + 1)
          BY <1>4
        <5> QED
          BY <3>1, <5>1, <5>2, <5>3, <5>4, <5>5
      <4>2. CASE step # "idle"
        <5>1. \A k : k \in Waiting' <=> \E i \in 2..(Len(hot) + 1) : k = hot'[i]
          BY <3>1, <3>2, <4>2
        <5>2. \A k : k \in Waiting <=> \E i \in 2..Len(hot) : k = hot[i]
          BY <4>2 DEF Waiting
        <5>3. \A i \in 2..(Len(hot) + 1) : i \in 2..Len(hot) \/ i = Len(hot) + 1
          BY <1>4
        <5>4. \A i \in 2..Len(hot) : i \in 2..(Len(hot) + 1) /\ hot'[i] = hot[i]
          BY <1>4, <3>1
        <5>5. Len(hot) + 1 \in 2..(Len(hot) + 1)
          BY <1>4, <3>3, <4>2
        <5> QED
          BY <3>1, <5>1, <5>2, <5>3, <5>4, <5>5
      <4> QED
        BY <4>1, <4>2
    <3>5. \A i, j \in DOMAIN hot' : i < j => hot'[i] < hot'[j]
      <4> TAKE i, j \in DOMAIN hot'
      <4> HAVE i < j
      <4>1. i \in DOMAIN hot /\ (j \in DOMAIN hot \/ j = Len(hot) + 1)
        BY <1>4, <3>1
      <4> QED
        BY <1>1, <1>4, <3>1, <4>1 DEF HotOrdered
    <3> QED
      BY <1>4, <2>2, <3>1, <3>4, <3>5
  <2>3. CASE UNCHANGED hot /\ n \in blind'
    BY <1>1, <2>1, <2>3 DEF HotOrdered, Waiting
  <2> QED
    BY <1>3, <2>2, <2>3
<1>8. HubType'
  BY <1>1, <1>5, <1>6, <1>7 DEF HubType
<1>9. HotOrdered'
  <2>1. \A k \in Waiting' : k > market.view.seq
    BY <1>1, <1>4, <1>5, <1>7 DEF HotOrdered
  <2>2. market.view.seq <= n
    BY <1>1, <1>4 DEF HotOrdered
  <2> QED
    BY <1>1, <1>5, <1>7, <2>1, <2>2 DEF HotOrdered
<1>10. LoadSound'
  <2>1. loading.held => DepthAt(loading.at)' = DepthAt(loading.at)
    <3> SUFFICES ASSUME loading.held PROVE DepthAt(loading.at)' = DepthAt(loading.at)
      OBVIOUS
    <3>1. loading.at \in Nat /\ loading.at <= Len(events) /\ loading' = loading
      BY <1>1, <1>4 DEF LoadSound, HubType
    <3>2. \A i \in 1..loading.at : events'[i] = events[i]
      BY <1>4, <1>5, <3>1
    <3>3. \A l \in Levels : {i \in 1..loading.at : l \in events'[i]} = {i \in 1..loading.at : l \in events[i]}
      BY <3>2
    <3> QED
      BY <3>1, <3>3 DEF DepthAt
  <2>2. ~market.loaded => \A k \in DOMAIN events' : k \in blind' \/ k \in Waiting'
    BY <1>1, <1>5, <1>6, <1>7 DEF LoadSound
  <2> QED
    BY <1>1, <2>1, <2>2 DEF LoadSound
<1>11. DepthTracks'
  <2> SUFFICES ASSUME market.loaded, NEW l \in Levels, NEW k \in 0..n, IsLast(k, l)'
               PROVE  \/ k \in blind' \cup Waiting'
                      \/ market.view.depth[l] = k /\ \A m \in Waiting' : l \notin events'[m]
    BY <1>1, <1>5 DEF DepthTracks
  <2>1. CASE k = n
    BY <1>7, <2>1
  <2>2. CASE k # n
    <3>1. k \in 0..Len(events) /\ l \notin s
      BY <1>4, <1>5, <2>2 DEF IsLast
    <3>2. IsLast(k, l)
      BY <1>4, <1>5, <2>2 DEF IsLast
    <3>3. \/ k \in blind \cup Waiting
          \/ market.view.depth[l] = k /\ \A m \in Waiting : l \notin events[m]
      BY <1>1, <3>1, <3>2 DEF DepthTracks
    <3> QED
      BY <1>4, <1>5, <1>6, <1>7, <3>1, <3>3
  <2> QED
    BY <2>1, <2>2
<1> QED
  BY <1>8, <1>9, <1>10, <1>11 DEF HubInv

LEMMA LoadOrderbookHub == ASSUME HubInv, NEW w, LoadOrderbook(w) PROVE HubInv'
<1>1. /\ HubType /\ HotOrdered /\ LoadSound /\ DepthTracks /\ ~market.loaded
      /\ UNCHANGED <<events, writer, started, hot, lost, blind, market, step, panicked>>
  BY DEF HubInv, LoadOrderbook, MayLoad, NeedsLoad, upstream, handler
<1>2. writer \in 0..Len(events) /\ Len(events) \in Nat /\ Len(events) <= MaxEvents /\ MaxEvents \in Nat
  BY <1>1, Bounds DEF HubType
<1> PICK n \in {0, writer} : loading' = [depth |-> DepthAt(n), at |-> n, held |-> TRUE]
  BY DEF LoadOrderbook
<1>3. n \in 0..writer /\ n \in 0..Len(events) /\ n \in 0..MaxEvents
      /\ DepthAt(n) \in [Levels -> 0..MaxEvents]
  BY <1>1, <1>2, DepthAtType
<1>4. DepthAt(n)' = DepthAt(n) /\ Waiting' = Waiting
  BY <1>1 DEF DepthAt, Waiting
<1>5. loading' \in [depth : [Levels -> 0..MaxEvents], at : 0..MaxEvents, held : BOOLEAN]
      /\ loading'.at = n /\ loading'.depth = DepthAt(n)
  <2> HIDE DEF DepthAt
  <2> QED
    BY <1>3
<1>6. HubType'
  BY <1>1, <1>5 DEF HubType
<1>7. HotOrdered' /\ DepthTracks'
  BY <1>1, <1>4 DEF HotOrdered, DepthTracks, IsLast
<1>8. LoadSound'
  BY <1>1, <1>2, <1>3, <1>4, <1>5 DEF LoadSound, DepthAt
<1> QED
  BY <1>6, <1>7, <1>8 DEF HubInv

LEMMA ListIsSeq == ASSUME NEW S, NEW n \in Nat, NEW f \in [1..n -> S] PROVE f \in Seq(S)
OBVIOUS

\* The state the load makes.
LEMMA LoadedView ==
    ASSUME HubInv, LoadTrades
    PROVE  /\ market' \in [loaded : BOOLEAN, view : View] /\ market'.loaded = TRUE
           /\ market'.view.seq = market.view.seq /\ market.view.seq = 0
           /\ market'.view.depth = loading.depth /\ IsInjective(market'.view.trades)
           /\ ~market.loaded /\ step = "idle"
<1>1. /\ HubType /\ loading.held /\ ~market.loaded /\ step = "idle"
      /\ market.view.seq \in Nat /\ market.view \in View
  BY HotFacts DEF HubInv, LoadTrades, LoadSound, HotOrdered, HubType
<1>2. market.view.seq = 0
  BY <1>1 DEF HubType
<1>3. writer \in Nat /\ writer <= MaxEvents /\ MaxEvents \in Nat /\ loading.depth \in [Levels -> 0..MaxEvents]
  BY <1>1, Bounds DEF HubType
<1> PICK j \in {0, writer}, k \in {0, writer} :
       market' = [loaded |-> TRUE,
                  view |-> [market.view EXCEPT !.depth = loading.depth,
                                               !.trades = [i \in 1..j |-> writer + 1 - i],
                                               !.history = [i \in 1..k |-> i]]]
  BY DEF LoadTrades
<1> DEFINE t == [i \in 1..j |-> writer + 1 - i]
           h == [i \in 1..k |-> i]
<1>4. t \in Seq(1..MaxEvents) /\ h \in Seq(1..MaxEvents) /\ IsInjective(t)
  <2>1. /\ j \in Nat /\ k \in Nat
        /\ \A i \in 1..j : writer + 1 - i \in 1..MaxEvents
        /\ \A i \in 1..k : i \in 1..MaxEvents
    BY <1>3
  <2>2. t \in [1..j -> 1..MaxEvents] /\ h \in [1..k -> 1..MaxEvents]
    BY <2>1
  <2>3. IsInjective(t)
    BY <1>3, <2>1 DEF IsInjective
  <2> QED
    BY <2>1, <2>2, <2>3, ListIsSeq
<1>5. market' = [loaded |-> TRUE,
                 view |-> [market.view EXCEPT !.depth = loading.depth, !.trades = t, !.history = h]]
  OBVIOUS
<1> HIDE DEF t, h
<1> DEFINE v == [market.view EXCEPT !.depth = loading.depth, !.trades = t, !.history = h]
<1>6. v \in View /\ v.seq = market.view.seq /\ v.depth = loading.depth /\ v.trades = t
  BY <1>1, <1>3, <1>4 DEF View
<1>7. market' = [loaded |-> TRUE, view |-> v]
  BY <1>5
<1> HIDE DEF v
<1>8. market' \in [loaded : BOOLEAN, view : View] /\ market'.loaded = TRUE /\ market'.view = v
  BY <1>6, <1>7
<1> QED
  BY <1>1, <1>2, <1>4, <1>6, <1>8

LEMMA LoadTradesHub == ASSUME HubInv, LoadTrades PROVE HubInv'
<1>1. /\ HubType /\ HotOrdered /\ LoadSound
      /\ loading.held /\ UNCHANGED <<events, writer, started, hot, lost, step, panicked>>
      /\ loading' = [depth |-> NoDepth, at |-> 0, held |-> FALSE]
      /\ blind' = {n \in blind : n > loading.at \/ \E m \in Range(hot) : m < n}
  BY DEF HubInv, LoadTrades, upstream, handler
<1>2. /\ market' \in [loaded : BOOLEAN, view : View] /\ market'.loaded = TRUE
      /\ market'.view.seq = market.view.seq /\ market.view.seq = 0
      /\ market'.view.depth = loading.depth /\ ~market.loaded /\ step = "idle"
  BY LoadedView
<1>3. /\ DOMAIN events = 1..Len(events) /\ Len(events) \in Nat /\ MaxEvents \in Nat
      /\ DOMAIN hot = 1..Len(hot) /\ Len(hot) \in Nat
      /\ Waiting \subseteq DOMAIN events
      /\ \A n : n \in Waiting <=> \E i \in DOMAIN hot : n = hot[i] /\ (i = 1 => step = "idle")
  BY <1>1, HotFacts
<1>4. Waiting = Range(hot)
  BY <1>2, <1>3 DEF Range
<1>5. loading' \in [depth : [Levels -> 0..MaxEvents], at : 0..MaxEvents, held : BOOLEAN]
      /\ loading'.held = FALSE
  BY <1>1, <1>3 DEF NoDepth
<1>6. Waiting' = Waiting
  BY <1>1 DEF Waiting
<1>7. HubType'
  BY <1>1, <1>2, <1>5 DEF HubType
<1>8. HotOrdered'
  BY <1>1, <1>2, <1>6 DEF HotOrdered
<1>9. LoadSound'
  BY <1>2, <1>5 DEF LoadSound
<1>10. DepthTracks'
  <2> SUFFICES ASSUME NEW l \in Levels, NEW n \in 0..Len(events), IsLast(n, l)
               PROVE  \/ n \in blind' \cup Waiting
                      \/ loading.depth[l] = n /\ \A m \in Waiting : l \notin events[m]
    BY <1>1, <1>2, <1>6 DEF DepthTracks, IsLast
  <2> DEFINE a == loading.at
             d == DepthAt(a)[l]
  <2>1. a \in Nat /\ a <= Len(events) /\ loading.depth[l] = d
    BY <1>1, <1>2, <1>3 DEF LoadSound, HubType
  <2>2. d \in 0..a /\ (d # 0 => l \in events[d]) /\ \A m \in 1..a : m > d => l \notin events[m]
    BY <1>1, <2>1, DepthAtLast
  <2> HIDE DEF d, a
  <2>3. n \in {0} \cup DOMAIN events /\ (n # 0 => l \in events[n])
        /\ (\A m \in DOMAIN events : m > n => l \notin events[m])
    BY DEF IsLast
  <2>4. \A m \in DOMAIN events : m \in blind \/ m \in Waiting
    BY <1>1, <1>2 DEF LoadSound
  <2>5. CASE n > a
    <3>1. n \in DOMAIN events
      BY <1>3, <2>1, <2>5
    <3>2. n \in blind => n \in blind'
      BY <1>1, <2>5 DEF a
    <3> QED
      BY <2>4, <3>1, <3>2
  <2>6. CASE ~(n > a)
    <3>1. d = n
      <4>1. d > n => FALSE
        BY <1>3, <2>1, <2>2, <2>3
      <4>2. d < n => FALSE
        BY <1>3, <2>1, <2>2, <2>3, <2>6
      <4> QED
        BY <1>3, <2>1, <2>2, <4>1, <4>2
    <3>2. ASSUME NEW m \in Waiting, l \in events[m], n \notin Waiting
          PROVE  n \in blind'
      <4>1. m \in DOMAIN events /\ ~(m > n) /\ m # n
        BY <1>3, <2>3, <3>2
      <4>2. m < n /\ n \in DOMAIN events
        BY <1>3, <4>1
      <4>3. n \in blind /\ m \in Range(hot)
        BY <1>4, <2>4, <3>2, <4>2
      <4> QED
        BY <1>1, <4>2, <4>3
    <3> QED
      BY <2>1, <3>1, <3>2
  <2> QED
    BY <2>5, <2>6
<1> QED
  BY <1>7, <1>8, <1>9, <1>10 DEF HubInv

\* The first of the waiting events, and the rest.
LEMMA HeadWaits ==
    ASSUME HubType, HotOrdered, hot # <<>>, step = "idle"
    PROVE  /\ Head(hot) \in Waiting /\ Head(hot) \in DOMAIN events /\ Head(hot) \in Nat
           /\ market.view.seq + 1 <= Head(hot) /\ Head(hot) <= MaxEvents
           /\ \A n \in Waiting : n = Head(hot) \/ (n > Head(hot) /\ \E i \in 2..Len(hot) : n = hot[i])
<1>1. /\ DOMAIN events = 1..Len(events) /\ Len(events) \in Nat /\ MaxEvents \in Nat
      /\ DOMAIN hot = 1..Len(hot) /\ Len(hot) \in Nat
      /\ \A i \in DOMAIN hot : hot[i] \in Nat /\ hot[i] \in DOMAIN events
      /\ market.view.seq \in Nat
      /\ \A n : n \in Waiting <=> \E i \in DOMAIN hot : n = hot[i] /\ (i = 1 => step = "idle")
  BY HotFacts
<1>2. 1 \in DOMAIN hot /\ Head(hot) = hot[1]
  BY <1>1 DEF HubType
<1>3. Head(hot) \in Waiting /\ Head(hot) \in DOMAIN events /\ Head(hot) \in Nat
  BY <1>1, <1>2
<1>4. market.view.seq + 1 <= Head(hot) /\ Head(hot) <= MaxEvents
  BY <1>1, <1>3 DEF HotOrdered, HubType
<1>5. ASSUME NEW n \in Waiting, n # Head(hot)
      PROVE  n > Head(hot) /\ \E i \in 2..Len(hot) : n = hot[i]
  <2>1. PICK i \in DOMAIN hot : n = hot[i]
    BY <1>1
  <2>2. i \in 2..Len(hot) /\ 1 < i
    BY <1>1, <1>2, <1>5, <2>1
  <2>3. hot[1] < hot[i] /\ hot[1] \in Nat /\ hot[i] \in Nat
    BY <1>1, <1>2, <2>2 DEF HotOrdered
  <2> QED
    BY <1>2, <2>1, <2>2, <2>3
<1> QED
  BY <1>3, <1>4, <1>5

LEMMA ApplyHub == ASSUME HubInv, ApplyMatchEvent PROVE HubInv'
<1>1. /\ HubType /\ HotOrdered /\ LoadSound /\ DepthTracks
      /\ step = "idle" /\ hot # <<>> /\ market.loaded
      /\ market' = [market EXCEPT !.view = Apply(@, Head(hot), @.seq + 1)]
      /\ step' = "copy"
      /\ UNCHANGED <<events, writer, started, hot, lost, blind, loading, panicked>>
  BY DEF HubInv, ApplyMatchEvent, upstream
<1> DEFINE h == Head(hot)
           w == Apply(market.view, h, market.view.seq + 1)
<1>2. /\ h \in Waiting /\ h \in DOMAIN events /\ h \in Nat
      /\ market.view.seq + 1 <= h /\ h <= MaxEvents
      /\ \A n \in Waiting : n = h \/ (n > h /\ \E i \in 2..Len(hot) : n = hot[i])
  BY <1>1, HeadWaits
<1>3. /\ DOMAIN events = 1..Len(events) /\ Len(events) \in Nat /\ MaxEvents \in Nat
      /\ DOMAIN hot = 1..Len(hot) /\ Len(hot) \in Nat
      /\ \A i \in DOMAIN hot : hot[i] \in Nat /\ hot[i] \in DOMAIN events
      /\ market.view \in View /\ market.view.seq \in Nat /\ Waiting \subseteq DOMAIN events
      /\ \A n : n \in Waiting <=> \E i \in DOMAIN hot : n = hot[i] /\ (i = 1 => step = "idle")
  BY <1>1, HotFacts
<1>4. market.view.seq + 1 \in 0..MaxEvents /\ h \in 1..MaxEvents
  BY <1>2, <1>3
<1>5. /\ w \in View /\ w.seq = market.view.seq + 1
      /\ w.depth = [l \in Levels |-> IF l \in events[h] THEN h ELSE market.view.depth[l]]
  <2> HIDE DEF h
  <2> QED
    BY <1>3, <1>4, ApplyView
<1>6. market' = [market EXCEPT !.view = w]
  BY <1>1
<1> HIDE DEF w, h
<1>7. market \in [loaded : BOOLEAN, view : View]
  BY <1>1 DEF HubType
<1>8. market' \in [loaded : BOOLEAN, view : View] /\ market'.loaded = TRUE /\ market'.view = w
  BY <1>1, <1>5, <1>6, <1>7
<1>9. \A n : n \in Waiting' <=> n \in Waiting /\ n # h
  <2>1. Waiting' = {hot[i] : i \in 2..Len(hot)}
    BY <1>1 DEF Waiting
  <2>2. ASSUME NEW i \in 2..Len(hot) PROVE hot[i] \in Waiting /\ hot[i] # h
    <3>1. i \in DOMAIN hot /\ 1 \in DOMAIN hot /\ 1 < i /\ hot[1] = h
      BY <1>1, <1>3 DEF HubType, h
    <3>2. hot[1] < hot[i] /\ hot[1] \in Nat /\ hot[i] \in Nat
      BY <1>1, <1>3, <3>1 DEF HotOrdered
    <3> QED
      BY <1>1, <1>3, <3>1, <3>2
  <2> QED
    BY <1>2, <2>1, <2>2
<1>10. HubType'
  BY <1>1, <1>8 DEF HubType
<1>11. HotOrdered'
  <2>1. \A n \in Waiting' : n > market.view.seq + 1
    BY <1>2, <1>3, <1>9
  <2>2. market.view.seq + 1 <= Len(events)
    BY <1>2, <1>3
  <2> QED
    BY <1>1, <1>5, <1>8, <2>1, <2>2 DEF HotOrdered
<1>12. LoadSound'
  BY <1>1, <1>8 DEF LoadSound
<1>13. DepthTracks'
  <2> SUFFICES ASSUME NEW l \in Levels, NEW n \in 0..Len(events), IsLast(n, l)
               PROVE  \/ n \in blind \cup Waiting'
                      \/ w.depth[l] = n /\ \A m \in Waiting' : l \notin events[m]
    BY <1>1, <1>8 DEF DepthTracks, IsLast
  <2>1. \/ n \in blind \cup Waiting
        \/ market.view.depth[l] = n /\ \A m \in Waiting : l \notin events[m]
    BY <1>1 DEF DepthTracks
  <2>2. (\A m \in DOMAIN events : m > n => l \notin events[m]) /\ (n # 0 => l \in events[n])
    BY DEF IsLast
  <2>3. CASE n = h
    <3>1. w.depth[l] = n
      BY <1>2, <1>3, <1>5, <2>2, <2>3
    <3>2. ASSUME NEW m \in Waiting' PROVE l \notin events[m]
      BY <1>2, <1>3, <1>9, <2>2, <2>3
    <3> QED
      BY <3>1, <3>2
  <2>4. CASE n # h
    BY <1>2, <1>5, <1>9, <2>1, <2>4
  <2> QED
    BY <2>3, <2>4
<1> QED
  BY <1>10, <1>11, <1>12, <1>13 DEF HubInv

\* The event is done with, or the broadcast goes on.
LEMMA StepHub ==
    ASSUME HubInv, step # "idle", panicked' \in BOOLEAN,
           UNCHANGED <<events, writer, started, lost, blind, market, loading>>,
           \/ step' = "idle" /\ hot' = Tail(hot)
           \/ step' \in {"copy", "cast"} /\ UNCHANGED hot
    PROVE  HubInv'
<1>1. HubType /\ HotOrdered /\ LoadSound /\ DepthTracks /\ hot # <<>>
  BY DEF HubInv, HotOrdered
<1>2. Waiting' = Waiting /\ hot' \in Seq(DOMAIN events)
      /\ (\A i, j \in DOMAIN hot' : i < j => hot'[i] < hot'[j])
      /\ (step' # "idle" => hot' # <<>>) /\ step' \in {"idle", "copy", "cast"}
  <2>1. hot \in Seq(DOMAIN events) /\ (\A i, j \in DOMAIN hot : i < j => hot[i] < hot[j])
    BY <1>1 DEF HubType, HotOrdered
  <2>2. CASE step' = "idle" /\ hot' = Tail(hot)
    <3>1. /\ hot' \in Seq(DOMAIN events) /\ Len(hot') = Len(hot) - 1 /\ Len(hot) \in Nat /\ Len(hot) >= 1
          /\ DOMAIN hot' = 1..(Len(hot) - 1)
          /\ \A i \in 1..(Len(hot) - 1) : hot'[i] = hot[i + 1]
      BY <1>1, <2>1, <2>2
    <3>2. Waiting' = {hot'[i] : i \in 1..(Len(hot) - 1)} /\ Waiting = {hot[i] : i \in 2..Len(hot)}
      BY <2>2, <3>1 DEF Waiting
    <3>3. \A i \in 2..Len(hot) : i - 1 \in 1..(Len(hot) - 1) /\ hot'[i - 1] = hot[i]
      BY <3>1
    <3>4. \A i \in 1..(Len(hot) - 1) : i + 1 \in 2..Len(hot)
      BY <3>1
    <3>5. \A x : x \in Waiting' <=> x \in Waiting
      BY <3>1, <3>2, <3>3, <3>4
    <3>6. \A i, j \in DOMAIN hot' : i < j => hot'[i] < hot'[j]
      <4> TAKE i, j \in DOMAIN hot'
      <4> HAVE i < j
      <4>1. i + 1 \in DOMAIN hot /\ j + 1 \in DOMAIN hot /\ i + 1 < j + 1
        BY <2>1, <3>1
      <4>2. hot[i + 1] < hot[j + 1]
        BY <2>1, <4>1
      <4> QED
        BY <3>1, <4>2
    <3> QED
      BY <2>2, <3>1, <3>5, <3>6
  <2>3. CASE step' \in {"copy", "cast"} /\ UNCHANGED hot
    BY <1>1, <2>1, <2>3 DEF Waiting
  <2> QED
    BY <2>2, <2>3
<1>3. HubType'
  BY <1>1, <1>2 DEF HubType
<1>4. HotOrdered'
  BY <1>1, <1>2 DEF HotOrdered
<1>5. LoadSound' /\ DepthTracks'
  BY <1>1, <1>2 DEF LoadSound, DepthTracks, IsLast, DepthAt, HotOrdered
<1> QED
  BY <1>3, <1>4, <1>5 DEF HubInv

LEMMA CopyRoomHub == ASSUME HubInv, CopyRoom PROVE HubInv'
<1>1. /\ step = "copy" /\ panicked' = panicked
      /\ UNCHANGED <<events, writer, started, lost, blind, market, loading>>
      /\ \/ step' = "idle" /\ hot' = Tail(hot)
         \/ step' \in {"copy", "cast"} /\ UNCHANGED hot
  BY DEF CopyRoom, upstream
<1>2. panicked' \in BOOLEAN
  BY <1>1 DEF HubInv, HubType
<1> QED
  BY <1>1, <1>2, StepHub

LEMMA CastHub == ASSUME HubInv, NEW c \in Conns, Cast(c) PROVE HubInv'
<1>1. /\ step = "cast" /\ (panicked' = panicked \/ panicked' = TRUE)
      /\ UNCHANGED <<events, writer, started, lost, blind, market, loading>>
      /\ \/ step' = "idle" /\ hot' = Tail(hot)
         \/ step' = step /\ UNCHANGED hot
  BY DEF Cast, upstream
<1>2. panicked' \in BOOLEAN
  BY <1>1 DEF HubInv, HubType
<1> QED
  BY <1>1, <1>2, StepHub

-----------------------------------------------------------------------------
(* Pusher: the streams *)

StreamType ==
    /\ targets \subseteq Conns /\ conn \in [Conns -> Connection]
    /\ \A c \in Conns : Len(conn[c].send) <= QueueSize /\ (conn[c].closed => ~conn[c].reg)
    /\ browser \in [conn : 0..MaxConns, live : BOOLEAN, has : BOOLEAN, view : View]

\* V[s] is the view the hub had when it gave the number s.
Past(V) ==
    /\ V \in [0..MaxEvents -> View] /\ V[market.view.seq] = market.view
    /\ \A s \in 0..market.view.seq : V[s].seq = s /\ IsInjective(V[s].trades)

\* A message says what the hub did.
Says(V, m) ==
    /\ m.seq <= market.view.seq
    /\ IF m.t = "snapshot" THEN m.view = V[m.seq]
       ELSE m.evt \in DOMAIN events /\ m.seq >= 1 /\ V[m.seq] = Apply(V[m.seq - 1], m.evt, m.seq)

\* So does the delta that is being broadcast, ...
CastSays(V) ==
    step # "idle" => market.view.seq >= 1 /\ Says(V, Delta(Head(hot), market.view.seq))

\* ... everything on its way to a connection, ...
Said(V, k) ==
    /\ \A m \in Range(k.pend) \cup Range(k.batch) : m.t = "delta" /\ Says(V, m)
    /\ \A m \in Range(k.send) : Says(V, m)
    /\ k.snap.seq <= market.view.seq
    /\ k.pc \notin {"off", "ensure"} => k.snap = V[k.snap.seq]

\* ... and the browser shows one of the views.
BrowserShows(V) ==
    /\ browser.view.seq <= market.view.seq
    /\ IF browser.has THEN browser.view = V[browser.view.seq] ELSE browser.view = NoView

\* Where the goroutine of connection c is, and what it has.
Phase(c, k) ==
    /\ k.pc = "off" <=> c > browser.conn
    /\ k.pc = "off" => k = Unused
    /\ k.pc \in {"ensure", "boot"} => k.send = <<>>
    /\ k.pc = "send" <=> k.batch # <<>>
    /\ k.boot <=> k.pc \notin {"read", "gone"}
    /\ ~k.boot => k.pend = <<>>
    /\ k.pc \notin {"off", "gone"} => k.reg
    /\ k.open => c = browser.conn /\ browser.live /\ k.pc # "gone"

\* What the browser has still to take.
Queue(k) == k.send \o k.batch

\* The number the browser has when it has taken that.
Reach(k) ==
    IF k.pc = "boot" THEN k.snap.seq
    ELSE IF Queue(k) = <<>> THEN browser.view.seq
    ELSE Queue(k)[Len(Queue(k))].seq

\* The last number broadcastMarket has served connection c with.
Offered(c) ==
    IF step = "copy" \/ (step = "cast" /\ c \in targets) THEN market.view.seq - 1 ELSE market.view.seq

\* Each message follows the one before it, the first what the browser has.
Linked(Q) ==
    /\ \A i \in 2..Len(Q) : Q[i].t = "delta" /\ Q[i].seq <= Q[i - 1].seq + 1
    /\ Q # <<>> => Q[1].t = "snapshot" \/ (browser.has /\ Q[1].seq <= browser.view.seq + 1)

\* The deltas that wait are the last ones offered, and no number is missing before them.
NoGap(c, k) ==
    /\ \A i \in DOMAIN k.pend : k.pend[i].seq = Offered(c) - Len(k.pend) + i
    /\ Linked(Queue(k))
    /\ k.pc # "ensure" => k.snap.seq <= Reach(k) /\ Offered(c) - Len(k.pend) <= Reach(k)
    /\ k.pc \notin {"ensure", "boot"} /\ Queue(k) = <<>> => browser.has

\* Before the load nobody was sent anything.
BeforeLoad ==
    ~market.loaded => /\ \A c \in Conns : conn[c].pc \in {"off", "ensure"} /\ conn[c].pend = <<>>
                      /\ ~browser.has

StreamInv(V) ==
    /\ StreamType /\ BeforeLoad /\ targets \subseteq 1..browser.conn
    /\ Past(V) /\ CastSays(V) /\ BrowserShows(V)
    /\ \A c \in Conns : /\ Said(V, conn[c]) /\ Phase(c, conn[c])
                        /\ conn[c].open => NoGap(c, conn[c])

\* A message on its way, or that was, is typed.
LEMMA MessageParts ==
    ASSUME NEW m \in Message
    PROVE  m.seq \in Nat /\ m.seq <= MaxEvents /\ m.evt \in Nat /\ m.view \in View
           /\ m.t \in {"snapshot", "delta"}
BY Bounds DEF Message

LEMMA ConnectionParts ==
    ASSUME NEW k \in Connection
    PROVE  /\ k.pend \in Seq(Message) /\ k.batch \in Seq(Message) /\ k.send \in Seq(Message)
           /\ k.snap \in View /\ k.snap.seq \in Nat
           /\ k.pc \in {"off", "ensure", "boot", "drain", "send", "read", "gone"}
           /\ {k.reg, k.open, k.closed, k.boot} \subseteq BOOLEAN
           /\ \A m \in Range(k.pend) \cup Range(k.batch) \cup Range(k.send) : m \in Message
<1>1. /\ k.pend \in Seq(Message) /\ k.batch \in Seq(Message) /\ k.send \in Seq(Message)
      /\ k.snap \in View
      /\ k.pc \in {"off", "ensure", "boot", "drain", "send", "read", "gone"}
      /\ {k.reg, k.open, k.closed, k.boot} \subseteq BOOLEAN
  BY DEF Connection
<1>2. k.snap.seq \in Nat
  BY <1>1, ViewParts, Bounds
<1>3. \A m \in Range(k.pend) \cup Range(k.batch) \cup Range(k.send) : m \in Message
  BY <1>1 DEF Range
<1> QED
  BY <1>1, <1>2, <1>3

\* What a message says stays true: a view was added to the past, an event to the events.
Longer(V, W) ==
    /\ \A n \in DOMAIN events : n \in DOMAIN events' /\ events'[n] = events[n]
    /\ market.view.seq <= market'.view.seq /\ market'.view.seq \in Nat
    /\ \A s \in 0..market.view.seq : W[s] = V[s]

LEMMA SaysKept ==
    ASSUME NEW V, NEW W, Longer(V, W), market.view.seq \in Nat, NEW m \in Message, Says(V, m)
    PROVE  Says(W, m)'
<1>1. m.seq \in Nat /\ m.seq <= market.view.seq
  BY MessageParts DEF Says
<1>2. m.seq <= market'.view.seq /\ W[m.seq] = V[m.seq]
  BY <1>1 DEF Longer
<1>3. CASE m.t = "snapshot"
  BY <1>2, <1>3 DEF Says
<1>4. CASE m.t # "snapshot"
  <2>1. m.evt \in DOMAIN events /\ m.seq >= 1 /\ V[m.seq] = Apply(V[m.seq - 1], m.evt, m.seq)
    BY <1>4 DEF Says
  <2>2. m.evt \in DOMAIN events' /\ events'[m.evt] = events[m.evt]
    BY <2>1 DEF Longer
  <2>3. W[m.seq - 1] = V[m.seq - 1]
    BY <1>1, <2>1 DEF Longer
  <2>4. Apply(W[m.seq - 1], m.evt, m.seq)' = Apply(V[m.seq - 1], m.evt, m.seq)
    BY <2>2, <2>3 DEF Apply, Without, Chosen
  <2> QED
    BY <1>2, <1>4, <2>1, <2>2, <2>4 DEF Says
<1> QED
  BY <1>3, <1>4

LEMMA SaidKept ==
    ASSUME NEW V, NEW W, Longer(V, W), market.view.seq \in Nat, NEW k \in Connection, Said(V, k)
    PROVE  Said(W, k)'
<1>1. \A m \in Range(k.pend) \cup Range(k.batch) \cup Range(k.send) : m \in Message
  BY ConnectionParts
<1>2. \A m \in Range(k.pend) \cup Range(k.batch) : m.t = "delta" /\ Says(W, m)'
  BY <1>1, SaysKept DEF Said
<1>3. \A m \in Range(k.send) : Says(W, m)'
  BY <1>1, SaysKept DEF Said
<1>4. k.snap.seq \in Nat /\ k.snap.seq <= market.view.seq
  BY ConnectionParts DEF Said
<1>5. k.snap.seq <= market'.view.seq /\ W[k.snap.seq] = V[k.snap.seq]
  BY <1>4 DEF Longer
<1> QED
  BY <1>2, <1>3, <1>5 DEF Said

\* The hub stays as it is.
HubSame == UNCHANGED <<events, market, step, hot>>

LEMMA SameIsLonger ==
    ASSUME NEW V, HubType, HubSame
    PROVE  Longer(V, V) /\ market.view.seq \in Nat
<1>1. market.view.seq \in Nat
  BY HotFacts
<1> QED
  BY <1>1 DEF HubSame, Longer

LEMMA PastSame ==
    ASSUME NEW V, HubType, Past(V), CastSays(V), HubSame
    PROVE  Past(V)' /\ CastSays(V)' /\ (\A m \in Message : Says(V, m) => Says(V, m)')
           /\ \A k \in Connection : Said(V, k) => Said(V, k)'
<1>1. Longer(V, V) /\ market.view.seq \in Nat
  BY SameIsLonger
<1>2. Past(V)'
  BY DEF Past, HubSame
<1>3. CastSays(V)'
  <2>1. \A v, n, s : Apply(v, n, s)' = Apply(v, n, s)
    BY DEF Apply, Without, Chosen, HubSame
  <2>2. \A m : Says(V, m)' <=> Says(V, m)
    BY <2>1 DEF Says, HubSame
  <2> QED
    BY <2>2 DEF CastSays, Delta, HubSame
<1> QED
  BY <1>1, <1>2, <1>3, SaysKept, SaidKept

LEMMA StreamStays ==
    ASSUME NEW V, HubType, StreamInv(V), HubSame, UNCHANGED <<targets, conn, browser>>
    PROVE  StreamInv(V)'
<1>1. /\ StreamType /\ BeforeLoad /\ targets \subseteq 1..browser.conn
      /\ Past(V) /\ CastSays(V) /\ BrowserShows(V)
      /\ \A c \in Conns : /\ conn[c] \in Connection /\ Said(V, conn[c]) /\ Phase(c, conn[c])
                          /\ conn[c].open => NoGap(c, conn[c])
  BY DEF StreamInv, StreamType
<1>2. Past(V)' /\ CastSays(V)' /\ \A k \in Connection : Said(V, k) => Said(V, k)'
  BY <1>1, PastSame
<1>3. StreamType' /\ BeforeLoad' /\ (targets \subseteq 1..browser.conn)'
  BY <1>1 DEF StreamType, BeforeLoad, HubSame
<1>4. BrowserShows(V)'
  BY <1>1 DEF BrowserShows, HubSame
<1>5. ASSUME NEW c \in Conns
      PROVE  /\ Said(V, conn[c])' /\ Phase(c, conn[c])' /\ (conn[c].open => NoGap(c, conn[c]))'
  <2>1. Said(V, conn[c])'
    BY <1>1, <1>2
  <2>2. Phase(c, conn[c])'
    BY <1>1 DEF Phase
  <2>3. (conn[c].open => NoGap(c, conn[c]))'
    BY <1>1 DEF NoGap, Linked, Queue, Reach, Offered, HubSame
  <2> QED
    BY <2>1, <2>2, <2>3
<1> QED
  BY <1>2, <1>3, <1>4, <1>5 DEF StreamInv

\* What is on its way survives a longer past.
LEMMA StreamLonger ==
    ASSUME NEW V, NEW W, HubType, StreamInv(V), Longer(V, W), Past(W)', CastSays(W)',
           market.loaded => market'.loaded,
           \A c \in Conns : Offered(c)' = Offered(c),
           UNCHANGED <<targets, conn, browser>>
    PROVE  StreamInv(W)'
<1>1. /\ StreamType /\ BeforeLoad /\ targets \subseteq 1..browser.conn /\ BrowserShows(V)
      /\ \A c \in Conns : /\ conn[c] \in Connection /\ Said(V, conn[c]) /\ Phase(c, conn[c])
                          /\ conn[c].open => NoGap(c, conn[c])
      /\ market.view.seq \in Nat
  BY HotFacts DEF StreamInv, StreamType
<1>2. StreamType' /\ (targets \subseteq 1..browser.conn)'
  BY <1>1 DEF StreamType
<1>3. BeforeLoad'
  BY <1>1 DEF BeforeLoad
<1>4. BrowserShows(W)'
  <2>1. browser.view.seq \in Nat
    <3>1. browser.view \in View
      BY <1>1 DEF StreamType
    <3> QED
      BY <3>1, ViewParts, Bounds
  <2>2. browser.view.seq <= market'.view.seq /\ W[browser.view.seq] = V[browser.view.seq]
    BY <1>1, <2>1 DEF BrowserShows, Longer
  <2> QED
    BY <1>1, <2>2 DEF BrowserShows
<1>5. ASSUME NEW c \in Conns
      PROVE  /\ Said(W, conn[c])' /\ Phase(c, conn[c])' /\ (conn[c].open => NoGap(c, conn[c]))'
  <2>1. Said(W, conn[c])'
    BY <1>1, SaidKept
  <2>2. Phase(c, conn[c])'
    BY <1>1 DEF Phase
  <2>3. (conn[c].open => NoGap(c, conn[c]))'
    BY <1>1 DEF NoGap, Linked, Queue, Reach
  <2> QED
    BY <2>1, <2>2, <2>3
<1> QED
  BY <1>2, <1>3, <1>4, <1>5 DEF StreamInv

LEMMA PublishStream ==
    ASSUME NEW V, HubType, HotOrdered, StreamInv(V), PublishMarketDelta PROVE StreamInv(V)'
<1>1. /\ UNCHANGED <<step, market, targets, conn, browser>>
      /\ \E s \in SUBSET Levels : events' = Append(events, s)
      /\ hot' = Append(hot, Len(events) + 1) \/ UNCHANGED hot
  BY DEF PublishMarketDelta
<1>2. /\ Len(events) \in Nat /\ MaxEvents \in Nat /\ market.view.seq \in Nat /\ market.view \in View
      /\ \A i \in DOMAIN hot : hot[i] \in Nat /\ hot[i] \in DOMAIN events
      /\ DOMAIN hot = 1..Len(hot) /\ Len(hot) \in Nat /\ DOMAIN events = 1..Len(events)
  BY HotFacts
<1>3. \A n \in DOMAIN events : n \in DOMAIN events' /\ events'[n] = events[n]
  BY <1>1 DEF HubType
<1>4. Longer(V, V)
  BY <1>1, <1>2, <1>3 DEF Longer
<1>5. Past(V) /\ CastSays(V)
  BY DEF StreamInv
<1>6. Past(V)'
  BY <1>1, <1>5 DEF Past
<1>7. CastSays(V)'
  <2> SUFFICES ASSUME step # "idle"
               PROVE  market.view.seq >= 1 /\ Says(V, Delta(Head(hot), market.view.seq))'
    BY <1>1 DEF CastSays
  <2>1. hot # <<>> /\ market.view.seq >= 1 /\ Says(V, Delta(Head(hot), market.view.seq))
    BY <1>5 DEF CastSays, HotOrdered
  <2>2. Len(hot) >= 1 /\ Head(hot) = hot[1] /\ Head(hot') = Head(hot)
    <3>1. hot \in Seq(DOMAIN events) /\ Len(hot) >= 1
      BY <1>2, <2>1 DEF HubType
    <3>2. Head(Append(hot, Len(events) + 1)) = Append(hot, Len(events) + 1)[1]
          /\ Append(hot, Len(events) + 1)[1] = hot[1]
      BY <1>2, <3>1
    <3> QED
      BY <1>1, <3>1, <3>2
  <2>3. Head(hot) \in 0..MaxEvents /\ market.view.seq \in 0..MaxEvents
    BY <1>2, <2>2, ViewParts DEF HubType
  <2>4. Delta(Head(hot), market.view.seq) \in Message
    BY <2>3, DeltaIsMessage
  <2>5. Delta(Head(hot'), market.view.seq') = Delta(Head(hot), market.view.seq)
    BY <1>1, <2>2
  <2> DEFINE m == Delta(Head(hot), market.view.seq)
  <2>6. ASSUME NEW k \in Message, k = m PROVE Says(V, k)'
    BY <1>2, <1>4, <2>1, <2>6, SaysKept
  <2>7. PICK k \in Message : k = m
    BY <2>4
  <2>8. Says(V, k)' /\ k = Delta(Head(hot'), market'.view.seq)
    BY <1>1, <2>5, <2>6, <2>7
  <2> QED
    BY <2>1, <2>8
<1>8. \A c \in Conns : Offered(c)' = Offered(c)
  BY <1>1 DEF Offered
<1> QED
  BY <1>1, <1>4, <1>6, <1>7, <1>8, StreamLonger

LEMMA ApplyStream ==
    ASSUME NEW V, HubInv, StreamInv(V), ApplyMatchEvent PROVE \E W : StreamInv(W)'
<1>1. /\ HubType /\ HotOrdered
      /\ step = "idle" /\ hot # <<>> /\ market.loaded
      /\ market' = [market EXCEPT !.view = Apply(@, Head(hot), @.seq + 1)]
      /\ step' = "copy"
      /\ UNCHANGED <<events, hot, targets, conn, browser>>
  BY DEF HubInv, ApplyMatchEvent, upstream
<1>0. PICK h, s : h = Head(hot) /\ s = market.view.seq + 1
  OBVIOUS
<1>2. h \in DOMAIN events /\ h \in Nat /\ s <= h /\ h <= MaxEvents
  BY <1>0, <1>1, HeadWaits
<1>3. /\ DOMAIN events = 1..Len(events) /\ Len(events) \in Nat /\ MaxEvents \in Nat
      /\ market.view \in View /\ market.view.seq \in Nat
  BY <1>1, HotFacts
<1>4. s \in 0..MaxEvents /\ h \in 1..MaxEvents /\ s \in Nat /\ s - 1 = market.view.seq
  BY <1>0, <1>2, <1>3
<1>5. Past(V)
  BY DEF StreamInv
<1>6. /\ V \in [0..MaxEvents -> View] /\ V[market.view.seq] = market.view
      /\ \A i \in 0..market.view.seq : V[i].seq = i /\ IsInjective(V[i].trades)
  BY <1>5 DEF Past
<1>9. PICK w : w = Apply(market.view, h, s)
  OBVIOUS
<1>7. w \in View /\ w.seq = s /\ IsInjective(w.trades)
  <2>1. market.view.seq \in 0..market.view.seq
    BY <1>3
  <2>2. IsInjective(market.view.trades)
    BY <1>6, <2>1
  <2>3. /\ Apply(market.view, h, s) \in View /\ Apply(market.view, h, s).seq = s
        /\ (IsInjective(market.view.trades) => IsInjective(Apply(market.view, h, s).trades))
    BY <1>3, <1>4, ApplyView
  <2> QED
    BY <1>9, <2>2, <2>3
<1>8. market' = [market EXCEPT !.view = w] /\ market \in [loaded : BOOLEAN, view : View]
  BY <1>0, <1>1, <1>9 DEF HubType
<1>10. market'.loaded = market.loaded /\ market'.view = w
  BY <1>8
<1>11. PICK W : W = [V EXCEPT ![s] = w]
  OBVIOUS
<1>12. /\ W \in [0..MaxEvents -> View] /\ W[s] = w
       /\ \A i \in 0..market.view.seq : W[i] = V[i]
  BY <1>3, <1>4, <1>6, <1>7, <1>11
<1>13. Longer(V, W)
  BY <1>1, <1>3, <1>4, <1>7, <1>10, <1>12 DEF Longer
<1>14. Past(W)'
  <2>1. \A i \in 0..s : W[i].seq = i /\ IsInjective(W[i].trades)
    <3> TAKE i \in 0..s
    <3>1. i \in 0..market.view.seq \/ i = s
      BY <1>3, <1>4
    <3> QED
      BY <1>6, <1>7, <1>12, <3>1
  <2> QED
    BY <1>7, <1>10, <1>12, <2>1 DEF Past
<1>15. CastSays(W)'
  <2>1. PICK m : m = Delta(h, s)
    OBVIOUS
  <2>2. m.t = "delta" /\ m.seq = s /\ m.evt = h
    <3>1. h \in 0..MaxEvents
      BY <1>4
    <3> QED
      BY <1>4, <2>1, <3>1, DeltaIsMessage
  <2>3. W[s - 1] = market.view
    BY <1>3, <1>4, <1>6, <1>12
  <2>4. \A v, n, i : Apply(v, n, i)' = Apply(v, n, i)
    BY <1>1 DEF Apply, Without, Chosen
  <2>5. W[m.seq] = Apply(W[m.seq - 1], m.evt, m.seq)
    BY <1>9, <1>12, <2>2, <2>3
  <2>6. m.seq <= market'.view.seq /\ m.evt \in DOMAIN events' /\ m.seq >= 1
    BY <1>1, <1>2, <1>3, <1>4, <1>7, <1>10, <2>2
  <2>7. Says(W, m)'
    BY <2>2, <2>4, <2>5, <2>6 DEF Says
  <2>8. m = Delta(Head(hot'), market'.view.seq)
    BY <1>0, <1>1, <1>7, <1>10, <2>1
  <2> QED
    BY <1>7, <1>10, <2>2, <2>6, <2>7, <2>8 DEF CastSays
<1>16. \A c \in Conns : Offered(c)' = Offered(c)
  BY <1>1, <1>3, <1>4, <1>7, <1>10 DEF Offered
<1>17. StreamInv(W)'
  BY <1>1, <1>13, <1>14, <1>15, <1>16, StreamLonger
<1> QED
  BY <1>17

LEMMA LoadTradesStream ==
    ASSUME NEW V, HubInv, StreamInv(V), LoadTrades PROVE \E W : StreamInv(W)'
<1>1. /\ market' \in [loaded : BOOLEAN, view : View] /\ market'.loaded = TRUE
      /\ market'.view.seq = market.view.seq /\ market.view.seq = 0
      /\ IsInjective(market'.view.trades) /\ ~market.loaded /\ step = "idle"
      /\ UNCHANGED <<events, hot, step, targets, conn, browser>>
  BY LoadedView DEF LoadTrades, upstream, handler
<1>2. /\ StreamType /\ BeforeLoad /\ targets \subseteq 1..browser.conn /\ BrowserShows(V) /\ Past(V)
      /\ \A c \in Conns : /\ conn[c] \in Connection /\ Said(V, conn[c]) /\ Phase(c, conn[c])
                          /\ conn[c].open => NoGap(c, conn[c])
  BY DEF StreamInv, StreamType
<1>3. PICK v : v = market'.view
  OBVIOUS
<1>4. PICK W : W = [V EXCEPT ![0] = v]
  OBVIOUS
<1>5. v \in View /\ v.seq = 0 /\ IsInjective(v.trades)
  BY <1>1, <1>3
<1>6. W \in [0..MaxEvents -> View] /\ W[0] = v
  BY <1>2, <1>4, <1>5, Bounds DEF Past
<1>7. Past(W)'
  <2>1. \A s \in 0..0 : s = 0
    OBVIOUS
  <2>2. \A s \in 0..0 : W[s].seq = s /\ IsInjective(W[s].trades)
    BY <1>5, <1>6, <2>1
  <2> QED
    BY <1>1, <1>3, <1>6, <2>2 DEF Past
<1>8. StreamType' /\ (targets \subseteq 1..browser.conn)' /\ BeforeLoad' /\ CastSays(W)'
  BY <1>1, <1>2 DEF StreamType, BeforeLoad, CastSays
<1>9. BrowserShows(W)'
  BY <1>1, <1>2 DEF BrowserShows, BeforeLoad
<1>10. ASSUME NEW c \in Conns
       PROVE  /\ Said(W, conn[c])' /\ Phase(c, conn[c])' /\ (conn[c].open => NoGap(c, conn[c]))'
  <2>1. conn[c].pc \in {"off", "ensure"} /\ conn[c].pend = <<>>
    BY <1>1, <1>2 DEF BeforeLoad
  <2>2. conn[c].send = <<>> /\ conn[c].batch = <<>>
    BY <1>2, <2>1, UnusedIsConnection DEF Phase
  <2>3. \A m : m \notin Range(<<>>)
    BY DEF Range
  <2>4. Said(W, conn[c])'
    BY <1>1, <1>2, <2>1, <2>2, <2>3 DEF Said
  <2>5. Phase(c, conn[c])'
    BY <1>1, <1>2 DEF Phase
  <2>6. (conn[c].open => NoGap(c, conn[c]))'
    BY <1>1, <1>2 DEF NoGap, Linked, Queue, Reach, Offered
  <2> QED
    BY <2>4, <2>5, <2>6
<1> QED
  BY <1>7, <1>8, <1>9, <1>10 DEF StreamInv

LEMMA CopyRoomStream ==
    ASSUME NEW V, HubInv, StreamInv(V), CopyRoom PROVE StreamInv(V)'
<1>1. /\ step = "copy" /\ targets' = {c \in Conns : conn[c].reg}
      /\ IF targets' = {} THEN step' = "idle" /\ hot' = Tail(hot) ELSE step' = "cast" /\ UNCHANGED hot
      /\ UNCHANGED <<events, market, conn, browser>>
  BY DEF CopyRoom, upstream
<1>2. /\ HubType /\ StreamType /\ BeforeLoad /\ BrowserShows(V) /\ Past(V) /\ CastSays(V)
      /\ \A c \in Conns : /\ conn[c] \in Connection /\ Said(V, conn[c]) /\ Phase(c, conn[c])
                          /\ conn[c].open => NoGap(c, conn[c])
  BY DEF HubInv, StreamInv, StreamType
<1>3. Longer(V, V) /\ market.view.seq \in Nat
  BY <1>1, <1>2, HotFacts DEF Longer
<1>4. \A v, n, s : Apply(v, n, s)' = Apply(v, n, s)
  BY <1>1 DEF Apply, Without, Chosen
<1>5. \A m : Says(V, m)' <=> Says(V, m)
  BY <1>1, <1>4 DEF Says
<1>6. CastSays(V)'
  BY <1>1, <1>2, <1>5 DEF CastSays, Delta
<1>7. StreamType' /\ BeforeLoad' /\ BrowserShows(V)' /\ Past(V)'
  BY <1>1, <1>2 DEF StreamType, BeforeLoad, BrowserShows, Past
<1>8. (targets \subseteq 1..browser.conn)'
  <2> SUFFICES ASSUME NEW c \in Conns, conn[c].reg PROVE c \in 1..browser.conn
    BY <1>1
  <2>1. ~(c > browser.conn)
    <3>1. conn[c].pc # "off"
      <4>1. conn[c].pc = "off" => conn[c] = Unused
        BY <1>2 DEF Phase
      <4> QED
        BY <4>1, UnusedIsConnection
    <3> QED
      BY <1>2, <3>1 DEF Phase
  <2>2. browser.conn \in Nat /\ c \in Nat /\ c >= 1
    BY <1>2, Bounds DEF StreamType, Conns
  <2> QED
    BY <2>1, <2>2
<1>9. ASSUME NEW c \in Conns
      PROVE  /\ Said(V, conn[c])' /\ Phase(c, conn[c])' /\ (conn[c].open => NoGap(c, conn[c]))'
  <2>1. Said(V, conn[c])'
    BY <1>1, <1>2, <1>3, SaidKept
  <2>2. Phase(c, conn[c])'
    BY <1>1, <1>2 DEF Phase
  <2>3. (conn[c].open => NoGap(c, conn[c]))'
    <3> SUFFICES ASSUME conn[c].open PROVE NoGap(c, conn[c])'
      BY <1>1
    <3>1. conn[c].pc \notin {"off", "gone"}
      BY <1>2, UnusedIsConnection DEF Phase
    <3>2. c \in targets' /\ step' = "cast"
      BY <1>1, <1>2, <3>1 DEF Phase
    <3>3. Offered(c)' = Offered(c)
      BY <1>1, <3>2 DEF Offered
    <3> QED
      BY <1>1, <1>2, <3>3 DEF NoGap, Linked, Queue, Reach
  <2> QED
    BY <2>1, <2>2, <2>3
<1> QED
  BY <1>6, <1>7, <1>8, <1>9 DEF StreamInv

-----------------------------------------------------------------------------
(* The connections *)

\* One connection becomes k; what it has to keep.
LEMMA ConnStep ==
    ASSUME NEW V, HubType, StreamInv(V), HubSame, UNCHANGED <<targets, browser>>,
           NEW c \in Conns, NEW k \in Connection, conn' = [conn EXCEPT ![c] = k],
           Len(k.send) <= QueueSize, k.closed => ~k.reg,
           market.loaded \/ (k.pc \in {"off", "ensure"} /\ k.pend = <<>>),
           Said(V, k), Phase(c, k), k.open => NoGap(c, k)
    PROVE  StreamInv(V)'
<1>1. /\ StreamType /\ BeforeLoad /\ targets \subseteq 1..browser.conn
      /\ Past(V) /\ CastSays(V) /\ BrowserShows(V)
      /\ \A d \in Conns : /\ conn[d] \in Connection /\ Said(V, conn[d]) /\ Phase(d, conn[d])
                          /\ conn[d].open => NoGap(d, conn[d])
  BY DEF StreamInv, StreamType
<1>2. Past(V)' /\ CastSays(V)' /\ \A j \in Connection : Said(V, j) => Said(V, j)'
  BY <1>1, PastSame
<1>3. conn' \in [Conns -> Connection] /\ conn'[c] = k /\ \A d \in Conns : d # c => conn'[d] = conn[d]
  BY <1>1 DEF StreamType
<1>4. StreamType'
  BY <1>1, <1>3 DEF StreamType
<1>5. BeforeLoad' /\ (targets \subseteq 1..browser.conn)' /\ BrowserShows(V)'
  BY <1>1, <1>3 DEF BeforeLoad, BrowserShows, HubSame
<1>6. ASSUME NEW d \in Conns
      PROVE  /\ Said(V, conn[d])' /\ Phase(d, conn[d])' /\ (conn[d].open => NoGap(d, conn[d]))'
  <2>1. PICK j : j = conn'[d]
    OBVIOUS
  <2>2. j \in Connection /\ Said(V, j) /\ Phase(d, j) /\ (j.open => NoGap(d, j))
    BY <1>1, <1>3, <2>1
  <2>3. Said(V, j)'
    BY <1>2, <2>2
  <2>9. browser' = browser
    OBVIOUS
  <2>4. Phase(d, j)'
    BY <2>2, <2>9 DEF Phase
  <2>5. j.open => NoGap(d, j)'
    BY <2>2 DEF NoGap, Linked, Queue, Reach, Offered, HubSame
  <2>6. Said(V, conn[d])'
    BY <2>1, <2>3
  <2>7. Phase(d, conn[d])'
    BY <2>1, <2>4
  <2>8. (conn[d].open => NoGap(d, conn[d]))'
    BY <2>1, <2>5
  <2> QED
    BY <2>6, <2>7, <2>8
<1> QED
  BY <1>2, <1>4, <1>5, <1>6 DEF StreamInv

\* Two sequences in a row.
LEMMA ConcatParts ==
    ASSUME NEW S, NEW s \in Seq(S), NEW b \in Seq(S)
    PROVE  /\ s \o b \in Seq(S) /\ Len(s \o b) = Len(s) + Len(b)
           /\ Len(s) \in Nat /\ Len(b) \in Nat
           /\ \A i \in 1..Len(s) : (s \o b)[i] = s[i]
           /\ \A i \in 1..Len(b) : (s \o b)[Len(s) + i] = b[i]
<1>1. s \o b \in Seq(S) /\ Len(s \o b) = Len(s) + Len(b) /\ Len(s) \in Nat /\ Len(b) \in Nat
  OBVIOUS
<1>2. ASSUME NEW i \in 1..Len(s) PROVE (s \o b)[i] = s[i]
  BY <1>1
<1>3. ASSUME NEW i \in 1..Len(b) PROVE (s \o b)[Len(s) + i] = b[i]
  BY <1>1
<1> QED
  BY <1>1, <1>2, <1>3

\* The queue of a connection, from its parts.
LEMMA QueueParts ==
    ASSUME NEW k \in Connection
    PROVE  /\ Queue(k) \in Seq(Message) /\ Len(Queue(k)) = Len(k.send) + Len(k.batch)
           /\ Len(k.send) \in Nat /\ Len(k.batch) \in Nat
           /\ \A i \in 1..Len(k.send) : Queue(k)[i] = k.send[i]
           /\ \A i \in 1..Len(k.batch) : Queue(k)[Len(k.send) + i] = k.batch[i]
<1>1. PICK s \in Seq(Message), b \in Seq(Message) : s = k.send /\ b = k.batch
  BY ConnectionParts
<1>2. /\ s \o b \in Seq(Message) /\ Len(s \o b) = Len(s) + Len(b) /\ Len(s) \in Nat /\ Len(b) \in Nat
      /\ \A i \in 1..Len(s) : (s \o b)[i] = s[i]
      /\ \A i \in 1..Len(b) : (s \o b)[Len(s) + i] = b[i]
  BY ConcatParts
<1> QED
  BY <1>1, <1>2 DEF Queue

\* Two sequences are one when their places are.
LEMMA SameSequence ==
    ASSUME NEW S, NEW s \in Seq(S), NEW t \in Seq(S), Len(s) = Len(t),
           \A i \in 1..Len(s) : s[i] = t[i]
    PROVE  s = t
OBVIOUS

\* The queue that got a message, ...
LEMMA QueueAppended ==
    ASSUME NEW j \in Connection, NEW k \in Connection, NEW m \in Message,
           j.send = Append(k.send, m), k.batch = <<>>, j.batch = <<>>
    PROVE  Queue(j) = Append(Queue(k), m)
<1>1. k.send \in Seq(Message) /\ Queue(k) = k.send /\ Queue(j) = j.send
  BY ConnectionParts DEF Queue
<1> QED
  BY <1>1

\* ... and the one whose batch moved on.
LEMMA QueueForwarded ==
    ASSUME NEW j \in Connection, NEW k \in Connection, k.batch # <<>>,
           j.send = Append(k.send, Head(k.batch)), j.batch = Tail(k.batch)
    PROVE  Queue(j) = Queue(k)
<1> DEFINE s == k.send
           b == k.batch
<1>1. s \in Seq(Message) /\ b \in Seq(Message) /\ Len(s) \in Nat /\ Len(b) \in Nat /\ Len(b) >= 1
  BY ConnectionParts
<1>2. /\ Len(j.send) = Len(s) + 1 /\ j.send[Len(s) + 1] = b[1] /\ (\A i \in 1..Len(s) : j.send[i] = s[i])
      /\ Len(j.batch) = Len(b) - 1 /\ \A i \in 1..(Len(b) - 1) : j.batch[i] = b[i + 1]
  BY <1>1
<1>3. /\ Queue(k) \in Seq(Message) /\ Len(Queue(k)) = Len(s) + Len(b)
      /\ (\A i \in 1..Len(s) : Queue(k)[i] = s[i])
      /\ \A i \in 1..Len(b) : Queue(k)[Len(s) + i] = b[i]
  BY QueueParts
<1>4. /\ Queue(j) \in Seq(Message) /\ Len(Queue(j)) = Len(s) + Len(b)
      /\ (\A i \in 1..(Len(s) + 1) : Queue(j)[i] = j.send[i])
      /\ \A i \in 1..(Len(b) - 1) : Queue(j)[Len(s) + 1 + i] = j.batch[i]
  <2>1. /\ Queue(j) \in Seq(Message) /\ Len(Queue(j)) = Len(j.send) + Len(j.batch)
        /\ (\A i \in 1..Len(j.send) : Queue(j)[i] = j.send[i])
        /\ \A i \in 1..Len(j.batch) : Queue(j)[Len(j.send) + i] = j.batch[i]
    BY QueueParts
  <2> HIDE DEF s, b
  <2>2. Len(s) + 1 + (Len(b) - 1) = Len(s) + Len(b)
    BY <1>1
  <2> QED
    BY <1>2, <2>1, <2>2
<1> HIDE DEF s, b
<1>5. ASSUME NEW i \in 1..(Len(s) + Len(b)) PROVE Queue(j)[i] = Queue(k)[i]
  <2>1. CASE i <= Len(s)
    BY <1>1, <1>2, <1>3, <1>4, <2>1
  <2>2. CASE i = Len(s) + 1
    <3>1. Queue(j)[i] = b[1]
      <4>1. Len(s) + 1 \in 1..(Len(s) + 1)
        BY <1>1
      <4>2. Queue(j)[Len(s) + 1] = j.send[Len(s) + 1]
        BY <1>4, <4>1
      <4> QED
        BY <1>2, <2>2, <4>2
    <3>2. 1 \in 1..Len(b)
      BY <1>1
    <3> QED
      BY <1>3, <2>2, <3>1, <3>2
  <2>3. CASE i > Len(s) + 1
    <3>1. i - Len(s) - 1 \in 1..(Len(b) - 1) /\ i - Len(s) \in 1..Len(b)
          /\ i = Len(s) + 1 + (i - Len(s) - 1) /\ i = Len(s) + (i - Len(s))
          /\ (i - Len(s) - 1) + 1 = i - Len(s)
      BY <1>1, <2>3
    <3>2. Queue(j)[i] = j.batch[i - Len(s) - 1] /\ Queue(k)[i] = b[i - Len(s)]
      BY <1>3, <1>4, <3>1
    <3> QED
      BY <1>2, <3>1, <3>2
  <2> QED
    BY <1>1, <2>1, <2>2, <2>3
<1> QED
  BY <1>3, <1>4, <1>5, SameSequence

\* Messages that follow each other, behind ones that do.
LEMMA LinkedLonger ==
    ASSUME NEW Q \in Seq(Message), NEW b \in Seq(Message), b # <<>>, Linked(Q),
           \A i \in DOMAIN b : b[i].t = "delta" /\ (i > 1 => b[i].seq <= b[i - 1].seq + 1),
           IF Q = <<>> THEN browser.has /\ b[1].seq <= browser.view.seq + 1
           ELSE b[1].seq <= Q[Len(Q)].seq + 1
    PROVE  Linked(Q \o b) /\ Q \o b # <<>> /\ (Q \o b)[Len(Q \o b)] = b[Len(b)]
<1> DEFINE R == Q \o b
<1>1. /\ Len(Q) \in Nat /\ Len(b) \in Nat /\ Len(b) >= 1 /\ Len(R) = Len(Q) + Len(b)
      /\ (\A i \in 1..Len(Q) : R[i] = Q[i]) /\ (\A i \in 1..Len(b) : R[Len(Q) + i] = b[i])
      /\ (Q # <<>> => Len(Q) >= 1) /\ DOMAIN b = 1..Len(b)
  OBVIOUS
<1>2. R \in Seq(Message)
  OBVIOUS
<1> HIDE DEF R
<1>3. R # <<>>
  BY <1>1, <1>2
<1>4. R[Len(R)] = b[Len(b)]
  <2>1. Len(b) \in 1..Len(b)
    BY <1>1
  <2> QED
    BY <1>1, <2>1
<1>5. ASSUME NEW i \in 2..Len(R) PROVE R[i].t = "delta" /\ R[i].seq <= R[i - 1].seq + 1
  <2>1. CASE i <= Len(Q)
    <3>1. i \in 2..Len(Q) /\ i \in 1..Len(Q) /\ i - 1 \in 1..Len(Q)
      BY <1>1, <2>1
    <3> QED
      BY <1>1, <3>1 DEF Linked
  <2>2. CASE i = Len(Q) + 1
    <3>1. Len(Q) \in 1..Len(Q) /\ i - 1 = Len(Q) /\ 1 \in 1..Len(b) /\ Q # <<>>
      BY <1>1, <2>2
    <3>2. R[i] = b[1] /\ R[i - 1] = Q[Len(Q)]
      BY <1>1, <2>2, <3>1
    <3> QED
      BY <1>1, <3>1, <3>2
  <2>3. CASE i > Len(Q) + 1
    <3> DEFINE x == i - Len(Q)
    <3>1. x \in 1..Len(b) /\ x - 1 \in 1..Len(b) /\ x > 1 /\ i = Len(Q) + x /\ i - 1 = Len(Q) + (x - 1)
      BY <1>1, <2>3
    <3> HIDE DEF x
    <3>2. R[i] = b[x] /\ R[i - 1] = b[x - 1]
      BY <1>1, <3>1
    <3> QED
      BY <1>1, <3>1, <3>2
  <2> QED
    BY <1>1, <2>1, <2>2, <2>3
<1>6. R[1].t = "snapshot" \/ (browser.has /\ R[1].seq <= browser.view.seq + 1)
  <2>1. CASE Q = <<>>
    <3>1. R[1] = b[1]
      <4>1. Len(Q) = 0 /\ 1 \in 1..Len(b)
        BY <1>1, <2>1
      <4>2. Len(Q) + 1 = 1
        BY <4>1
      <4> QED
        BY <1>1, <4>1, <4>2
    <3> QED
      BY <2>1, <3>1
  <2>2. CASE Q # <<>>
    <3>1. R[1] = Q[1]
      BY <1>1, <2>2
    <3> QED
      BY <2>2, <3>1 DEF Linked
  <2> QED
    BY <2>1, <2>2
<1>7. Linked(R)
  BY <1>5, <1>6 DEF Linked
<1> QED
  BY <1>3, <1>4, <1>7 DEF R

LEMMA LinkedAppend ==
    ASSUME NEW Q \in Seq(Message), NEW m \in Message, Linked(Q), m.t = "delta",
           IF Q = <<>> THEN browser.has /\ m.seq <= browser.view.seq + 1
           ELSE m.seq <= Q[Len(Q)].seq + 1
    PROVE  /\ Linked(Append(Q, m)) /\ Append(Q, m) # <<>> /\ Append(Q, m) \in Seq(Message)
           /\ Append(Q, m)[Len(Append(Q, m))] = m
<1> DEFINE b == <<m>>
<1>1. b \in Seq(Message) /\ b # <<>> /\ b[1] = m /\ Len(b) = 1 /\ DOMAIN b = {1} /\ Append(Q, m) = Q \o b
  OBVIOUS
<1>2. \A i \in DOMAIN b : b[i].t = "delta" /\ ~(i > 1)
  BY <1>1
<1>3. b[Len(b)] = m /\ Append(Q, m) \in Seq(Message)
  BY <1>1
<1> HIDE DEF b
<1>4. /\ \A i \in DOMAIN b : b[i].t = "delta" /\ (i > 1 => b[i].seq <= b[i - 1].seq + 1)
      /\ IF Q = <<>> THEN browser.has /\ b[1].seq <= browser.view.seq + 1
         ELSE b[1].seq <= Q[Len(Q)].seq + 1
  BY <1>1, <1>2
<1>5. Linked(Q \o b) /\ Q \o b # <<>> /\ (Q \o b)[Len(Q \o b)] = b[Len(b)]
  BY <1>1, <1>4, LinkedLonger
<1> QED
  BY <1>1, <1>3, <1>5

\* What is known of a connection.
LEMMA ConnFacts ==
    ASSUME NEW V, HubType, StreamInv(V), NEW c \in Conns
    PROVE  /\ conn[c] \in Connection /\ Said(V, conn[c]) /\ Phase(c, conn[c])
           /\ conn[c].open => NoGap(c, conn[c])
           /\ Len(conn[c].send) <= QueueSize /\ (conn[c].closed => ~conn[c].reg)
           /\ conn[c].pc \notin {"off", "ensure"} => market.loaded
           /\ market.view.seq \in Nat /\ Offered(c) \in Int /\ Offered(c) <= market.view.seq
           /\ browser.view.seq \in Nat
<1>1. market.view.seq \in Nat
  BY HotFacts
<1>2. Offered(c) \in Int /\ Offered(c) <= market.view.seq
  BY <1>1 DEF Offered
<1>3. browser.view.seq \in Nat
  <2>1. browser.view \in View
    BY DEF StreamInv, StreamType
  <2> QED
    BY <2>1, ViewParts, Bounds
<1> QED
  BY <1>1, <1>2, <1>3 DEF StreamInv, StreamType, BeforeLoad

LEMMA BuildStream ==
    ASSUME NEW V, HubInv, StreamInv(V), NEW c \in Conns, BuildMarketSnapshot(c) PROVE StreamInv(V)'
<1>1. PICK k : k = conn[c]
  OBVIOUS
<1>2. PICK j : j = [k EXCEPT !.pc = "boot", !.snap = market.view]
  OBVIOUS
<1>3. /\ HubType /\ k.pc = "ensure" /\ market.loaded /\ HubSame /\ UNCHANGED <<targets, browser>>
      /\ conn' = [conn EXCEPT ![c] = j]
  BY <1>1, <1>2 DEF HubInv, BuildMarketSnapshot, KeepsRest, upstream, handler, HubSame
<1>4. /\ k \in Connection /\ Said(V, k) /\ Phase(c, k) /\ (k.open => NoGap(c, k))
      /\ Len(k.send) <= QueueSize /\ (k.closed => ~k.reg)
      /\ market.view.seq \in Nat /\ Offered(c) \in Int /\ Offered(c) <= market.view.seq
  BY <1>1, <1>3, ConnFacts
<1>5. market.view \in View
  BY <1>3, HotFacts
<1>6. /\ j \in Connection /\ j.pc = "boot" /\ j.snap = market.view /\ j.reg = k.reg /\ j.open = k.open
      /\ j.closed = k.closed /\ j.boot = k.boot /\ j.pend = k.pend /\ j.batch = k.batch /\ j.send = k.send
  BY <1>2, <1>4, <1>5 DEF Connection
<1>7. Said(V, j)
  <2>1. V[market.view.seq] = market.view
    BY DEF StreamInv, Past
  <2> QED
    BY <1>4, <1>6, <2>1 DEF Said
<1>8. Phase(c, j)
  BY <1>3, <1>4, <1>6 DEF Phase
<1>9. ASSUME j.open PROVE NoGap(c, j)
  <2>1. NoGap(c, k)
    BY <1>4, <1>6, <1>9
  <2>2. Queue(j) = Queue(k) /\ Reach(j) = market.view.seq
    BY <1>6 DEF Queue, Reach
  <2>3. Len(k.pend) \in Nat
    BY <1>4, ConnectionParts
  <2> QED
    BY <1>4, <1>6, <2>1, <2>2, <2>3 DEF NoGap
<1> QED
  BY <1>3, <1>4, <1>6, <1>7, <1>8, <1>9, ConnStep

LEMMA SendSnapshotStream ==
    ASSUME NEW V, HubInv, StreamInv(V), NEW c \in Conns, SendSnapshot(c) PROVE StreamInv(V)'
<1>1. PICK k : k = conn[c]
  OBVIOUS
<1>2. PICK m : m = Snapshot(k)
  OBVIOUS
<1>3. PICK j : j = [EnqueueRaw(k, m) EXCEPT !.pc = "drain"]
  OBVIOUS
<1>4. /\ HubType /\ k.pc = "boot" /\ HubSame /\ UNCHANGED <<targets, browser>>
      /\ conn' = [conn EXCEPT ![c] = j]
  BY <1>1, <1>2, <1>3 DEF HubInv, SendSnapshot, KeepsRest, upstream, handler, HubSame, Snapshot
<1>5. /\ k \in Connection /\ Said(V, k) /\ Phase(c, k) /\ (k.open => NoGap(c, k))
      /\ Len(k.send) <= QueueSize /\ (k.closed => ~k.reg) /\ market.loaded
      /\ market.view.seq \in Nat /\ Offered(c) \in Int /\ Offered(c) <= market.view.seq
  BY <1>1, <1>4, ConnFacts
<1>6. m \in Message /\ m.t = "snapshot" /\ m.seq = k.snap.seq /\ m.view = k.snap
  BY <1>2, <1>5, SnapshotIsMessage
<1>7. Snapped(j, k, m)
  BY <1>3, <1>5, <1>6, SendSnapshotEffect
<1>8. k.send = <<>> /\ k.batch = <<>> /\ k.boot
  BY <1>4, <1>5 DEF Phase
<1>9. Append(<<>>, m) = <<m>> /\ Range(<<m>>) = {m}
  BY DEF Range
<1>10. Says(V, m)
  BY <1>4, <1>5, <1>6 DEF Says, Said
<1>11. Said(V, j)
  <2>1. \A x \in Range(j.send) : Says(V, x)
    BY <1>5, <1>7, <1>8, <1>9, <1>10 DEF Snapped, Said
  <2> QED
    BY <1>4, <1>5, <1>7, <2>1 DEF Said, Snapped
<1>12. Phase(c, j)
  BY <1>4, <1>5, <1>7, <1>8 DEF Phase, Snapped
<1>13. ASSUME j.open PROVE NoGap(c, j)
  <2>1. j.send = <<m>> /\ j.batch = <<>> /\ k.open
    BY <1>7, <1>8, <1>9, <1>13 DEF Snapped
  <2>2. Queue(j) = <<m>>
    BY <2>1 DEF Queue
  <2>3. Len(<<m>>) = 1 /\ <<m>>[1] = m /\ <<m>> # <<>>
    OBVIOUS
  <2>4. Reach(j) = k.snap.seq /\ Linked(Queue(j)) /\ Queue(j) # <<>>
    BY <1>6, <1>7, <2>2, <2>3 DEF Reach, Linked, Snapped
  <2>5. Reach(k) = k.snap.seq
    BY <1>4 DEF Reach
  <2>6. k.snap.seq \in Nat
    BY <1>5, ConnectionParts
  <2> QED
    BY <1>4, <1>5, <1>7, <2>1, <2>4, <2>5, <2>6 DEF NoGap, Snapped
<1>14. j \in Connection /\ Len(j.send) <= QueueSize /\ (j.closed => ~j.reg)
  BY <1>5, <1>7 DEF Snapped
<1> QED
  BY <1>4, <1>5, <1>11, <1>12, <1>13, <1>14, ConnStep

LEMMA DisconnectStream ==
    ASSUME NEW V, HubInv, StreamInv(V), NEW c \in Conns, Disconnect(c) \/ Unregister(c)
    PROVE  StreamInv(V)'
<1>1. PICK k : k = conn[c]
  OBVIOUS
<1>2. HubType /\ HubSame /\ UNCHANGED <<targets, browser>>
  BY DEF HubInv, Disconnect, Unregister, KeepsRest, upstream, handler, HubSame
<1>3. /\ k \in Connection /\ Said(V, k) /\ Phase(c, k) /\ (k.open => NoGap(c, k))
      /\ Len(k.send) <= QueueSize /\ (k.closed => ~k.reg)
      /\ (k.pc \notin {"off", "ensure"} => market.loaded)
      /\ (market.loaded \/ (k.pc \in {"off", "ensure"} /\ k.pend = <<>>))
  BY <1>1, <1>2, ConnFacts DEF StreamInv, BeforeLoad
<1>4. CASE Disconnect(c)
  <2>1. PICK j : j = [k EXCEPT !.open = FALSE]
    OBVIOUS
  <2>2. conn' = [conn EXCEPT ![c] = j] /\ k.open
    BY <1>1, <1>4, <2>1 DEF Disconnect
  <2>3. j \in Connection /\ SameButQueue(j, k) /\ j.pend = k.pend /\ j.send = k.send /\ j.open = FALSE
    BY <1>3, <2>1 DEF Connection, SameButQueue
  <2>4. k.pc # "off"
    BY <1>3, <2>2, UnusedIsConnection DEF Phase
  <2>5. Said(V, j) /\ Phase(c, j)
    BY <1>3, <2>3, <2>4 DEF SameButQueue, Said, Phase
  <2>6. /\ Len(j.send) <= QueueSize /\ (j.closed => ~j.reg)
        /\ (market.loaded \/ (j.pc \in {"off", "ensure"} /\ j.pend = <<>>))
        /\ (j.open => NoGap(c, j))
    BY <1>3, <2>3 DEF SameButQueue
  <2> QED
    BY <1>2, <2>2, <2>3, <2>5, <2>6, ConnStep
<1>5. CASE Unregister(c)
  <2>1. PICK j : j = [k EXCEPT !.pc = "gone", !.reg = FALSE, !.closed = TRUE]
    OBVIOUS
  <2>2. conn' = [conn EXCEPT ![c] = j] /\ k.pc = "read" /\ ~k.open
    BY <1>1, <1>5, <2>1 DEF Unregister
  <2>3. /\ j \in Connection /\ j.pc = "gone" /\ j.reg = FALSE /\ j.closed = TRUE /\ j.open = k.open
        /\ j.boot = k.boot /\ j.pend = k.pend /\ j.batch = k.batch /\ j.send = k.send /\ j.snap = k.snap
    BY <1>3, <2>1 DEF Connection
  <2>4. Said(V, j) /\ Phase(c, j)
    BY <1>3, <2>2, <2>3 DEF Said, Phase
  <2>5. /\ Len(j.send) <= QueueSize /\ (j.closed => ~j.reg) /\ market.loaded /\ (j.open => NoGap(c, j))
    BY <1>3, <2>2, <2>3
  <2> QED
    BY <1>2, <2>2, <2>3, <2>4, <2>5, ConnStep
<1> QED
  BY <1>4, <1>5

\* The deltas the snapshot does not have are the end of those that wait.
LEMMA NewerParts ==
    ASSUME NEW k \in Connection
    PROVE  Newer(k) \in Seq(Message) /\ Range(Newer(k)) \subseteq Range(k.pend)
<1> DEFINE I == {i \in DOMAIN k.pend : k.pend[i].seq > k.snap.seq}
           p == k.pend
<1>1. p \in Seq(Message) /\ I \in SUBSET DOMAIN p /\ Newer(k) = Chosen(p, I)
  BY ConnectionParts DEF Newer
<1> HIDE DEF I, p
<1>2. /\ Chosen(p, I) \in Seq(Message) /\ DOMAIN Chosen(p, I) = 1..Cardinality(I)
      /\ \A i \in 1..Cardinality(I) : Place(I, i) \in I /\ Chosen(p, I)[i] = p[Place(I, i)]
  BY <1>1, ChosenAt
<1>3. Range(Chosen(p, I)) \subseteq Range(p)
  <2> SUFFICES ASSUME NEW x \in Range(Chosen(p, I)) PROVE x \in Range(p)
    OBVIOUS
  <2>1. PICK i \in 1..Cardinality(I) : x = Chosen(p, I)[i]
    BY <1>2 DEF Range
  <2>2. Place(I, i) \in DOMAIN p /\ x = p[Place(I, i)]
    BY <1>1, <1>2, <2>1
  <2> QED
    BY <2>2 DEF Range
<1> QED
  BY <1>1, <1>2, <1>3 DEF p

LEMMA NewerEnd ==
    ASSUME NEW k \in Connection, NEW D \in Int,
           \A i \in DOMAIN k.pend : k.pend[i].seq = D - Len(k.pend) + i
    PROVE  \E a \in 0..Len(k.pend) :
              /\ Len(Newer(k)) = Len(k.pend) - a
              /\ \A i \in 1..(Len(k.pend) - a) : Newer(k)[i].seq = D - Len(k.pend) + a + i
              /\ a = 0 \/ D - Len(k.pend) + a <= k.snap.seq
              /\ a = Len(k.pend) \/ D > k.snap.seq
<1> DEFINE n == Len(k.pend)
           x == k.snap.seq - (D - n)
           I == {i \in DOMAIN k.pend : k.pend[i].seq > k.snap.seq}
<1>1. k.pend \in Seq(Message) /\ n \in Nat /\ DOMAIN k.pend = 1..n /\ k.snap.seq \in Nat /\ x \in Int
  BY ConnectionParts
<1>2. PICK a \in 0..n : IF x <= 0 THEN a = 0 ELSE IF x >= n THEN a = n ELSE a = x
  <2> HIDE DEF x, n
  <2>1. CASE x <= 0
    BY <1>1, <2>1
  <2>2. CASE x > 0 /\ x >= n
    BY <1>1, <2>2
  <2>3. CASE x > 0 /\ x < n
    BY <1>1, <2>3
  <2> QED
    BY <1>1, <2>1, <2>2, <2>3
<1>3. \A i \in DOMAIN k.pend : k.pend[i].seq > k.snap.seq <=> i > a
  <2> TAKE i \in DOMAIN k.pend
  <2>1. k.pend[i].seq = D - n + i /\ i \in 1..n
    BY <1>1
  <2> HIDE DEF n
  <2> QED
    BY <1>1, <1>2, <2>1
<1>4. I = {i \in DOMAIN k.pend : i > a} /\ Newer(k) = Chosen(k.pend, I)
  BY <1>3 DEF Newer
<1> HIDE DEF I
<1>5. Len(Newer(k)) = n - a /\ \A i \in 1..(n - a) : Newer(k)[i] = k.pend[a + i]
  <2>1. PICK s \in Seq(Message) : s = k.pend
    BY <1>1
  <2>2. a \in 0..Len(s) /\ I = {i \in DOMAIN s : i > a}
    BY <1>4, <2>1
  <2>3. Len(Chosen(s, I)) = Len(s) - a /\ \A i \in 1..(Len(s) - a) : Chosen(s, I)[i] = s[a + i]
    BY <2>2, ChosenEnd
  <2> QED
    BY <1>4, <2>1, <2>3
<1>6. ASSUME NEW i \in 1..(n - a) PROVE Newer(k)[i].seq = D - n + a + i
  <2>1. a + i \in DOMAIN k.pend
    BY <1>1
  <2>2. k.pend[a + i].seq = D - n + (a + i)
    BY <2>1
  <2>3. Newer(k)[i].seq = k.pend[a + i].seq
    BY <1>5
  <2> HIDE DEF n
  <2> QED
    BY <1>1, <2>2, <2>3
<1>7. (a = 0 \/ D - n + a <= k.snap.seq) /\ (a = n \/ D > k.snap.seq)
  <2> HIDE DEF n
  <2> QED
    BY <1>1, <1>2
<1> QED
  BY <1>5, <1>6, <1>7

LEMMA DrainStream ==
    ASSUME NEW V, HubInv, StreamInv(V), NEW c \in Conns, DrainPending(c) PROVE StreamInv(V)'
<1>1. PICK k : k = conn[c]
  OBVIOUS
<1>2. PICK b : b = Newer(k)
  OBVIOUS
<1>3. PICK j : j = [k EXCEPT !.pend = <<>>, !.batch = b, !.boot = b # <<>>,
                             !.pc = IF b = <<>> THEN "read" ELSE "send"]
  OBVIOUS
<1>4. /\ HubType /\ k.pc = "drain" /\ HubSame /\ UNCHANGED <<targets, browser>>
      /\ conn' = [conn EXCEPT ![c] = j]
  BY <1>1, <1>2, <1>3 DEF HubInv, DrainPending, KeepsRest, upstream, handler, HubSame
<1>5. /\ k \in Connection /\ Said(V, k) /\ Phase(c, k) /\ (k.open => NoGap(c, k))
      /\ Len(k.send) <= QueueSize /\ (k.closed => ~k.reg) /\ market.loaded
      /\ market.view.seq \in Nat /\ Offered(c) \in Int /\ browser.view.seq \in Nat
  BY <1>1, <1>4, ConnFacts
<1>6. b \in Seq(Message) /\ Range(b) \subseteq Range(k.pend)
  BY <1>2, <1>5, NewerParts
<1>7. Drained(j, k, b)
  BY <1>3, <1>5, <1>6, DrainEffect
<1>8. k.batch = <<>> /\ k.boot
  BY <1>4, <1>5 DEF Phase
<1>9. \A x : x \notin Range(<<>>)
  BY DEF Range
<1>10. Said(V, j)
  BY <1>4, <1>5, <1>6, <1>7, <1>9 DEF Said, Drained
<1>11. Phase(c, j)
  BY <1>4, <1>5, <1>7 DEF Phase, Drained
<1>12. ASSUME j.open PROVE NoGap(c, j)
  <2> DEFINE D == Offered(c)
             n == Len(k.pend)
  <2>1. NoGap(c, k)
    BY <1>5, <1>7, <1>12 DEF Drained
  <2>2. D \in Int /\ n \in Nat /\ k.send \in Seq(Message) /\ k.snap.seq \in Nat
    BY <1>5, ConnectionParts
  <2>3. PICK a \in 0..n :
           /\ Len(b) = n - a /\ (\A i \in 1..(n - a) : b[i].seq = D - n + a + i)
           /\ (a = 0 \/ D - n + a <= k.snap.seq) /\ (a = n \/ D > k.snap.seq)
    BY <1>2, <1>5, <2>1, NewerEnd DEF NoGap
  <2> HIDE DEF D, n
  <2>4. Queue(k) = k.send /\ Queue(j) = k.send \o b
    BY <1>7, <1>8, <2>2 DEF Queue, Drained
  <2>5. /\ Linked(k.send) /\ k.snap.seq <= Reach(k) /\ D - n <= Reach(k)
        /\ (k.send = <<>> => browser.has)
        /\ Reach(k) = IF k.send = <<>> THEN browser.view.seq ELSE k.send[Len(k.send)].seq
    BY <1>4, <2>1, <2>4 DEF NoGap, Reach, D, n
  <2>6. Reach(k) \in Nat
    <3>1. k.send # <<>> => k.send[Len(k.send)] \in Message
      BY <2>2
    <3> QED
      BY <1>5, <2>5, <3>1, MessageParts
  <2>7. \A i \in DOMAIN j.pend : FALSE
    BY <1>7 DEF Drained
  <2>8. Len(j.pend) = 0 /\ j.snap = k.snap
    BY <1>7 DEF Drained
  <2>9. CASE b = <<>>
    <3>1. Len(b) = 0 /\ a = n
      BY <2>2, <2>3, <2>9
    <3>2. D <= Reach(k)
      BY <2>2, <2>3, <2>5, <2>6, <3>1
    <3>3. Queue(j) = k.send /\ j.pc = "read" /\ Reach(j) = Reach(k)
      <4>1. Queue(j) = k.send /\ j.pc = "read"
        BY <1>7, <2>2, <2>4, <2>9 DEF Drained
      <4> QED
        BY <2>5, <4>1 DEF Reach
    <3> QED
      BY <2>2, <2>5, <2>7, <2>8, <3>2, <3>3 DEF NoGap, D
  <2>10. CASE b # <<>>
    <3>1. Len(b) >= 1 /\ Len(b) \in Nat /\ a < n /\ DOMAIN b = 1..Len(b)
      BY <1>6, <2>2, <2>3, <2>10
    <3>2. b[1].seq <= Reach(k) + 1
      <4>1. b[1].seq = D - n + a + 1
        BY <2>2, <2>3, <3>1
      <4> QED
        BY <2>2, <2>3, <2>5, <2>6, <4>1
    <3>3. b[Len(b)].seq = D
      <4>1. Len(b) \in 1..(n - a)
        BY <2>2, <2>3, <3>1
      <4>2. b[Len(b)].seq = D - n + a + Len(b)
        BY <2>3, <4>1
      <4> QED
        BY <2>2, <2>3, <4>2
    <3>4. \A i \in DOMAIN b : b[i].t = "delta" /\ (i > 1 => b[i].seq <= b[i - 1].seq + 1)
      <4> TAKE i \in DOMAIN b
      <4>1. b[i] \in Range(k.pend)
        BY <1>6 DEF Range
      <4>2. i > 1 => b[i].seq = D - n + a + i /\ b[i - 1].seq = D - n + a + (i - 1)
        <5>1. i > 1 => i \in 1..(n - a) /\ i - 1 \in 1..(n - a)
          BY <2>2, <2>3, <3>1
        <5> QED
          BY <2>3, <5>1
      <4>3. i > 1 => b[i].seq <= b[i - 1].seq + 1
        BY <2>2, <3>1, <4>2
      <4> QED
        BY <1>5, <4>1, <4>3 DEF Said
    <3>5. IF k.send = <<>> THEN browser.has /\ b[1].seq <= browser.view.seq + 1
          ELSE b[1].seq <= k.send[Len(k.send)].seq + 1
      BY <2>5, <3>2
    <3>6. Linked(k.send \o b) /\ k.send \o b # <<>> /\ (k.send \o b)[Len(k.send \o b)] = b[Len(b)]
      BY <1>6, <2>2, <2>5, <2>10, <3>4, <3>5, LinkedLonger
    <3>7. j.pc = "send"
      BY <1>7, <2>10 DEF Drained
    <3>8. Reach(j) = D /\ Queue(j) # <<>>
      BY <2>4, <3>3, <3>6, <3>7 DEF Reach
    <3>9. k.snap.seq <= D
      BY <2>2, <2>3, <3>1
    <3> QED
      BY <2>2, <2>4, <2>7, <2>8, <3>6, <3>7, <3>8, <3>9 DEF NoGap, D
  <2> QED
    BY <2>9, <2>10
<1>13. j \in Connection /\ Len(j.send) <= QueueSize /\ (j.closed => ~j.reg)
  BY <1>5, <1>7 DEF Drained
<1> QED
  BY <1>4, <1>5, <1>10, <1>11, <1>12, <1>13, ConnStep

\* A message at the end of the queue, or at its head, is one of the messages of the queue.
LEMMA AppendRange ==
    ASSUME NEW S, NEW s \in Seq(S), NEW m \in S
    PROVE  Range(Append(s, m)) = Range(s) \cup {m}
<1>1. /\ Len(s) \in Nat /\ DOMAIN s = 1..Len(s) /\ DOMAIN Append(s, m) = 1..(Len(s) + 1)
      /\ Append(s, m)[Len(s) + 1] = m /\ \A i \in 1..Len(s) : Append(s, m)[i] = s[i]
  OBVIOUS
<1>2. \A i \in 1..(Len(s) + 1) : i \in 1..Len(s) \/ i = Len(s) + 1
  BY <1>1
<1>3. Len(s) + 1 \in 1..(Len(s) + 1) /\ \A i \in 1..Len(s) : i \in 1..(Len(s) + 1)
  BY <1>1
<1>4. \A x : x \in Range(Append(s, m)) <=> x \in Range(s) \/ x = m
  BY <1>1, <1>2, <1>3 DEF Range
<1> QED
  BY <1>4

LEMMA TailRange ==
    ASSUME NEW S, NEW s \in Seq(S), s # <<>>
    PROVE  /\ Head(s) \in Range(s) /\ Range(Tail(s)) \subseteq Range(s) /\ Head(s) \in S
           /\ Tail(s) \in Seq(S) /\ Len(Tail(s)) = Len(s) - 1
<1>1. /\ Len(s) \in Nat /\ Len(s) >= 1 /\ DOMAIN s = 1..Len(s) /\ DOMAIN Tail(s) = 1..(Len(s) - 1)
      /\ Head(s) = s[1] /\ (\A i \in 1..(Len(s) - 1) : Tail(s)[i] = s[i + 1])
      /\ Tail(s) \in Seq(S) /\ Len(Tail(s)) = Len(s) - 1 /\ Head(s) \in S
  OBVIOUS
<1>2. 1 \in 1..Len(s) /\ \A i \in 1..(Len(s) - 1) : i + 1 \in 1..Len(s)
  BY <1>1
<1> QED
  BY <1>1, <1>2 DEF Range

LEMMA SendPendingStream ==
    ASSUME NEW V, HubInv, StreamInv(V), NEW c \in Conns, SendPending(c) PROVE StreamInv(V)'
<1>1. PICK k : k = conn[c]
  OBVIOUS
<1>2. PICK j : j = [EnqueueRaw(k, Head(k.batch)) EXCEPT
                      !.batch = Tail(k.batch), !.pc = IF Len(k.batch) = 1 THEN "drain" ELSE "send"]
  OBVIOUS
<1>3. /\ HubType /\ k.pc = "send" /\ HubSame /\ UNCHANGED <<targets, browser>>
      /\ conn' = [conn EXCEPT ![c] = j]
  BY <1>1, <1>2 DEF HubInv, SendPending, KeepsRest, upstream, handler, HubSame
<1>4. /\ k \in Connection /\ Said(V, k) /\ Phase(c, k) /\ (k.open => NoGap(c, k))
      /\ Len(k.send) <= QueueSize /\ (k.closed => ~k.reg) /\ market.loaded
  BY <1>1, <1>3, ConnFacts
<1>5. k.batch # <<>> /\ k.boot
  BY <1>3, <1>4 DEF Phase
<1>6. Forwarded(j, k)
  BY <1>2, <1>4, <1>5, SendPendingEffect
<1>7. k.send \in Seq(Message) /\ k.batch \in Seq(Message)
  BY <1>4, ConnectionParts
<1>8. /\ Head(k.batch) \in Range(k.batch) /\ Range(Tail(k.batch)) \subseteq Range(k.batch)
      /\ Head(k.batch) \in Message /\ Len(Tail(k.batch)) = Len(k.batch) - 1
      /\ Tail(k.batch) \in Seq(Message)
  BY <1>5, <1>7, TailRange
<1>9. Range(Append(k.send, Head(k.batch))) = Range(k.send) \cup {Head(k.batch)}
  BY <1>7, <1>8, AppendRange
<1>10. Said(V, j)
  <2>1. Range(j.send) \subseteq Range(k.send) \cup {Head(k.batch)}
    BY <1>6, <1>9 DEF Forwarded
  <2>2. Says(V, Head(k.batch))
    BY <1>4, <1>8 DEF Said
  <2>3. \A m \in Range(j.send) : Says(V, m)
    BY <1>4, <2>1, <2>2 DEF Said
  <2>4. \A m \in Range(j.pend) \cup Range(j.batch) : m.t = "delta" /\ Says(V, m)
    BY <1>4, <1>6, <1>8 DEF Said, Forwarded
  <2> QED
    BY <1>3, <1>4, <1>6, <2>3, <2>4 DEF Said, Forwarded
<1>11. Phase(c, j)
  <2>1. Len(k.batch) = 1 <=> Tail(k.batch) = <<>>
    <3>1. PICK s \in Seq(Message) : s = Tail(k.batch)
      BY <1>8
    <3>2. s = <<>> <=> Len(s) = 0
      OBVIOUS
    <3>3. Len(k.batch) \in Nat
      BY <1>7
    <3> QED
      BY <1>8, <3>1, <3>2, <3>3
  <2>2. IF Len(k.batch) = 1 THEN j.pc = "drain" /\ j.batch = <<>> ELSE j.pc = "send" /\ j.batch # <<>>
    BY <1>3, <1>6, <2>1 DEF Forwarded
  <2> QED
    BY <1>3, <1>4, <1>5, <1>6, <2>2 DEF Phase, Forwarded
<1>12. ASSUME j.open PROVE NoGap(c, j)
  <2>1. j.send = Append(k.send, Head(k.batch)) /\ j.batch = Tail(k.batch) /\ k.open
    BY <1>6, <1>12 DEF Forwarded
  <2>2. Queue(j) = Queue(k)
    BY <1>4, <1>5, <1>6, <2>1, QueueForwarded DEF Forwarded
  <2>3. j.pc \in {"drain", "send"} /\ j.pend = k.pend /\ j.snap = k.snap
    BY <1>3, <1>6 DEF Forwarded
  <2>4. Reach(j) = Reach(k)
    BY <1>3, <2>2, <2>3 DEF Reach
  <2> QED
    BY <1>3, <1>4, <2>1, <2>2, <2>3, <2>4 DEF NoGap
<1>13. j \in Connection /\ Len(j.send) <= QueueSize /\ (j.closed => ~j.reg)
  BY <1>4, <1>6 DEF Forwarded
<1> QED
  BY <1>3, <1>4, <1>10, <1>11, <1>12, <1>13, ConnStep

\* One more waits and one more was offered.
LEMMA PlaceShift ==
    ASSUME NEW s \in Nat, NEW n \in Nat, NEW i \in Nat PROVE (s - 1) - n + i = s - (n + 1) + i
OBVIOUS

\* The delta that is being broadcast reaches a connection.
LEMMA CastConn ==
    ASSUME NEW V, HubType, StreamInv(V), NEW c \in Conns, Cast(c)
    PROVE  \E j \in Connection :
              /\ conn' = [conn EXCEPT ![c] = j]
              /\ Len(j.send) <= QueueSize /\ (j.closed => ~j.reg) /\ Said(V, j) /\ Phase(c, j)
              /\ j.open => NoGap(c, j)'
<1>1. PICK k : k = conn[c]
  OBVIOUS
<1>2. PICK s, m : s = market.view.seq /\ m = Delta(Head(hot), s)
  OBVIOUS
<1>3. /\ step = "cast" /\ c \in targets /\ targets' = targets \ {c}
      /\ step' = "idle" \/ step' = "cast"
      /\ UNCHANGED <<events, market, browser>>
  BY DEF Cast, upstream
<1>4. /\ k \in Connection /\ Said(V, k) /\ Phase(c, k) /\ (k.open => NoGap(c, k))
      /\ Len(k.send) <= QueueSize /\ (k.closed => ~k.reg)
      /\ (k.pc \notin {"off", "ensure"} => market.loaded)
      /\ market.view.seq \in Nat /\ browser.view.seq \in Nat
  BY <1>1, ConnFacts
<1>5. CASE k.closed /\ ~k.boot
  <2>1. conn' = conn
    BY <1>1, <1>5 DEF Cast
  <2>2. conn' = [conn EXCEPT ![c] = k]
    BY <1>1, <2>1 DEF StreamInv, StreamType
  <2>3. ~k.open
    BY <1>4, <1>5, UnusedIsConnection DEF Phase
  <2> QED
    BY <1>4, <2>2, <2>3
<1>6. CASE ~(k.closed /\ ~k.boot)
  <2>1. PICK j : j = EnqueueMarket(k, m)
    OBVIOUS
  <2>2. conn' = [conn EXCEPT ![c] = j]
    BY <1>1, <1>2, <1>6, <2>1 DEF Cast
  <2>3. Says(V, m) /\ s >= 1 /\ s \in Nat
    BY <1>2, <1>3, <1>4 DEF StreamInv, CastSays
  <2>4. m \in Message /\ m.t = "delta" /\ m.seq = s
    <3>1. s \in 0..MaxEvents
      BY <1>2, HotFacts, ViewParts
    <3>2. m.evt \in DOMAIN events /\ m.evt = Head(hot)
      BY <1>2, <2>3 DEF Says, Delta
    <3>3. Head(hot) \in 0..MaxEvents
      BY <3>2, HotFacts DEF HubType
    <3> QED
      BY <1>2, <3>1, <3>3, DeltaIsMessage
  <2>5. Offers(j, k, m)
    BY <1>4, <2>1, <2>4, EnqueueMarketEffect
  <2>6. k.pend \in Seq(Message) /\ k.send \in Seq(Message) /\ k.snap.seq \in Nat
    BY <1>4, ConnectionParts
  <2>7. Range(Append(k.pend, m)) = Range(k.pend) \cup {m} /\ Range(Append(k.send, m)) = Range(k.send) \cup {m}
    BY <2>4, <2>6, AppendRange
  <2>8. k.pc # "off"
    <3>1. c \in 1..browser.conn /\ browser.conn \in Nat
      BY <1>3, Bounds DEF StreamInv, StreamType
    <3> QED
      BY <1>4, <3>1 DEF Phase
  <2>9. /\ j \in Connection /\ SameButQueue(j, k) /\ (j.open => k.open)
        /\ Range(j.pend) \subseteq Range(k.pend) \cup {m} /\ Range(j.send) \subseteq Range(k.send) \cup {m}
        /\ Len(j.send) <= QueueSize
    BY <1>4, <2>5, <2>7 DEF Offers, Enqueued
  <2>10. Said(V, j)
    BY <1>4, <2>3, <2>4, <2>9 DEF Said, SameButQueue
  <2>11. Phase(c, j)
    <3>1. CASE k.boot
      BY <1>4, <2>5, <2>8, <2>9, <3>1 DEF Phase, SameButQueue, Offers
    <3>2. CASE ~k.boot
      BY <1>4, <2>5, <2>8, <2>9, <3>2 DEF Phase, SameButQueue, Offers, Enqueued
    <3> QED
      BY <3>1, <3>2
  <2>12. ASSUME j.open PROVE NoGap(c, j)'
    <3>1. NoGap(c, k) /\ k.open
      BY <1>4, <2>9, <2>12
    <3>2. Offered(c) = s - 1 /\ Offered(c)' = s
      BY <1>2, <1>3 DEF Offered
    <3>3. CASE k.boot
      <4>1. j.send = k.send /\ j.pend = Append(k.pend, m) /\ SameButQueue(j, k)
        BY <2>5, <3>3 DEF Offers
      <4>2. Queue(j) = Queue(k) /\ Reach(j) = Reach(k) /\ Reach(j)' = Reach(j) /\ (Linked(Queue(j))' <=> Linked(Queue(j)))
        BY <1>3, <4>1 DEF Queue, Reach, SameButQueue, Linked
      <4>3. /\ Len(j.pend) = Len(k.pend) + 1 /\ Len(k.pend) \in Nat /\ DOMAIN j.pend = 1..(Len(k.pend) + 1)
            /\ j.pend[Len(k.pend) + 1] = m /\ \A i \in DOMAIN k.pend : j.pend[i] = k.pend[i]
            /\ DOMAIN k.pend = 1..Len(k.pend)
        BY <2>6, <4>1
      <4>4. ASSUME NEW i \in DOMAIN j.pend PROVE j.pend[i].seq = s - Len(j.pend) + i
        <5>1. CASE i \in DOMAIN k.pend
          <6>1. k.pend[i].seq = (s - 1) - Len(k.pend) + i
            BY <3>1, <3>2, <5>1 DEF NoGap
          <6>2. j.pend[i] = k.pend[i] /\ i \in Nat
            BY <4>3, <5>1
          <6>3. (s - 1) - Len(k.pend) + i = s - Len(j.pend) + i
            <7>1. Len(j.pend) = Len(k.pend) + 1 /\ Len(k.pend) \in Nat /\ s \in Nat /\ i \in Nat
              BY <2>3, <4>3, <6>2
            <7>2. (s - 1) - Len(k.pend) + i = s - (Len(k.pend) + 1) + i
              BY <7>1, PlaceShift
            <7> QED
              BY <7>1, <7>2
          <6> QED
            BY <6>1, <6>2, <6>3
        <5>2. CASE i = Len(k.pend) + 1
          BY <2>3, <2>4, <4>3, <5>2
        <5> QED
          BY <4>3, <5>1, <5>2
      <4>5. s - Len(j.pend) = (s - 1) - Len(k.pend)
        BY <2>3, <4>3
      <4> QED
        <5>1. /\ Linked(Queue(k)) /\ (k.pc # "ensure" => k.snap.seq <= Reach(k) /\ s - 1 - Len(k.pend) <= Reach(k))
              /\ k.pc \notin {"ensure", "boot"} /\ Queue(k) = <<>> => browser.has
          BY <3>1, <3>2 DEF NoGap
        <5>2. Queue(j)' = Queue(j) /\ j.pc = k.pc /\ j.snap = k.snap /\ browser' = browser
          BY <1>3, <4>1 DEF Queue, SameButQueue
        <5>3. Linked(Queue(j))' /\ Reach(j)' = Reach(k)
          BY <4>2, <5>1
        <5>4. \A i \in DOMAIN j.pend : j.pend[i].seq = Offered(c)' - Len(j.pend) + i
          BY <3>2, <4>4
        <5>5. j.pc # "ensure" => j.snap.seq <= Reach(j)' /\ Offered(c)' - Len(j.pend) <= Reach(j)'
          BY <3>2, <4>5, <5>1, <5>2, <5>3
        <5>6. j.pc \notin {"ensure", "boot"} /\ Queue(j)' = <<>> => browser'.has
          BY <4>2, <5>1, <5>2
        <5> QED
          BY <5>3, <5>4, <5>5, <5>6 DEF NoGap
    <3>4. CASE ~k.boot
      <4>1. k.pc = "read" /\ k.pend = <<>> /\ k.batch = <<>>
        BY <1>4, <2>8, <3>1, <3>4 DEF Phase
      <4>2. j.send = Append(k.send, m) /\ SameButQueue(j, k) /\ j.pend = <<>>
        BY <2>5, <2>12, <3>4, <4>1 DEF Offers, Enqueued
      <4>3. Queue(j) = Append(Queue(k), m) /\ Queue(k) \in Seq(Message)
        <5>1. j \in Connection /\ k \in Connection /\ m \in Message /\ j.batch = <<>>
          BY <1>4, <2>4, <2>9, <4>1, <4>2 DEF SameButQueue
        <5>2. Queue(j) = Append(Queue(k), m)
          BY <4>1, <4>2, <5>1, QueueAppended
        <5>3. Queue(k) \in Seq(Message)
          BY <5>1, QueueParts
        <5> QED
          BY <5>2, <5>3
      <4>4. /\ Linked(Queue(k)) /\ s - 1 - Len(k.pend) <= Reach(k) /\ (Queue(k) = <<>> => browser.has)
            /\ Reach(k) = IF Queue(k) = <<>> THEN browser.view.seq ELSE Queue(k)[Len(Queue(k))].seq
        BY <3>1, <3>2, <4>1 DEF NoGap, Reach
      <4>5. Reach(k) \in Nat
        <5>1. Queue(k) # <<>> => Queue(k)[Len(Queue(k))] \in Message
          BY <4>3
        <5> QED
          BY <1>4, <4>4, <5>1, MessageParts
      <4>6. Len(k.pend) = 0 /\ s <= Reach(k) + 1
        <5>1. Len(k.pend) = 0
          BY <4>1
        <5> QED
          BY <2>3, <4>4, <4>5, <5>1
      <4>7. IF Queue(k) = <<>> THEN browser.has /\ m.seq <= browser.view.seq + 1
            ELSE m.seq <= Queue(k)[Len(Queue(k))].seq + 1
        BY <2>4, <4>4, <4>6
      <4>8. /\ Linked(Queue(j)) /\ Queue(j) # <<>> /\ Queue(j)[Len(Queue(j))] = m
        BY <2>4, <4>3, <4>4, <4>7, LinkedAppend
      <4>9. Linked(Queue(j))' /\ Reach(j)' = s /\ Queue(j)' = Queue(j)
        <5>1. Queue(j)' = Queue(j)
          BY DEF Queue
        <5>2. j.pc = "read"
          BY <4>1, <4>2 DEF SameButQueue
        <5> QED
          BY <1>3, <2>4, <4>8, <5>1, <5>2 DEF Linked, Reach
      <4>10. j.snap.seq <= s /\ Len(j.pend) = 0 /\ (\A i \in DOMAIN j.pend : FALSE)
        BY <1>2, <2>10, <4>2 DEF Said
      <4> QED
        BY <2>3, <3>2, <4>8, <4>9, <4>10 DEF NoGap
    <3> QED
      BY <3>3, <3>4
  <2>13. j.closed => ~j.reg
    BY <1>4, <2>9 DEF SameButQueue
  <2> QED
    BY <2>2, <2>9, <2>10, <2>11, <2>12, <2>13
<1> QED
  BY <1>5, <1>6

LEMMA CastStream ==
    ASSUME NEW V, HubInv, StreamInv(V), NEW c \in Conns, Cast(c) PROVE StreamInv(V)'
<1>1. PICK j \in Connection :
              /\ conn' = [conn EXCEPT ![c] = j]
              /\ Len(j.send) <= QueueSize /\ (j.closed => ~j.reg) /\ Said(V, j) /\ Phase(c, j)
              /\ j.open => NoGap(c, j)'
  BY CastConn DEF HubInv
<1>2. /\ HubType /\ HotOrdered /\ step = "cast" /\ c \in targets /\ targets' = targets \ {c}
      /\ IF targets' = {} THEN step' = "idle" /\ hot' = Tail(hot) ELSE step' = "cast" /\ UNCHANGED hot
      /\ UNCHANGED <<events, market, browser>>
  BY DEF Cast, upstream, HubInv
<1>3. /\ StreamType /\ BeforeLoad /\ targets \subseteq 1..browser.conn
      /\ Past(V) /\ CastSays(V) /\ BrowserShows(V)
      /\ \A d \in Conns : /\ conn[d] \in Connection /\ Said(V, conn[d]) /\ Phase(d, conn[d])
                          /\ conn[d].open => NoGap(d, conn[d])
  BY DEF StreamInv, StreamType
<1>4. \A v, n, s : Apply(v, n, s)' = Apply(v, n, s)
  BY <1>2 DEF Apply, Without, Chosen
<1>5. \A m : Says(V, m)' <=> Says(V, m)
  BY <1>2, <1>4 DEF Says
<1>6. \A k : Said(V, k)' <=> Said(V, k)
  BY <1>2, <1>5 DEF Said
<1>7. conn' \in [Conns -> Connection] /\ conn'[c] = j /\ \A d \in Conns : d # c => conn'[d] = conn[d]
  BY <1>1, <1>3 DEF StreamType
<1>8. StreamType'
  BY <1>1, <1>2, <1>3, <1>7 DEF StreamType
<1>9. market.loaded
  BY <1>2 DEF HotOrdered
<1>10. BeforeLoad' /\ (targets \subseteq 1..browser.conn)' /\ BrowserShows(V)' /\ Past(V)'
  BY <1>2, <1>3, <1>9 DEF BeforeLoad, BrowserShows, Past
<1>11. CastSays(V)'
  BY <1>2, <1>3, <1>5 DEF CastSays, Delta
<1>12. ASSUME NEW d \in Conns
       PROVE  /\ Said(V, conn[d])' /\ Phase(d, conn[d])' /\ (conn[d].open => NoGap(d, conn[d]))'
  <2>1. PICK k : k = conn'[d]
    OBVIOUS
  <2>2. Said(V, k)' /\ Phase(d, k)'
    <3>1. Said(V, k) /\ Phase(d, k)
      BY <1>1, <1>3, <1>7, <2>1
    <3>2. browser' = browser
      BY <1>2
    <3>3. Phase(d, k)'
      BY <3>1, <3>2 DEF Phase
    <3> QED
      BY <1>6, <3>1, <3>3
  <2>3. k.open => NoGap(d, k)'
    <3>1. CASE d = c
      BY <1>1, <1>7, <2>1, <3>1
    <3>2. CASE d # c
      <4>1. k.open => NoGap(d, k)
        BY <1>3, <1>7, <2>1, <3>2
      <4>2. Offered(d)' = Offered(d)
        BY <1>2, <3>2 DEF Offered
      <4>3. NoGap(d, k) => NoGap(d, k)'
        BY <1>2, <4>2 DEF NoGap, Linked, Queue, Reach
      <4> QED
        BY <4>1, <4>3
    <3> QED
      BY <3>1, <3>2
  <2> QED
    BY <2>1, <2>2, <2>3
<1> QED
  BY <1>8, <1>10, <1>11, <1>12 DEF StreamInv

LEMMA ConnectStream == ASSUME NEW V, HubInv, StreamInv(V), Connect PROVE StreamInv(V)'
<1> DEFINE c == browser.conn + 1
<1>1. PICK j : j = RegisterMarket
  OBVIOUS
<1>2. /\ HubType /\ HubSame /\ UNCHANGED targets /\ browser.conn < MaxConns
      /\ browser.conn = 0 \/ ~browser.live
      /\ conn' = [conn EXCEPT ![c] = j]
      /\ browser' = [browser EXCEPT !.conn = c, !.live = TRUE]
  BY <1>1 DEF HubInv, Connect, KeepsRest, upstream, handler, HubSame
<1>3. Fresh(j)
  BY <1>1, RegisterIsFresh
<1>4. /\ StreamType /\ BeforeLoad /\ targets \subseteq 1..browser.conn
      /\ Past(V) /\ CastSays(V) /\ BrowserShows(V)
      /\ \A d \in Conns : /\ conn[d] \in Connection /\ Said(V, conn[d]) /\ Phase(d, conn[d])
  BY DEF StreamInv, StreamType
<1>5. Past(V)' /\ CastSays(V)' /\ \A k \in Connection : Said(V, k) => Said(V, k)'
  BY <1>2, <1>4, PastSame
<1>6. browser.conn \in 0..MaxConns /\ MaxConns \in Nat /\ Conns = 1..MaxConns
  BY <1>4, Bounds DEF StreamType, Conns
<1>7. c \in Conns /\ c > browser.conn /\ c \in 0..MaxConns /\ c \in Int
  BY <1>2, <1>6
<1>8. /\ browser' \in [conn : 0..MaxConns, live : BOOLEAN, has : BOOLEAN, view : View]
      /\ browser'.conn = c /\ browser'.live = TRUE /\ browser'.has = browser.has
      /\ browser'.view = browser.view
  BY <1>2, <1>4, <1>7 DEF StreamType
<1> HIDE DEF c
<1>9. conn' \in [Conns -> Connection] /\ conn'[c] = j /\ \A d \in Conns : d # c => conn'[d] = conn[d]
  BY <1>2, <1>3, <1>4, <1>7 DEF StreamType, Fresh
<1>10. Len(j.send) = 0 /\ QueueSize \in Nat \ {0} /\ j.closed = FALSE
  BY <1>3, Bounds DEF Fresh
<1>11. StreamType'
  BY <1>2, <1>4, <1>8, <1>9, <1>10 DEF StreamType
<1>12. BeforeLoad' /\ BrowserShows(V)'
  BY <1>2, <1>3, <1>4, <1>8, <1>9 DEF BeforeLoad, BrowserShows, HubSame, Fresh
<1>13. (targets \subseteq 1..browser.conn)'
  <2>1. \A x \in 1..browser.conn : x \in 1..c
    BY <1>6, <1>7
  <2> QED
    BY <1>2, <1>4, <1>8, <2>1
<1>14. market.view.seq \in Nat
  BY <1>2, HotFacts
<1>15. ASSUME NEW d \in Conns
       PROVE  /\ Said(V, conn[d])' /\ Phase(d, conn[d])' /\ (conn[d].open => NoGap(d, conn[d]))'
  <2>1. PICK k : k = conn'[d]
    OBVIOUS
  <2>2. CASE d = c
    <3>1. Fresh(k) /\ k \in Connection
      BY <1>3, <1>9, <2>1, <2>2 DEF Fresh
    <3>2. Said(V, k)
      <4>1. k.snap.seq = 0 /\ k.pc = "ensure" /\ market.view.seq \in Nat
        BY <1>14, <3>1, NoViewIsView DEF Fresh
      <4>2. Range(k.pend) = {} /\ Range(k.batch) = {} /\ Range(k.send) = {}
        BY <3>1 DEF Fresh, Range
      <4> QED
        BY <4>1, <4>2 DEF Said
    <3>3. Said(V, k)'
      BY <1>5, <3>1, <3>2
    <3>4. Phase(d, k)'
      BY <1>7, <1>8, <2>2, <3>1 DEF Phase, Fresh
    <3>5. NoGap(d, k)'
      <4>1. Queue(k)' = <<>> /\ k.pend = <<>> /\ k.pc = "ensure"
        BY <3>1 DEF Queue, Fresh
      <4> QED
        BY <4>1 DEF NoGap, Linked
    <3> QED
      BY <2>1, <3>3, <3>4, <3>5
  <2>3. CASE d # c
    <3>1. k \in Connection /\ Said(V, k) /\ Phase(d, k)
      BY <1>4, <1>9, <2>1, <2>3
    <3>2. Said(V, k)'
      BY <1>5, <3>1
    <3>3. ~k.open
      <4>1. ASSUME k.open PROVE FALSE
        <5>1. d = browser.conn /\ browser.live
          BY <3>1, <4>1 DEF Phase
        <5>2. d # 0
          BY <1>6
        <5> QED
          BY <1>2, <5>1, <5>2
      <4> QED
        BY <4>1
    <3>4. d > browser.conn <=> d > c
      <4>1. d \in Nat /\ c = browser.conn + 1 /\ browser.conn \in Nat
        BY <1>6 DEF c
      <4> QED
        BY <2>3, <4>1
    <3>5. Phase(d, k)'
      BY <1>8, <3>1, <3>3, <3>4 DEF Phase
    <3> QED
      BY <2>1, <3>2, <3>3, <3>5
  <2> QED
    BY <2>2, <2>3
<1> QED
  BY <1>5, <1>11, <1>12, <1>13, <1>15 DEF StreamInv

LEMMA OnCloseStream == ASSUME NEW V, HubInv, StreamInv(V), OnClose PROVE StreamInv(V)'
<1>1. /\ HubType /\ HubSame /\ UNCHANGED <<targets, conn>> /\ ~conn[browser.conn].open
      /\ browser' = [browser EXCEPT !.live = FALSE]
  BY DEF HubInv, OnClose, KeepsRest, upstream, handler, HubSame
<1>2. /\ StreamType /\ BeforeLoad /\ targets \subseteq 1..browser.conn
      /\ Past(V) /\ CastSays(V) /\ BrowserShows(V)
      /\ \A d \in Conns : /\ conn[d] \in Connection /\ Said(V, conn[d]) /\ Phase(d, conn[d])
  BY DEF StreamInv, StreamType
<1>3. Past(V)' /\ CastSays(V)' /\ \A k \in Connection : Said(V, k) => Said(V, k)'
  BY <1>1, <1>2, PastSame
<1>4. /\ browser' \in [conn : 0..MaxConns, live : BOOLEAN, has : BOOLEAN, view : View]
      /\ browser'.conn = browser.conn /\ browser'.has = browser.has /\ browser'.view = browser.view
  BY <1>1, <1>2 DEF StreamType
<1>5. StreamType' /\ BeforeLoad' /\ BrowserShows(V)' /\ (targets \subseteq 1..browser.conn)'
  BY <1>1, <1>2, <1>4 DEF StreamType, BeforeLoad, BrowserShows, HubSame
<1>6. ASSUME NEW d \in Conns
      PROVE  /\ Said(V, conn[d])' /\ Phase(d, conn[d])' /\ (conn[d].open => NoGap(d, conn[d]))'
  <2>1. PICK k : k = conn[d]
    OBVIOUS
  <2>2. k \in Connection /\ Said(V, k) /\ Phase(d, k) /\ conn'[d] = k
    BY <1>1, <1>2, <2>1
  <2>3. ~k.open
    BY <1>1, <2>1, <2>2 DEF Phase
  <2>4. Said(V, k)'
    BY <1>3, <2>2
  <2>5. Phase(d, k)'
    BY <1>4, <2>2, <2>3 DEF Phase
  <2> QED
    BY <2>2, <2>3, <2>4, <2>5
<1> QED
  BY <1>3, <1>5, <1>6 DEF StreamInv

\* The queue whose first message was taken.
LEMMA QueueTaken ==
    ASSUME NEW j \in Connection, NEW k \in Connection, k.send # <<>>,
           j.send = Tail(k.send), j.batch = k.batch
    PROVE  /\ Queue(k) \in Seq(Message) /\ Queue(j) \in Seq(Message)
           /\ Len(Queue(j)) = Len(Queue(k)) - 1 /\ Queue(k)[1] = Head(k.send) /\ Len(Queue(k)) >= 1
           /\ \A i \in 1..Len(Queue(j)) : Queue(j)[i] = Queue(k)[i + 1]
<1> DEFINE s == k.send
           b == k.batch
<1>1. s \in Seq(Message) /\ b \in Seq(Message) /\ Len(s) \in Nat /\ Len(b) \in Nat /\ Len(s) >= 1
  BY ConnectionParts
<1>2. /\ Len(j.send) = Len(s) - 1 /\ (\A i \in 1..(Len(s) - 1) : j.send[i] = s[i + 1])
      /\ j.batch = b /\ Head(s) = s[1]
  BY <1>1
<1>3. /\ Queue(k) \in Seq(Message) /\ Len(Queue(k)) = Len(s) + Len(b)
      /\ (\A i \in 1..Len(s) : Queue(k)[i] = s[i])
      /\ \A i \in 1..Len(b) : Queue(k)[Len(s) + i] = b[i]
  BY QueueParts
<1>4. /\ Queue(j) \in Seq(Message) /\ Len(Queue(j)) = Len(j.send) + Len(j.batch)
      /\ (\A i \in 1..Len(j.send) : Queue(j)[i] = j.send[i])
      /\ \A i \in 1..Len(j.batch) : Queue(j)[Len(j.send) + i] = j.batch[i]
  BY QueueParts
<1> HIDE DEF s, b
<1>5. Len(Queue(j)) = (Len(s) - 1) + Len(b) /\ Len(Queue(j)) = Len(Queue(k)) - 1 /\ Len(Queue(k)) >= 1
  BY <1>1, <1>2, <1>3, <1>4
<1>6. Queue(k)[1] = s[1]
  <2>1. 1 \in 1..Len(s)
    BY <1>1
  <2> QED
    BY <1>3, <2>1
<1>7. ASSUME NEW i \in 1..Len(Queue(j)) PROVE Queue(j)[i] = Queue(k)[i + 1]
  <2>1. CASE i <= Len(s) - 1
    <3>1. i \in 1..(Len(s) - 1) /\ i + 1 \in 1..Len(s)
      BY <1>1, <2>1
    <3> QED
      BY <1>2, <1>3, <1>4, <3>1
  <2>2. CASE i > Len(s) - 1
    <3> DEFINE x == i - (Len(s) - 1)
    <3>1. x \in 1..Len(b) /\ i = (Len(s) - 1) + x /\ i + 1 = Len(s) + x
      BY <1>1, <1>5, <2>2
    <3> HIDE DEF x
    <3>2. Queue(k)[i + 1] = b[x]
      BY <1>3, <3>1
    <3>3. Queue(j)[i] = b[x]
      <4>1. x \in 1..Len(j.batch) /\ Len(j.send) = Len(s) - 1
        BY <1>2, <3>1
      <4>2. Queue(j)[Len(j.send) + x] = j.batch[x]
        BY <1>4, <4>1
      <4> QED
        BY <1>2, <3>1, <4>1, <4>2
    <3> QED
      BY <3>2, <3>3
  <2> QED
    BY <1>1, <1>5, <2>1, <2>2
<1> QED
  BY <1>2, <1>3, <1>4, <1>5, <1>6, <1>7 DEF s

\* A message that follows what the browser has takes it to another of the hub's views.
LEMMA OnMessageEffect ==
    ASSUME NEW V, HubType, StreamType, Past(V), BrowserShows(V), NEW m \in Message, Says(V, m),
           m.t = "snapshot" \/ (browser.has /\ m.seq <= browser.view.seq + 1),
           NEW b, b = OnMessage(m)
    PROVE  /\ b \in [conn : 0..MaxConns, live : BOOLEAN, has : BOOLEAN, view : View]
           /\ b.conn = browser.conn /\ b.live = browser.live /\ b.has = TRUE
           /\ b.view = V[b.view.seq] /\ b.view.seq \in Nat /\ m.seq <= b.view.seq
           /\ b.view.seq <= market.view.seq
<1>1. /\ m.seq \in Nat /\ m.seq <= market.view.seq /\ m.view \in View /\ m.t \in {"snapshot", "delta"}
      /\ market.view.seq \in Nat /\ market.view.seq <= MaxEvents /\ MaxEvents \in Nat
  <2>1. market.view \in View
    BY HotFacts
  <2> QED
    BY <2>1, MessageParts, HotFacts, ViewParts, Bounds DEF Says
<1>2. /\ browser \in [conn : 0..MaxConns, live : BOOLEAN, has : BOOLEAN, view : View]
      /\ browser.view \in View
  BY DEF StreamType
<1>3. browser.view.seq \in Nat /\ browser.view.seq <= market.view.seq
  BY <1>2, ViewParts, Bounds DEF BrowserShows
<1>4. V[m.seq].seq = m.seq /\ V[m.seq] \in View
  BY <1>1 DEF Past
<1>5. CASE m.t = "snapshot"
  <2>1. b = [browser EXCEPT !.has = TRUE, !.view = m.view] /\ m.view = V[m.seq]
    BY <1>5 DEF OnMessage, Says
  <2>2. /\ b \in [conn : 0..MaxConns, live : BOOLEAN, has : BOOLEAN, view : View]
        /\ b.conn = browser.conn /\ b.live = browser.live /\ b.has = TRUE /\ b.view = m.view
    BY <1>1, <1>2, <2>1
  <2> QED
    BY <1>1, <1>4, <2>1, <2>2
<1>6. CASE m.t # "snapshot" /\ m.seq > browser.view.seq
  <2>1. /\ m.seq = browser.view.seq + 1 /\ browser.has /\ m.evt \in DOMAIN events
        /\ V[m.seq] = Apply(V[m.seq - 1], m.evt, m.seq)
    BY <1>1, <1>3, <1>6 DEF Says
  <2>2. browser.view = V[m.seq - 1]
    BY <1>3, <2>1 DEF BrowserShows
  <2>3. PICK v : v = Apply(browser.view, m.evt, m.seq)
    OBVIOUS
  <2>4. v = V[m.seq]
    BY <2>1, <2>2, <2>3
  <2>5. b = [browser EXCEPT !.view = v]
    BY <1>6, <2>1, <2>3 DEF OnMessage
  <2>6. /\ b \in [conn : 0..MaxConns, live : BOOLEAN, has : BOOLEAN, view : View]
        /\ b.conn = browser.conn /\ b.live = browser.live /\ b.has = browser.has /\ b.view = v
    BY <1>2, <1>4, <2>4, <2>5
  <2>7. browser.has = TRUE
    BY <1>2, <2>1
  <2> QED
    BY <1>1, <1>4, <2>4, <2>6, <2>7
<1>7. CASE m.t # "snapshot" /\ ~(m.seq > browser.view.seq)
  <2>1. b = browser /\ browser.has = TRUE
    BY <1>2, <1>7 DEF OnMessage
  <2>2. browser.view = V[browser.view.seq] /\ m.seq <= browser.view.seq
    BY <1>1, <1>3, <1>7, <2>1 DEF BrowserShows
  <2> QED
    BY <1>2, <1>3, <2>1, <2>2
<1> QED
  BY <1>5, <1>6, <1>7

LEMMA WritePumpStream ==
    ASSUME NEW V, HubInv, StreamInv(V), NEW c \in Conns, WritePump(c) PROVE StreamInv(V)'
<1>1. PICK k : k = conn[c]
  OBVIOUS
<1>2. PICK j : j = [k EXCEPT !.send = Tail(@)]
  OBVIOUS
<1>3. PICK m : m = Head(k.send)
  OBVIOUS
<1>4. PICK b : b = OnMessage(m)
  OBVIOUS
<1>5. /\ HubType /\ k.open /\ k.send # <<>> /\ HubSame /\ UNCHANGED targets
      /\ conn' = [conn EXCEPT ![c] = j]
      /\ browser' = IF browser.conn = c THEN b ELSE browser
  BY <1>1, <1>2, <1>3, <1>4 DEF HubInv, WritePump, KeepsRest, upstream, handler, HubSame
<1>6. /\ StreamType /\ BeforeLoad /\ targets \subseteq 1..browser.conn
      /\ Past(V) /\ CastSays(V) /\ BrowserShows(V)
      /\ \A d \in Conns : /\ conn[d] \in Connection /\ Said(V, conn[d]) /\ Phase(d, conn[d])
  BY DEF StreamInv, StreamType
<1>7. Past(V)' /\ CastSays(V)' /\ \A x \in Connection : Said(V, x) => Said(V, x)'
  BY <1>5, <1>6, PastSame
<1>8. /\ k \in Connection /\ Said(V, k) /\ Phase(c, k) /\ NoGap(c, k)
      /\ Len(k.send) <= QueueSize /\ (k.closed => ~k.reg)
      /\ (k.pc \notin {"off", "ensure"} => market.loaded)
      /\ market.view.seq \in Nat /\ Offered(c) \in Int /\ Offered(c) <= market.view.seq
      /\ browser.view.seq \in Nat
  BY <1>1, <1>5, ConnFacts
<1>9. k.pc \notin {"off", "ensure", "boot"} /\ market.loaded /\ browser.conn = c /\ browser' = b
  BY <1>5, <1>8, UnusedIsConnection DEF Phase
<1>10. k.send \in Seq(Message)
  BY <1>8, ConnectionParts
<1>11. /\ m \in Range(k.send) /\ m \in Message /\ Range(Tail(k.send)) \subseteq Range(k.send)
       /\ Tail(k.send) \in Seq(Message) /\ Len(Tail(k.send)) = Len(k.send) - 1 /\ Len(k.send) \in Nat
  BY <1>3, <1>5, <1>10, TailRange
<1>12. /\ j \in Connection /\ SameButQueue(j, k) /\ j.open = k.open /\ j.pend = k.pend
       /\ j.send = Tail(k.send)
  BY <1>2, <1>8, <1>11 DEF Connection, SameButQueue
<1>13. PICK Q \in Seq(Message) : Q = Queue(k)
  BY <1>8, QueueParts
<1>14. PICK R \in Seq(Message) : R = Queue(j)
  BY <1>12, QueueParts
<1>15. /\ Len(R) = Len(Q) - 1 /\ Q[1] = m /\ Len(Q) >= 1 /\ Len(Q) \in Nat
       /\ \A i \in 1..Len(R) : R[i] = Q[i + 1]
  <2>1. /\ Len(Queue(j)) = Len(Queue(k)) - 1 /\ Queue(k)[1] = Head(k.send) /\ Len(Queue(k)) >= 1
        /\ \A i \in 1..Len(Queue(j)) : Queue(j)[i] = Queue(k)[i + 1]
    BY <1>5, <1>8, <1>12, QueueTaken DEF SameButQueue
  <2> QED
    BY <1>3, <1>13, <1>14, <2>1
<1>16. Linked(Q) /\ Q # <<>>
  BY <1>8, <1>13, <1>15 DEF NoGap
<1>17. Says(V, m)
  BY <1>8, <1>11 DEF Said
<1>18. /\ b \in [conn : 0..MaxConns, live : BOOLEAN, has : BOOLEAN, view : View]
       /\ b.conn = browser.conn /\ b.live = browser.live /\ b.has = TRUE
       /\ b.view = V[b.view.seq] /\ b.view.seq \in Nat /\ m.seq <= b.view.seq
       /\ b.view.seq <= market.view.seq
  <2>1. m.t = "snapshot" \/ (browser.has /\ m.seq <= browser.view.seq + 1)
    BY <1>15, <1>16 DEF Linked
  <2> QED
    BY <1>4, <1>5, <1>6, <1>11, <1>17, <2>1, OnMessageEffect
<1>19. conn' \in [Conns -> Connection] /\ conn'[c] = j /\ \A d \in Conns : d # c => conn'[d] = conn[d]
  BY <1>5, <1>6, <1>12 DEF StreamType
<1>20. Len(j.send) <= QueueSize /\ (j.closed => ~j.reg)
  <2>1. Len(j.send) = Len(k.send) - 1 /\ QueueSize \in Nat
    BY <1>11, <1>12, Bounds
  <2> QED
    BY <1>8, <1>11, <1>12, <2>1 DEF SameButQueue
<1>21. StreamType'
  BY <1>5, <1>6, <1>9, <1>18, <1>19, <1>20 DEF StreamType
<1>22. BeforeLoad' /\ BrowserShows(V)' /\ (targets \subseteq 1..browser.conn)'
  BY <1>5, <1>6, <1>9, <1>18 DEF BeforeLoad, BrowserShows, HubSame
<1>23. NoGap(c, j)'
  <2>1. m.seq \in Nat
    BY <1>11, MessageParts
  <2>2. Offered(c)' = Offered(c)
    BY <1>5 DEF Offered, HubSame
  <2>3. Linked(R)'
    <3>1. \A i \in 2..Len(R) : R[i].t = "delta" /\ R[i].seq <= R[i - 1].seq + 1
      <4> TAKE i \in 2..Len(R)
      <4>1. i \in 1..Len(R) /\ i - 1 \in 1..Len(R) /\ i + 1 \in 2..Len(Q) /\ (i - 1) + 1 = (i + 1) - 1
        BY <1>15
      <4>2. R[i] = Q[i + 1] /\ R[i - 1] = Q[(i + 1) - 1]
        BY <1>15, <4>1
      <4> QED
        BY <1>16, <4>1, <4>2 DEF Linked
    <3>2. R # <<>> => R[1].seq <= b.view.seq + 1
      <4> HAVE R # <<>>
      <4>1. 1 \in 1..Len(R) /\ 2 \in 2..Len(Q) /\ 1 + 1 = 2 /\ 2 - 1 = 1
        BY <1>15
      <4>2. R[1] = Q[2] /\ Q[2].seq <= Q[2 - 1].seq + 1
        BY <1>15, <1>16, <4>1 DEF Linked
      <4>3. R[1] \in Message
        BY <4>1
      <4>4. R[1].seq \in Nat
        BY <4>3, MessageParts
      <4> QED
        BY <1>15, <1>18, <2>1, <4>1, <4>2, <4>4
    <3> QED
      BY <1>9, <1>18, <3>1, <3>2 DEF Linked
  <2>4. Reach(k) = Q[Len(Q)].seq
    BY <1>9, <1>13, <1>16 DEF Reach
  <2>5. Reach(j)' \in Nat /\ Reach(k) \in Nat /\ Reach(k) <= Reach(j)'
    <3>1. Q[Len(Q)] \in Message
      BY <1>15
    <3>2. Reach(k) \in Nat
      BY <2>4, <3>1, MessageParts
    <3>3. CASE R = <<>>
      <4>1. Len(Q) = 1
        BY <1>15, <3>3
      <4>2. Reach(j)' = b.view.seq
        BY <1>9, <1>12, <1>14, <3>3 DEF Reach, Queue, SameButQueue
      <4> QED
        BY <1>15, <1>18, <2>1, <2>4, <4>1, <4>2
    <3>4. CASE R # <<>>
      <4>1. Len(R) \in 1..Len(R) /\ Len(R) + 1 = Len(Q)
        BY <1>15, <3>4
      <4>2. R[Len(R)] = Q[Len(Q)]
        BY <1>15, <4>1
      <4>3. Reach(j)' = R[Len(R)].seq
        BY <1>9, <1>12, <1>14, <3>4 DEF Reach, Queue, SameButQueue
      <4> QED
        BY <2>4, <3>2, <4>2, <4>3
    <3> QED
      BY <3>2, <3>3, <3>4
  <2>6. k.snap.seq <= Reach(k) /\ Offered(c) - Len(k.pend) <= Reach(k)
    BY <1>8, <1>9 DEF NoGap
  <2>7. Len(k.pend) \in Nat /\ k.snap.seq \in Nat
    BY <1>8, ConnectionParts
  <2>8. k.snap.seq <= Reach(j)' /\ Offered(c)' - Len(k.pend) <= Reach(j)'
    BY <1>8, <2>2, <2>5, <2>6, <2>7
  <2>9. j.pend = k.pend /\ j.snap = k.snap /\ Queue(j)' = R /\ browser'.has
    BY <1>9, <1>12, <1>14, <1>18 DEF SameButQueue, Queue
  <2>10. \A i \in DOMAIN j.pend : j.pend[i].seq = Offered(c)' - Len(j.pend) + i
    BY <1>8, <2>2, <2>9 DEF NoGap
  <2> QED
    BY <2>3, <2>8, <2>9, <2>10 DEF NoGap
<1>24. ASSUME NEW d \in Conns
       PROVE  /\ Said(V, conn[d])' /\ Phase(d, conn[d])' /\ (conn[d].open => NoGap(d, conn[d]))'
  <2>1. CASE d = c
    <3>1. Said(V, j)
      BY <1>8, <1>11, <1>12 DEF Said, SameButQueue
    <3>2. Said(V, j)'
      BY <1>7, <1>12, <3>1
    <3>3. Phase(c, j)'
      BY <1>8, <1>9, <1>12, <1>18 DEF Phase, SameButQueue
    <3> QED
      BY <1>19, <1>23, <2>1, <3>2, <3>3
  <2>2. CASE d # c
    <3>1. PICK x : x = conn[d]
      OBVIOUS
    <3>2. x \in Connection /\ Said(V, x) /\ Phase(d, x) /\ conn'[d] = x
      BY <1>6, <1>19, <2>2, <3>1
    <3>3. ~x.open
      BY <1>9, <2>2, <3>2 DEF Phase
    <3>4. Said(V, x)'
      BY <1>7, <3>2
    <3>5. Phase(d, x)'
      BY <1>9, <1>18, <3>2, <3>3 DEF Phase
    <3> QED
      BY <3>2, <3>3, <3>4, <3>5
  <2> QED
    BY <2>1, <2>2
<1> QED
  BY <1>7, <1>21, <1>22, <1>24 DEF StreamInv

-----------------------------------------------------------------------------
(* Pusher: the feed *)

FeedInv == HubInv /\ \E V : StreamInv(V)

LEMMA WriterAppliesHub == ASSUME HubInv, WriterApplies PROVE HubInv'
<1>1. /\ HubType /\ HotOrdered /\ LoadSound /\ DepthTracks /\ writer < Len(events) /\ writer' = writer + 1
      /\ UNCHANGED <<events, started, hot, lost, blind, market, loading, step, panicked>>
  BY DEF HubInv, WriterApplies, handler
<1>2. HotOrdered' /\ DepthTracks' /\ Waiting' = Waiting
  BY <1>1 DEF HotOrdered, DepthTracks, Waiting, IsLast
<1>3. writer \in Nat /\ Len(events) \in Nat /\ writer' \in 0..Len(events)
  BY <1>1 DEF HubType
<1>4. HubType'
  BY <1>1, <1>3 DEF HubType
<1>5. loading.at \in Nat
  BY <1>1, Bounds DEF HubType
<1>6. LoadSound'
  BY <1>1, <1>2, <1>3, <1>5 DEF LoadSound, DepthAt
<1> QED
  BY <1>2, <1>4, <1>6 DEF HubInv

LEMMA InitHub == ASSUME FeedInit PROVE HubInv
<1>1. NoDepth \in [Levels -> 0..MaxEvents] /\ MaxEvents \in Nat /\ <<>> \in Seq(SUBSET Levels)
  BY Bounds DEF NoDepth
<1>2. HubType
  <2>1. market \in [loaded : BOOLEAN, view : View] /\ ~(market.view.seq > 0)
    BY NoViewIsView DEF FeedInit
  <2>2. loading \in [depth : [Levels -> 0..MaxEvents], at : 0..MaxEvents, held : BOOLEAN]
    BY <1>1 DEF FeedInit
  <2>3. /\ events = <<>> /\ hot = <<>> /\ Len(events) = 0 /\ writer = 0 /\ started = FALSE
        /\ lost = {} /\ blind = {} /\ step = "idle" /\ panicked = FALSE
    BY DEF FeedInit
  <2>4. hot \in Seq(DOMAIN events) /\ writer \in 0..Len(events) /\ Len(events) <= MaxEvents
    BY <1>1, <2>3
  <2> QED
    BY <1>1, <2>1, <2>2, <2>3, <2>4 DEF HubType
<1>3. DOMAIN events = {} /\ DOMAIN hot = {} /\ Len(events) = 0 /\ Waiting = {}
      /\ market.view.seq = 0 /\ ~market.loaded /\ ~loading.held /\ step = "idle"
  BY NoViewIsView DEF FeedInit, Waiting
<1>4. HotOrdered /\ LoadSound /\ DepthTracks
  BY <1>3 DEF HotOrdered, LoadSound, DepthTracks
<1> QED
  BY <1>2, <1>4 DEF HubInv

LEMMA InitStream == ASSUME FeedInit PROVE \E V : StreamInv(V)
<1> DEFINE V == [s \in 0..MaxEvents |-> NoView]
<1>1. MaxEvents \in Nat /\ QueueSize \in Nat /\ MaxConns \in Nat /\ Conns = 1..MaxConns
  BY Bounds DEF Conns
<1>2. V \in [0..MaxEvents -> View] /\ V[0] = NoView
  BY <1>1, NoViewIsView
<1> HIDE DEF V
<1>3. /\ market.loaded = FALSE /\ market.view = NoView /\ step = "idle" /\ targets = {}
      /\ browser.conn = 0 /\ browser.live = FALSE /\ browser.has = FALSE /\ browser.view = NoView
      /\ \A c \in Conns : conn[c] = Unused
  BY DEF FeedInit
<1>4. StreamType
  <2>1. browser \in [conn : 0..MaxConns, live : BOOLEAN, has : BOOLEAN, view : View]
    BY <1>1, NoViewIsView DEF FeedInit
  <2>2. conn \in [Conns -> Connection]
    BY UnusedIsConnection DEF FeedInit
  <2>3. Len(Unused.send) <= QueueSize /\ (Unused.closed => ~Unused.reg)
    BY <1>1, UnusedIsConnection
  <2> QED
    BY <1>3, <2>1, <2>2, <2>3 DEF StreamType
<1>5. Past(V)
  <2>1. \A s \in 0..0 : s = 0
    OBVIOUS
  <2>2. IsInjective(NoView.trades)
    BY NoViewIsView DEF IsInjective
  <2> QED
    BY <1>2, <1>3, <2>1, <2>2, NoViewIsView DEF Past
<1>6. BeforeLoad /\ targets \subseteq 1..browser.conn /\ CastSays(V) /\ BrowserShows(V)
  BY <1>3, UnusedIsConnection, NoViewIsView DEF BeforeLoad, CastSays, BrowserShows
<1>7. ASSUME NEW c \in Conns
      PROVE  Said(V, conn[c]) /\ Phase(c, conn[c]) /\ ~conn[c].open
  <2>1. Range(<<>>) = {}
    BY DEF Range
  <2>2. Said(V, Unused)
    BY <1>3, <2>1, UnusedIsConnection, NoViewIsView DEF Said
  <2>3. c > browser.conn
    BY <1>1, <1>3
  <2>4. Phase(c, Unused)
    BY <2>3, UnusedIsConnection DEF Phase
  <2> QED
    BY <1>3, <2>2, <2>4, UnusedIsConnection
<1>8. StreamInv(V)
  BY <1>4, <1>5, <1>6, <1>7 DEF StreamInv
<1> QED
  BY <1>8

\* A connection, its goroutines or the browser take a step.
ClientStep ==
    \/ Connect \/ OnClose
    \/ \E c \in Conns : ServeMarketWS(c) \/ Disconnect(c)

LEMMA ClientHub == ASSUME HubInv, ClientStep PROVE HubInv'
<1>1. KeepsRest
  BY DEF ClientStep, Connect, OnClose, ServeMarketWS, BuildMarketSnapshot, SendSnapshot, DrainPending,
         SendPending, WritePump, Unregister, Disconnect
<1>2. UNCHANGED <<events, writer, hot, lost, blind, market, loading, step>>
      /\ started' = started /\ panicked' = panicked
  BY <1>1 DEF KeepsRest, upstream, handler
<1>3. started' \in BOOLEAN /\ panicked' \in BOOLEAN
  BY <1>2 DEF HubInv, HubType
<1> QED
  BY <1>2, <1>3, HubStays

LEMMA ClientStream == ASSUME NEW V, HubInv, StreamInv(V), ClientStep PROVE StreamInv(V)'
<1>1. CASE Connect
  BY <1>1, ConnectStream
<1>2. CASE OnClose
  BY <1>2, OnCloseStream
<1>3. ASSUME NEW c \in Conns, ServeMarketWS(c) \/ Disconnect(c) PROVE StreamInv(V)'
  BY <1>3, BuildStream, SendSnapshotStream, DrainStream, SendPendingStream, WritePumpStream,
     DisconnectStream DEF ServeMarketWS
<1> QED
  BY <1>1, <1>2, <1>3 DEF ClientStep

LEMMA FeedStep == ASSUME FeedInv, [FeedNext]_feedVars PROVE FeedInv'
<1>1. HubInv /\ HubType /\ HotOrdered
  BY DEF FeedInv, HubInv
<1>2. PICK V : StreamInv(V)
  BY DEF FeedInv
<1>3. CASE PublishMarketDelta
  BY <1>1, <1>2, <1>3, PublishHub, PublishStream DEF FeedInv
<1>4. CASE WriterApplies
  <2>1. HubSame /\ UNCHANGED <<targets, conn, browser>>
    BY <1>4 DEF WriterApplies, handler, HubSame
  <2> QED
    BY <1>1, <1>2, <1>4, <2>1, WriterAppliesHub, StreamStays DEF FeedInv
<1>5. CASE EnsureSubscription
  <2>1. HubSame /\ UNCHANGED <<targets, conn, browser>>
    BY <1>5 DEF EnsureSubscription, handler, HubSame
  <2>2. UNCHANGED <<events, writer, hot, lost, blind, market, loading, step>>
        /\ started' = TRUE /\ panicked' = panicked
    BY <1>5 DEF EnsureSubscription, handler
  <2>3. started' \in BOOLEAN /\ panicked' \in BOOLEAN
    BY <1>1, <2>2 DEF HubType
  <2> QED
    BY <1>1, <1>2, <2>1, <2>2, <2>3, HubStays, StreamStays DEF FeedInv
<1>6. ASSUME NEW w, LoadOrderbook(w) PROVE FeedInv'
  <2>1. HubSame /\ UNCHANGED <<targets, conn, browser>>
    BY <1>6 DEF LoadOrderbook, upstream, handler, HubSame
  <2> QED
    BY <1>1, <1>2, <1>6, <2>1, LoadOrderbookHub, StreamStays DEF FeedInv
<1>7. CASE LoadTrades
  BY <1>1, <1>2, <1>7, LoadTradesHub, LoadTradesStream DEF FeedInv
<1>8. CASE ApplyMatchEvent
  BY <1>1, <1>2, <1>8, ApplyHub, ApplyStream DEF FeedInv
<1>9. CASE CopyRoom
  BY <1>1, <1>2, <1>9, CopyRoomHub, CopyRoomStream DEF FeedInv
<1>10. ASSUME NEW c \in Conns, Cast(c) PROVE FeedInv'
  BY <1>1, <1>2, <1>10, CastHub, CastStream DEF FeedInv
<1>11. CASE ClientStep
  BY <1>1, <1>2, <1>11, ClientHub, ClientStream DEF FeedInv
<1>12. CASE UNCHANGED feedVars
  <2>1. HubSame /\ UNCHANGED <<targets, conn, browser>>
    BY <1>12 DEF feedVars, handler, upstream, HubSame
  <2>2. UNCHANGED <<events, writer, hot, lost, blind, market, loading, step>>
        /\ started' = started /\ panicked' = panicked
    BY <1>12 DEF feedVars, handler, upstream
  <2>3. started' \in BOOLEAN /\ panicked' \in BOOLEAN
    BY <1>1, <2>2 DEF HubType
  <2> QED
    BY <1>1, <1>2, <2>1, <2>2, <2>3, HubStays, StreamStays DEF FeedInv
<1> QED
  BY <1>3, <1>4, <1>5, <1>6, <1>7, <1>8, <1>9, <1>10, <1>11, <1>12
     DEF FeedNext, Load, HandleMessage, ClientStep

\* The hub follows the events in order, and the messages on the way to a browser continue what it
\* shows, without a gap: see Past, Says and NoGap.
THEOREM FeedInvHolds == FeedSpec => []FeedInv
<1>1. FeedInit => FeedInv
  BY InitHub, InitStream DEF FeedInv
<1>2. FeedInv /\ [FeedNext]_feedVars => FeedInv'
  BY FeedStep
<1> QED
  BY <1>1, <1>2, PTL DEF FeedSpec

\* As many elements as places when none is there twice.
LEMMA InjectiveCount ==
    ASSUME NEW S, NEW s \in Seq(S), IsInjective(s) PROVE Cardinality(Range(s)) = Len(s)
<1>1. Len(s) \in Nat /\ DOMAIN s = 1..Len(s)
  OBVIOUS
<1>2. s \in [1..Len(s) -> Range(s)]
  BY <1>1 DEF Range
<1>3. s \in Bijection(1..Len(s), Range(s))
  BY <1>1, <1>2 DEF Bijection, Injection, Surjection, IsInjective, Range
<1>4. ExistsBijection(1..Len(s), Range(s))
  BY <1>3 DEF ExistsBijection
<1> QED
  BY <1>1, <1>4, FS_CountingElements

\* The type of the feed holds of every reachable state.
LEMMA FeedTyped == ASSUME FeedInv PROVE FeedTypeOK
BY DEF FeedInv, HubInv, HubType, StreamInv, StreamType, FeedTypeOK

\* HubSound is about the order of hot events, the load and the writer (ensureLoaded,
\* applyMatchEvent): the depth becomes the matcher's and no trade is shown twice.
THEOREM HubSoundHolds == FeedSpec => []HubSound
<1>1. ASSUME FeedInv PROVE DepthConverges
  <2>1. HubType /\ HotOrdered /\ DepthTracks
    BY <1>1 DEF FeedInv, HubInv
  <2>2. SUFFICES ASSUME market.loaded, hot = <<>>, blind = {}
                 PROVE  market.view.depth = DepthAt(Len(events))
    BY DEF DepthConverges
  <2>3. Waiting = {}
    BY <2>1, <2>2, HotFacts
  <2>4. ASSUME NEW l \in Levels PROVE market.view.depth[l] = DepthAt(Len(events))[l]
    <3>1. DepthAt(Len(events))[l] \in Nat /\ IsLast(DepthAt(Len(events))[l], l)
      BY <2>1, DepthAtIsLast
    <3>2. DepthAt(Len(events))[l] \in 0..Len(events)
      BY <2>1, <3>1, HotFacts DEF IsLast
    <3> QED
      BY <2>1, <2>2, <2>3, <3>1, <3>2 DEF DepthTracks
  <2>5. market.view.depth \in [Levels -> 0..MaxEvents] /\ DepthAt(Len(events)) \in [Levels -> 0..MaxEvents]
    <3>1. market.view \in View /\ Len(events) \in 0..Len(events)
      BY <2>1, HotFacts
    <3> QED
      BY <2>1, <3>1, ViewParts, DepthAtType
  <2> QED
    BY <2>4, <2>5
<1>2. ASSUME FeedInv PROVE TradesOnce
  <2>1. PICK V : StreamInv(V)
    BY <1>2 DEF FeedInv
  <2>2. Past(V) /\ BrowserShows(V) /\ browser.view \in View /\ market.view \in View /\ market.view.seq \in Nat
    BY <1>2, <2>1, HotFacts DEF StreamInv, StreamType, FeedInv, HubInv
  <2>3. browser.view.seq \in Nat
    BY <2>2, ViewParts, Bounds
  <2>4. IsInjective(market.view.trades)
    BY <2>2 DEF Past
  <2>5. IsInjective(browser.view.trades)
    <3>1. IsInjective(NoView.trades)
      BY NoViewIsView DEF IsInjective
    <3>2. browser.has => IsInjective(browser.view.trades)
      BY <2>2, <2>3 DEF Past, BrowserShows
    <3> QED
      BY <2>2, <3>1, <3>2 DEF BrowserShows
  <2>6. market.view.trades \in Seq(1..MaxEvents) /\ browser.view.trades \in Seq(1..MaxEvents)
    BY <2>2, ViewParts
  <2> QED
    BY <2>4, <2>5, <2>6, InjectiveCount DEF TradesOnce
<1>3. FeedInv => HubSound
  BY <1>1, <1>2 DEF HubSound
<1> QED
  BY <1>3, FeedInvHolds, PTL

\* FeedSound is about a snapshot that is built while deltas come (ServeMarketWS, enqueueMarket,
\* finishMarketBootstrap), full queues and browsers that connect again: a browser that has the
\* hub's number has the hub's state.
THEOREM FeedSoundHolds == FeedSpec => []FeedSound
<1>1. ASSUME FeedInv PROVE BrowserFollows
  <2>1. PICK V : StreamInv(V)
    BY <1>1 DEF FeedInv
  <2> QED
    BY <2>1 DEF StreamInv, Past, BrowserShows, BrowserFollows
<1>2. FeedInv => FeedSound
  BY <1>1, FeedTyped DEF FeedSound
<1> QED
  BY <1>2, FeedInvHolds, PTL
=============================================================================
