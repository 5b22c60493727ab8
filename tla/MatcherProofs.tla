---------------------------- MODULE MatcherProofs ----------------------------
(***************************************************************************)
(* Proofs about the matcher: about the order book of a market (OrderBook)  *)
(* for every scale of prices, every set of orders that passes validation,  *)
(* every timestamp and every number of orders, and about the actor around  *)
(* it (MatcherActor) for every number of commands, every choice of the     *)
(* ones that take or close, every channel capacity and every number of     *)
(* failed publishes, failed cursor writes and restarts.                    *)
(***************************************************************************)
EXTENDS OrderBook, MatcherActor, ArithmeticProofs, SequenceTheorems, WellFoundedInduction

-----------------------------------------------------------------------------
(* The order book: the inductive invariant *)

\* The side and price a book gives an order are the normalized ones of what its owner signed.
Normalized(o) ==
    /\ o.side = NormalizedSide(o.action, o.outcome)
    /\ o.price = NormalizedPrice(o.outcome, o.limit)

\* A queue of the book: orders of one side and price, none later than the n-th, in order of
\* arrival, each with lots left.
Queued(queue, s, p, n) ==
    /\ queue \in Seq(OrderRecord)
    /\ \A i \in 1 .. Len(queue) :
         /\ queue[i].side = s /\ queue[i].price = p /\ Normalized(queue[i])
         /\ queue[i].qty > 0 /\ queue[i].id <= n
    /\ \A i, j \in 1 .. Len(queue) : i < j => queue[i].id < queue[j].id

EachQueued(lv, n) ==
    /\ lv \in [Sides -> [Prices -> Seq(OrderRecord)]]
    /\ \A s \in Sides, p \in Prices : Queued(lv[s][p], s, p, n)

EachCounted(lv, vl) ==
    /\ vl \in [Sides -> [Prices -> Nat]]
    /\ \A s \in Sides, p \in Prices : vl[s][p] = SumQty(lv[s][p])

\* An order stands in one level.
OneLevel(lv) ==
    \A s1, s2 \in Sides, p1, p2 \in Prices :
        IdsOf(lv[s1][p1]) \intersect IdsOf(lv[s2][p2]) # {} => s1 = s2 /\ p1 = p2

AllIds(lv) == UNION {IdsOf(lv[s][p]) : s \in Sides, p \in Prices}

\* The structures of a book lv with volumes vl and Orders map ids, no order later than the n-th.
Structure(lv, vl, ids, n) ==
    EachQueued(lv, n) /\ EachCounted(lv, vl) /\ OneLevel(lv) /\ ids = AllIds(lv)

\* b is the best price of side s of the book lv, 0 when the side is empty.
BestRight(lv, s, b) ==
    /\ b = 0 <=> \A p \in Prices : lv[s][p] = <<>>
    /\ b # 0 => /\ b \in Prices /\ lv[s][b] # <<>>
                /\ \A p \in Prices : lv[s][p] # <<>> => ~Better(s, p, b)

Uncrossed(lv) ==
    \A b, a \in Prices : lv["buy"][b] # <<>> /\ lv["sell"][a] # <<>> => b < a

\* The last order that may be in the book: the taker is not.
Latest == IF phase = "idle" THEN count ELSE count - 1

\* The match has not reached the price p of side s yet.
NoneBefore(lv, s, t) == \A p \in Prices : Better(s, p, t) => lv[s][p] = <<>>

SideEmpty(lv, s) == \A p \in Prices : lv[s][p] = <<>>

\* The loop stands at the head of the level, or has emptied it.
LoopAtHead(queue, id) == IF queue = <<>> THEN id = 0 ELSE id = queue[1].id

Reaches(o, t) == IF o.side = "buy" THEN t <= o.price ELSE t >= o.price

\* A match: the taker is the last order placed and not in the book, every price before the one the
\* loop has reached is empty, and the maker under the loop is the head of its level.
Matching ==
    /\ taker \in OrderRecord /\ taker.id = count /\ Normalized(taker)
    /\ NoneBefore(levels, MakerSide, target)
    /\ target \notin Prices \/ phase = "done" => SideEmpty(levels, MakerSide)
    /\ phase = "maker" => /\ target \in Prices /\ Reaches(taker, target)
                          /\ ~IsFilled(taker) => LoopAtHead(Level, maker)

BestKnown == \A s \in Sides : phase = "idle" \/ s # MakerSide => BestRight(levels, s, best[s])

\* Only the level of the loop may differ from the depth published, if readers got every sweep.
DepthKnown ==
    missed \/ \A s \in Sides, p \in Prices :
        \/ depth[s][p] = SumQty(levels[s][p])
        \/ phase = "maker" /\ s = MakerSide /\ p = target

Open == {"new", "partially_filled"}

StatusKnown == missed \/ \A id \in Ids : id \in orders <=> status[id] \in Open

\* What holds of a book until a sweep that removes orders comes between the steps of a match, or
\* a restart brings swept orders back.
BookInv ==
    /\ BookTypeOK
    /\ Structure(levels, vol, orders, Latest)
    /\ Uncrossed(levels)
    /\ BestKnown /\ DepthKnown /\ StatusKnown
    /\ phase # "idle" => Matching
    /\ phase = "idle" => taker = NoOrder
    /\ PriceTimePriority /\ FillIsAgreed
-----------------------------------------------------------------------------
(* Prices *)

LEMMA PricesFinite == IsFiniteSet(Prices) /\ Prices \subseteq Nat
<1>1. 1 \in Int /\ Scale - 1 \in Int
  BY ScaleAssumption
<1> QED
  BY <1>1, FS_Interval DEF Prices

\* A set of prices has a lowest and a highest one, which Min and Max name.
LEMMA LowestPrice ==
    ASSUME NEW S \in SUBSET Prices, S # {}
    PROVE  Min(S) \in S /\ \A p \in S : Min(S) <= p
<1> DEFINE f == [p \in S |-> 0 - p]
<1>1. IsFiniteSet(S) /\ S \subseteq Nat
  BY PricesFinite, FS_Subset
<1>2. \A p \in S : f[p] \in Int
  BY <1>1
<1>3. PICK m \in S : \A p \in S : f[m] >= f[p]
  <2> HIDE DEF f
  <2> QED
    BY <1>1, <1>2, GreatestExists
<1>4. \A p \in S : m <= p
  <2> TAKE p \in S
  <2>1. f[m] >= f[p] /\ m \in Nat /\ p \in Nat
    BY <1>1, <1>3
  <2> QED
    BY <2>1
<1> QED
  BY <1>4 DEF Min

LEMMA HighestPrice ==
    ASSUME NEW S \in SUBSET Prices, S # {}
    PROVE  Max(S) \in S /\ \A p \in S : p <= Max(S)
<1> DEFINE f == [p \in S |-> p]
<1>1. IsFiniteSet(S) /\ S \subseteq Nat
  BY PricesFinite, FS_Subset
<1>2. \A p \in S : f[p] \in Int
  BY <1>1
<1>3. PICK m \in S : \A p \in S : f[m] >= f[p]
  <2> HIDE DEF f
  <2> QED
    BY <1>1, <1>2, GreatestExists
<1>4. \A p \in S : p <= m
  <2> TAKE p \in S
  <2>1. f[m] >= f[p] /\ m \in Nat /\ p \in Nat
    BY <1>1, <1>3
  <2> QED
    BY <2>1
<1> QED
  BY <1>4 DEF Max

\* Min names the least of a set of positions.
LEMMA LeastOf ==
    ASSUME NEW l \in Nat, NEW S \in SUBSET (1 .. l), S # {}
    PROVE  Min(S) \in 1 .. l
<1> DEFINE f == [i \in S |-> 0 - i]
<1>1. IsFiniteSet(S) /\ S \subseteq Nat
  <2>1. 1 \in Int /\ l \in Int
    OBVIOUS
  <2>2. IsFiniteSet(1 .. l)
    BY <2>1, FS_Interval
  <2>3. IsFiniteSet(S)
    BY <2>2, FS_Subset
  <2> QED
    BY <2>3
<1>2. \A i \in S : f[i] \in Int
  BY <1>1
<1>3. PICK m \in S : \A i \in S : f[m] >= f[i]
  <2> HIDE DEF f
  <2> QED
    BY <1>1, <1>2, GreatestExists
<1>4. \A i \in S : m <= i
  <2> TAKE i \in S
  <2>1. f[m] >= f[i] /\ m \in Nat /\ i \in Nat
    BY <1>1, <1>3
  <2> QED
    BY <2>1
<1> QED
  BY <1>4 DEF Min

LEMMA MinOfTwo ==
    ASSUME NEW a \in Nat, NEW b \in Nat
    PROVE  Min({a, b}) = IF a <= b THEN a ELSE b
BY DEF Min

LEMMA MaxOfTwo ==
    ASSUME NEW a \in Nat, NEW b \in Nat
    PROVE  Max({a, b}) = IF a >= b THEN a ELSE b
BY DEF Max

LEMMA SideFacts ==
    /\ \A s \in Sides : Opposite(s) \in Sides /\ Opposite(s) # s
    /\ Opposite("buy") = "sell" /\ Opposite("sell") = "buy"
BY DEF Sides, Opposite

\* The scan of updateBestAsk and updateBestBid finds the best price when no price before its start
\* has an order.
LEMMA BestFromRight ==
    ASSUME NEW lv, NEW volumes, NEW s \in Sides, NEW start \in Int,
           \A p \in Prices : volumes[p] > 0 <=> lv[s][p] # <<>>,
           NoneBefore(lv, s, start)
    PROVE  BestRight(lv, s, BestFrom(volumes, s, start))
<1> DEFINE there == {p \in Prices : volumes[p] > 0 /\ IF s = "sell" THEN p >= start ELSE p <= start}
<1>1. Prices \subseteq Nat /\ 0 \notin Prices
  BY PricesFinite DEF Prices
<1>2. \A p \in Prices : lv[s][p] # <<>> <=> p \in there
  BY <1>1 DEF NoneBefore, Better, Sides
<1>3. there \in SUBSET Prices
  OBVIOUS
<1>4. BestFrom(volumes, s, start) = IF there = {} THEN 0
                                    ELSE IF s = "sell" THEN Min(there) ELSE Max(there)
  BY DEF BestFrom
<1> HIDE DEF there
<1>5. CASE there = {}
  <2>1. BestFrom(volumes, s, start) = 0
    BY <1>4, <1>5
  <2> QED
    BY <1>2, <1>5, <2>1 DEF BestRight
<1>6. CASE there # {} /\ s = "sell"
  <2>1. BestFrom(volumes, s, start) = Min(there)
    BY <1>4, <1>6
  <2>2. Min(there) \in there /\ \A p \in there : Min(there) <= p
    BY <1>3, <1>6, LowestPrice
  <2>3. PICK m \in there : m = Min(there) /\ \A p \in there : m <= p
    BY <2>2
  <2>4. m \in Prices /\ m # 0 /\ lv[s][m] # <<>>
    BY <1>1, <1>2, <1>3, <2>3
  <2>5. \A p \in Prices : lv[s][p] # <<>> => ~ (p < m)
    BY <1>1, <1>2, <2>3, <2>4
  <2>6. \A p \in Prices : Better(s, p, m) <=> p < m
    BY <1>6 DEF Better
  <2> QED
    BY <2>1, <2>3, <2>4, <2>5, <2>6 DEF BestRight
<1>7. CASE there # {} /\ s = "buy"
  <2>1. BestFrom(volumes, s, start) = Max(there)
    BY <1>4, <1>7
  <2>2. Max(there) \in there /\ \A p \in there : p <= Max(there)
    BY <1>3, <1>7, HighestPrice
  <2>3. PICK m \in there : m = Max(there) /\ \A p \in there : p <= m
    BY <2>2
  <2>4. m \in Prices /\ m # 0 /\ lv[s][m] # <<>>
    BY <1>1, <1>2, <1>3, <2>3
  <2>5. \A p \in Prices : lv[s][p] # <<>> => ~ (p > m)
    BY <1>1, <1>2, <2>3, <2>4
  <2>6. \A p \in Prices : Better(s, p, m) <=> p > m
    BY <1>7 DEF Better
  <2> QED
    BY <2>1, <2>3, <2>4, <2>5, <2>6 DEF BestRight
<1> QED
  BY <1>5, <1>6, <1>7 DEF Sides

\* A book has one best price a side.
LEMMA BestUnique ==
    ASSUME NEW lv, NEW s \in Sides, NEW a, NEW b, BestRight(lv, s, a), BestRight(lv, s, b)
    PROVE  a = b
<1>1. CASE a = 0 \/ b = 0
  BY <1>1 DEF BestRight
<1>2. CASE a # 0 /\ b # 0
  <2>1. a \in Nat /\ b \in Nat /\ ~Better(s, a, b) /\ ~Better(s, b, a)
    BY <1>2, PricesFinite DEF BestRight
  <2> QED
    BY <2>1 DEF Better
<1> QED
  BY <1>1, <1>2

LEMMA BestType ==
    ASSUME NEW lv, NEW s \in Sides, NEW b, BestRight(lv, s, b)
    PROVE  b \in Prices \union {0}
BY DEF BestRight
-----------------------------------------------------------------------------
(* Orders *)

LEMMA Fields ==
    ASSUME NEW o \in OrderRecord
    PROVE  /\ o.id \in Ids /\ o.id \in Nat /\ o.id # 0 /\ o.action \in Sides
           /\ o.outcome \in {"yes", "no"} /\ o.type \in {"limit", "market"} /\ o.side \in Sides
           /\ o.limit \in Prices /\ o.price \in Prices /\ o.qty \in Nat /\ o.spend \in Nat
<1> DEFINE W == {cmd.wallet : cmd \in Commands}
<1>1. o \in [id : Ids, wallet : W, action : {"buy", "sell"},
             outcome : {"yes", "no"}, type : {"limit", "market"}, limit : Prices, side : Sides,
             price : Prices, qty : Nat, spend : Nat, expire : Nat]
  BY DEF OrderRecord
<1> HIDE DEF W
<1>2. Ids \subseteq Nat \ {0}
  BY DEF Ids
<1> QED
  BY <1>1, <1>2 DEF Sides

\* A fill changes the lots or the money of an order and nothing else.
LEMMA QtyChanged ==
    ASSUME NEW o \in OrderRecord, NEW x \in Nat, NEW r, r = [o EXCEPT !.qty = x]
    PROVE  /\ r \in OrderRecord /\ r.qty = x /\ r.id = o.id /\ r.side = o.side
           /\ r.price = o.price /\ r.action = o.action /\ r.outcome = o.outcome
           /\ r.type = o.type /\ r.limit = o.limit /\ r.spend = o.spend
<1> DEFINE W == {cmd.wallet : cmd \in Commands}
<1>1. OrderRecord =
        [id : Ids, wallet : W, action : {"buy", "sell"},
         outcome : {"yes", "no"}, type : {"limit", "market"}, limit : Prices, side : Sides,
         price : Prices, qty : Nat, spend : Nat, expire : Nat]
  BY DEF OrderRecord
<1> HIDE DEF W
<1> QED
  BY <1>1

LEMMA SpendChanged ==
    ASSUME NEW o \in OrderRecord, NEW x \in Nat, NEW r, r = [o EXCEPT !.spend = x]
    PROVE  /\ r \in OrderRecord /\ r.qty = o.qty /\ r.id = o.id /\ r.side = o.side
           /\ r.price = o.price /\ r.action = o.action /\ r.outcome = o.outcome
           /\ r.type = o.type /\ r.limit = o.limit /\ r.spend = x
<1> DEFINE W == {cmd.wallet : cmd \in Commands}
<1>1. OrderRecord =
        [id : Ids, wallet : W, action : {"buy", "sell"},
         outcome : {"yes", "no"}, type : {"limit", "market"}, limit : Prices, side : Sides,
         price : Prices, qty : Nat, spend : Nat, expire : Nat]
  BY DEF OrderRecord
<1> HIDE DEF W
<1> QED
  BY <1>1

\* InitFromCmd gives an order of the book.
LEMMA OrderOfCommand ==
    ASSUME NEW cmd \in Commands, NEW id \in Ids, NEW o, o = Order(cmd, id)
    PROVE  o \in OrderRecord /\ Normalized(o) /\ o.id = id
<1> DEFINE W == {c.wallet : c \in Commands}
<1>1. OrderRecord =
        [id : Ids, wallet : W, action : {"buy", "sell"},
         outcome : {"yes", "no"}, type : {"limit", "market"}, limit : Prices, side : Sides,
         price : Prices, qty : Nat, spend : Nat, expire : Nat]
  BY DEF OrderRecord
<1>2. cmd.wallet \in W
  OBVIOUS
<1> HIDE DEF W
<1>3. /\ cmd.action \in {"buy", "sell"} /\ cmd.outcome \in {"yes", "no"}
      /\ cmd.type \in {"limit", "market"} /\ cmd.limit \in Prices
      /\ cmd.qty \in Nat /\ cmd.spend \in Nat /\ cmd.expire \in Nat
  BY BookAssumption
<1>4. NormalizedSide(cmd.action, cmd.outcome) \in Sides
  BY <1>3 DEF NormalizedSide, Opposite, Sides
<1>5. NormalizedPrice(cmd.outcome, cmd.limit) \in Prices
  BY <1>3, ScaleAssumption DEF NormalizedPrice, Prices
<1>6. /\ o.id = id /\ o.action = cmd.action /\ o.outcome = cmd.outcome /\ o.limit = cmd.limit
      /\ o.side = NormalizedSide(cmd.action, cmd.outcome)
      /\ o.price = NormalizedPrice(cmd.outcome, cmd.limit)
  BY DEF Order
<1>7. o \in OrderRecord
  <2>1. PICK sd \in Sides : sd = NormalizedSide(cmd.action, cmd.outcome)
    BY <1>4
  <2>2. PICK pr \in Prices : pr = NormalizedPrice(cmd.outcome, cmd.limit)
    BY <1>5
  <2>3. o = [id |-> id, wallet |-> cmd.wallet, action |-> cmd.action, outcome |-> cmd.outcome,
             type |-> cmd.type, limit |-> cmd.limit, side |-> sd, price |-> pr,
             qty |-> cmd.qty, spend |-> cmd.spend, expire |-> cmd.expire]
    BY <2>1, <2>2 DEF Order
  <2> QED
    BY <1>1, <1>2, <1>3, <2>3
<1> QED
  BY <1>6, <1>7 DEF Normalized
-----------------------------------------------------------------------------
(* Queues *)

\* SumQty adds up the lots of a set of orders.
LEMMA SumOfLots ==
    ASSUME NEW S, IsFiniteSet(S), NEW f, \A o \in S : f[o] = o.qty
    PROVE  MapThenSumSet(LAMBDA o : o.qty, S) = SumOver(f, S)
<1> DEFINE it[s \in SUBSET S] == IF s = {} THEN 0
                                ELSE LET x == CHOOSE x \in s : TRUE IN x.qty + it[s \ {x}]
          E(g) == g = [s \in SUBSET S |-> IF s = {} THEN 0
                         ELSE Pick(s).qty + g[s \ {Pick(s)}]]
<1>1. MapThenSumSet(LAMBDA o : o.qty, S) = it[S]
  BY DEF MapThenSumSet, MapThenFoldSet
<1>2. it = CHOOSE g : E(g)
  BY DEF Pick
<1>3. \A s \in SUBSET S : s # {} => f[Pick(s)] = Pick(s).qty
  BY DEF Pick
<1>4. \A g : E(g) <=> IsSum(g, f, S)
  BY <1>3 DEF IsSum
<1>5. PICK g : IsSum(g, f, S)
  BY SumExists
<1>6. E(it)
  BY <1>2, <1>4, <1>5
<1>7. IsSum(it, f, S)
  BY <1>4, <1>6
<1> DEFINE k == CHOOSE h : IsSum(h, f, S)
<1>8. IsSum(k, f, S)
  BY <1>5
<1>9. it[S] = k[S]
  <2> HIDE DEF it, k, E
  <2>1. \A u, v : IsSum(u, f, S) /\ IsSum(v, f, S) => u[S] = v[S]
    BY SumUnique
  <2> QED
    BY <1>7, <1>8, <2>1, Zenon
<1> QED
  BY <1>1, <1>9, Zenon DEF SumOver

\* The lots of the orders, as a function.
Lots == [o \in OrderRecord |-> o.qty]

LEMMA ToSetFinite ==
    ASSUME NEW q \in Seq(OrderRecord)
    PROVE  /\ IsFiniteSet(ToSet(q)) /\ ToSet(q) \subseteq OrderRecord
           /\ ToSet(q) = {q[i] : i \in 1 .. Len(q)}
<1>1. DOMAIN q = 1 .. Len(q) /\ Len(q) \in Nat
  OBVIOUS
<1>2. ToSet(q) = {q[i] : i \in 1 .. Len(q)}
  BY <1>1 DEF ToSet
<1>3. IsFiniteSet(1 .. Len(q))
  BY <1>1, FS_Interval
<1>4. q \in Surjection(1 .. Len(q), ToSet(q))
  BY <1>1, <1>2 DEF Surjection
<1>5. IsFiniteSet(ToSet(q))
  BY <1>3, <1>4, FS_Surjection DEF ExistsSurjection
<1> QED
  BY <1>1, <1>2, <1>5

LEMMA SumQtyLots ==
    ASSUME NEW q \in Seq(OrderRecord)
    PROVE  /\ SumQty(q) = SumOver(Lots, ToSet(q))
           /\ \A o \in ToSet(q) : Lots[o] \in Nat /\ Lots[o] = o.qty
<1>1. IsFiniteSet(ToSet(q)) /\ ToSet(q) \subseteq OrderRecord
  BY ToSetFinite
<1>2. \A o \in OrderRecord : Lots[o] = o.qty /\ o.qty \in Nat
  BY Fields DEF Lots
<1>3. \A o \in ToSet(q) : Lots[o] = o.qty /\ o.qty \in Nat
  BY <1>1, <1>2
<1>4. SumQty(q) = SumOver(Lots, ToSet(q))
  BY <1>1, <1>3, SumOfLots DEF SumQty
<1> QED
  BY <1>3, <1>4

LEMMA SumQtyNat ==
    ASSUME NEW q \in Seq(OrderRecord)
    PROVE  SumQty(q) \in Nat
BY ToSetFinite, SumQtyLots, SumOverNat

LEMMA SumQtyEmpty == SumQty(<<>>) = 0
<1>1. <<>> \in Seq(OrderRecord) /\ ToSet(<<>>) = {}
  BY DEF ToSet
<1> QED
  BY <1>1, SumQtyLots, SumOverEmpty

\* The volume of a level is zero exactly when no order is queued there.
LEMMA SumQtyPositive ==
    ASSUME NEW q, NEW s, NEW p, NEW n, Queued(q, s, p, n)
    PROVE  SumQty(q) \in Nat /\ (SumQty(q) > 0 <=> q # <<>>)
<1>1. q \in Seq(OrderRecord) /\ \A i \in 1 .. Len(q) : q[i].qty > 0
  BY DEF Queued
<1>2. SumQty(q) \in Nat
  BY <1>1, SumQtyNat
<1>3. CASE q = <<>>
  BY <1>2, <1>3, SumQtyEmpty
<1>4. CASE q # <<>>
  <2>1. Len(q) \in Nat /\ Len(q) # 0
    BY <1>1, <1>4
  <2>2. q[1] \in ToSet(q) /\ q[1].qty > 0
    BY <1>1, <2>1, ToSetFinite
  <2>3. Lots[q[1]] <= SumOver(Lots, ToSet(q))
    BY <1>1, <2>2, ToSetFinite, SumQtyLots, SumOverBounds
  <2>4. Lots[q[1]] = q[1].qty /\ q[1].qty \in Nat /\ SumQty(q) = SumOver(Lots, ToSet(q))
    BY <1>1, <2>2, SumQtyLots
  <2> QED
    BY <1>2, <1>4, <2>2, <2>3, <2>4
<1> QED
  BY <1>3, <1>4

\* Orders that arrived at different times are different: an order has one place in a queue.
LEMMA OnePlace ==
    ASSUME NEW q, NEW s, NEW p, NEW n, Queued(q, s, p, n),
           NEW i \in 1 .. Len(q), NEW j \in 1 .. Len(q), q[i].id = q[j].id
    PROVE  i = j
<1>1. Len(q) \in Nat /\ q[i].id \in Nat /\ q[j].id \in Nat
  <2>1. q \in Seq(OrderRecord)
    BY DEF Queued
  <2>2. q[i] \in OrderRecord /\ q[j] \in OrderRecord
    BY <2>1
  <2> QED
    BY <2>1, <2>2, Fields
<1>2. /\ i < j => q[i].id < q[j].id
      /\ j < i => q[j].id < q[i].id
  BY DEF Queued
<1> QED
  BY <1>1, <1>2

\* A queue with some of its orders, in the same order, is a queue.
LEMMA PartOfQueue ==
    ASSUME NEW q, NEW s, NEW p, NEW n, Queued(q, s, p, n),
           NEW r \in Seq(OrderRecord), NEW d \in Nat,
           \A i \in 1 .. Len(r) : i + d \in 1 .. Len(q) /\ r[i] = q[i + d]
    PROVE  Queued(r, s, p, n)
<1>1. \A i \in 1 .. Len(r) : /\ r[i].side = s /\ r[i].price = p /\ Normalized(r[i])
                             /\ r[i].qty > 0 /\ r[i].id <= n
  BY DEF Queued
<1>2. ASSUME NEW i \in 1 .. Len(r), NEW j \in 1 .. Len(r), i < j
      PROVE  r[i].id < r[j].id
  <2>1. i + d \in 1 .. Len(q) /\ j + d \in 1 .. Len(q) /\ i + d < j + d
    BY <1>2
  <2>2. q[i + d].id < q[j + d].id
    BY <2>1 DEF Queued
  <2> QED
    BY <2>2
<1> QED
  BY <1>1, <1>2 DEF Queued

LEMMA QueuedLater ==
    ASSUME NEW q, NEW s, NEW p, NEW n \in Int, Queued(q, s, p, n), NEW k \in Int, n <= k
    PROVE  Queued(q, s, p, k)
<1>1. \A i \in 1 .. Len(q) : q[i].id \in Nat /\ q[i].id <= n
  <2>1. \A i \in 1 .. Len(q) : q[i] \in OrderRecord
    BY DEF Queued
  <2> QED
    BY <2>1, Fields DEF Queued
<1>2. \A i \in 1 .. Len(q) : q[i].id <= k
  BY <1>1
<1> QED
  BY <1>2 DEF Queued

LEMMA IdsOfIs ==
    ASSUME NEW q \in Seq(OrderRecord)
    PROVE  IdsOf(q) = {q[i].id : i \in 1 .. Len(q)} /\ IdsOf(q) \subseteq Ids
<1>1. DOMAIN q = 1 .. Len(q) /\ \A i \in 1 .. Len(q) : q[i] \in OrderRecord
  OBVIOUS
<1>2. IdsOf(q) = {q[i].id : i \in 1 .. Len(q)}
  BY <1>1 DEF IdsOf
<1>3. \A i \in 1 .. Len(q) : q[i].id \in Ids
  BY <1>1, Fields
<1> QED
  BY <1>2, <1>3

LEMMA IdsOfEmpty == IdsOf(<<>>) = {}
BY DEF IdsOf

LEMMA IdsOfNonEmpty ==
    ASSUME NEW q \in Seq(OrderRecord), q # <<>>
    PROVE  1 \in 1 .. Len(q) /\ q[1] \in OrderRecord /\ q[1].id \in IdsOf(q)
<1>1. Len(q) \in Nat /\ Len(q) # 0
  OBVIOUS
<1> QED
  BY <1>1, IdsOfIs

\* RemoveAt at the head of a sequence.
LEMMA RemoveHead ==
    ASSUME NEW q \in Seq(OrderRecord), q # <<>>
    PROVE  /\ RemoveAt(q, 1) \in Seq(OrderRecord)
           /\ Len(q) \in Nat \ {0} /\ Len(RemoveAt(q, 1)) = Len(q) - 1
           /\ \A i \in 1 .. Len(q) - 1 : RemoveAt(q, 1)[i] = q[i + 1]
<1>1. SubSeq(q, 1, 0) = <<>>
  BY SubSeqEmpty
<1>2. Len(q) \in Nat /\ Len(q) # 0
  OBVIOUS
<1>3. PICK n \in Nat : n = Len(q)
  BY <1>2
<1>4. PICK r : r = SubSeq(q, 2, n)
  OBVIOUS
<1>5. \A i \in 2 .. n : q[i] \in OrderRecord
  BY <1>3
<1>6. /\ r \in Seq(OrderRecord) /\ Len(r) = IF 2 <= n THEN n - 2 + 1 ELSE 0
      /\ \A i \in 1 .. n - 2 + 1 : r[i] = q[2 + i - 1]
  BY <1>3, <1>4, <1>5, SubSeqProperties
<1>7. Len(r) = n - 1 /\ \A i \in 1 .. n - 1 : r[i] = q[i + 1]
  <2>1. Len(r) = n - 1
    BY <1>2, <1>3, <1>6
  <2>2. \A i \in 1 .. n - 1 : i \in 1 .. n - 2 + 1 /\ 2 + i - 1 = i + 1
    BY <1>3
  <2> QED
    BY <1>6, <2>1, <2>2
<1>8. RemoveAt(q, 1) = r
  <2>1. RemoveAt(q, 1) = SubSeq(q, 1, 0) \o r
    BY <1>3, <1>4 DEF RemoveAt
  <2>2. <<>> \o r = r
    BY <1>6
  <2> QED
    BY <1>1, <2>1, <2>2
<1> QED
  BY <1>2, <1>3, <1>6, <1>7, <1>8

\* removeAndRecycleMaker at the head of a level.
LEMMA HeadRemoved ==
    ASSUME NEW q, NEW s, NEW p, NEW n, Queued(q, s, p, n), q # <<>>, NEW r, r = RemoveAt(q, 1)
    PROVE  /\ Queued(r, s, p, n)
           /\ IdsOf(r) = IdsOf(q) \ {q[1].id}
           /\ SumQty(q) = q[1].qty + SumQty(r)
<1>1. q \in Seq(OrderRecord)
  BY DEF Queued
<1>2. PICK l \in Nat \ {0} : l = Len(q)
  BY <1>1
<1>3. r \in Seq(OrderRecord) /\ Len(r) = l - 1 /\ \A i \in 1 .. l - 1 : r[i] = q[i + 1]
  BY <1>1, <1>2, RemoveHead
<1>4. Queued(r, s, p, n)
  <2>1. \A i \in 1 .. Len(r) : i + 1 \in 1 .. Len(q) /\ r[i] = q[i + 1]
    BY <1>2, <1>3
  <2>2. 1 \in Nat
    OBVIOUS
  <2> QED
    BY <1>3, <2>1, <2>2, PartOfQueue
<1>5. \A i \in 1 .. l : i # 1 => i - 1 \in 1 .. l - 1 /\ r[i - 1] = q[i]
  <2> SUFFICES ASSUME NEW i \in 1 .. l, i # 1 PROVE i - 1 \in 1 .. l - 1 /\ r[i - 1] = q[i]
    OBVIOUS
  <2>1. i - 1 \in 1 .. l - 1 /\ (i - 1) + 1 = i
    BY <1>2
  <2> QED
    BY <1>3, <2>1
<1>6. \A i \in 1 .. l : i # 1 => q[i].id # q[1].id
  <2>1. 1 \in 1 .. l
    BY <1>2
  <2> QED
    BY <1>2, <2>1, OnePlace
<1>7. IdsOf(r) = IdsOf(q) \ {q[1].id}
  <2>1. IdsOf(q) = {q[i].id : i \in 1 .. l} /\ IdsOf(r) = {r[i].id : i \in 1 .. l - 1}
    BY <1>1, <1>2, <1>3, IdsOfIs
  <2>2. \A i \in 1 .. l - 1 : i + 1 \in 1 .. l /\ i + 1 # 1
    BY <1>2
  <2>3. IdsOf(r) \subseteq IdsOf(q) \ {q[1].id}
    BY <1>3, <1>6, <2>1, <2>2
  <2>4. IdsOf(q) \ {q[1].id} \subseteq IdsOf(r)
    BY <1>5, <2>1
  <2> QED
    BY <2>3, <2>4
<1>8. ToSet(q) = ToSet(r) \union {q[1]} /\ q[1] \notin ToSet(r)
  <2>1. ToSet(q) = {q[i] : i \in 1 .. l} /\ ToSet(r) = {r[i] : i \in 1 .. l - 1}
    BY <1>1, <1>2, <1>3, ToSetFinite
  <2>2. \A i \in 1 .. l - 1 : i + 1 \in 1 .. l /\ i + 1 # 1
    BY <1>2
  <2>3. 1 \in 1 .. l
    BY <1>2
  <2>4. ToSet(r) \subseteq ToSet(q)
    BY <1>3, <2>1, <2>2
  <2>5. ToSet(q) \subseteq ToSet(r) \union {q[1]}
    BY <1>5, <2>1
  <2>6. q[1] \in ToSet(q)
    BY <2>1, <2>3
  <2>7. q[1] \notin ToSet(r)
    BY <1>3, <1>6, <2>1, <2>2
  <2> QED
    BY <2>4, <2>5, <2>6, <2>7
<1>9. SumQty(q) = q[1].qty + SumQty(r)
  <2>1. /\ IsFiniteSet(ToSet(r)) /\ SumQty(q) = SumOver(Lots, ToSet(q))
        /\ SumQty(r) = SumOver(Lots, ToSet(r))
        /\ \A o \in ToSet(q) : Lots[o] \in Nat /\ Lots[o] = o.qty
    BY <1>1, <1>3, ToSetFinite, SumQtyLots
  <2>2. \A o \in ToSet(r) \union {q[1]} : Lots[o] \in Int
    BY <1>8, <2>1
  <2>3. SumOver(Lots, ToSet(r) \union {q[1]}) = Lots[q[1]] + SumOver(Lots, ToSet(r))
    BY <1>8, <2>1, <2>2, SumOverAdd
  <2>4. Lots[q[1]] = q[1].qty
    BY <1>8, <2>1
  <2> QED
    BY <1>8, <2>1, <2>3, <2>4
<1> QED
  BY <1>4, <1>7, <1>9

\* Queue r of length l is q with m in the place of its head, and m is that order with x lots less.
LotsOff(q, m, r, l, x) ==
    /\ m \in OrderRecord /\ m.qty = q[1].qty - x /\ m.id = q[1].id /\ m.side = q[1].side
    /\ m.price = q[1].price /\ m.action = q[1].action /\ m.outcome = q[1].outcome
    /\ m.limit = q[1].limit
    /\ r \in Seq(OrderRecord) /\ Len(r) = l /\ r[1] = m
    /\ \A i \in 1 .. l : i # 1 => r[i] = q[i]

\* Taking x lots off the order at the head of a queue.
LEMMA HeadChanged ==
    ASSUME NEW q, NEW s, NEW p, NEW n, Queued(q, s, p, n), NEW l \in Nat \ {0}, l = Len(q),
           NEW x \in Nat, x < q[1].qty, NEW m, NEW r, LotsOff(q, m, r, l, x)
    PROVE  /\ Queued(r, s, p, n)
           /\ IdsOf(r) = IdsOf(q)
           /\ SumQty(r) = SumQty(q) - x
<1>1. q \in Seq(OrderRecord)
  BY DEF Queued
<1>2. l = Len(q)
  OBVIOUS
<1>3. 1 \in 1 .. l /\ q[1] \in OrderRecord /\ q[1].qty \in Nat /\ q[1].qty - x \in Nat \ {0}
  <2>1. 1 \in 1 .. l /\ q[1] \in OrderRecord
    BY <1>1, <1>2
  <2> QED
    BY <2>1, Fields
<1>4. /\ m.qty = q[1].qty - x /\ m.id = q[1].id /\ m.side = q[1].side
      /\ m.price = q[1].price /\ m.action = q[1].action /\ m.outcome = q[1].outcome
      /\ m.limit = q[1].limit
  BY DEF LotsOff
<1>5. /\ r \in Seq(OrderRecord) /\ Len(r) = l /\ r[1] = m
      /\ \A i \in 1 .. l : i # 1 => r[i] = q[i]
  BY DEF LotsOff
<1>6. \A i \in 1 .. l : /\ r[i].id = q[i].id /\ r[i].side = q[i].side /\ r[i].price = q[i].price
                        /\ (Normalized(q[i]) => Normalized(r[i]))
                        /\ (q[i].qty > 0 => r[i].qty > 0)
  <2> TAKE i \in 1 .. l
  <2>1. CASE i # 1
    BY <1>5, <2>1
  <2>2. CASE i = 1
    <3>1. Normalized(q[1]) => Normalized(m)
      BY <1>4 DEF Normalized
    <3>2. m.qty > 0
      BY <1>3, <1>4
    <3> QED
      BY <1>4, <1>5, <2>2, <3>1, <3>2
  <2> QED
    BY <2>1, <2>2
<1>7. Queued(r, s, p, n)
  <2>1. \A i \in 1 .. l : /\ q[i].side = s /\ q[i].price = p /\ Normalized(q[i])
                          /\ q[i].qty > 0 /\ q[i].id <= n
    BY <1>2 DEF Queued
  <2>2. \A i, j \in 1 .. l : i < j => q[i].id < q[j].id
    BY <1>2 DEF Queued
  <2>3. \A i \in 1 .. l : /\ r[i].side = s /\ r[i].price = p /\ Normalized(r[i])
                          /\ r[i].qty > 0 /\ r[i].id <= n
    BY <1>6, <2>1
  <2>4. \A i, j \in 1 .. l : i < j => r[i].id < r[j].id
    BY <1>6, <2>2
  <2> QED
    BY <1>5, <2>3, <2>4 DEF Queued
<1>8. IdsOf(r) = IdsOf(q)
  <2>1. IdsOf(q) = {q[i].id : i \in 1 .. l} /\ IdsOf(r) = {r[i].id : i \in 1 .. l}
    BY <1>1, <1>2, <1>5, IdsOfIs
  <2> QED
    BY <1>6, <2>1
<1> DEFINE rest == ToSet(q) \ {q[1]}
<1>9. q[1] \in ToSet(q) /\ m \notin rest /\ ToSet(r) = rest \union {m}
  <2>1. ToSet(q) = {q[i] : i \in 1 .. l} /\ ToSet(r) = {r[i] : i \in 1 .. l}
    BY <1>1, <1>2, <1>5, ToSetFinite
  <2>2. \A i \in 1 .. l : i # 1 => q[i].id # q[1].id
    BY <1>2, <1>3, OnePlace
  <2>3. q[1] \in ToSet(q)
    BY <1>3, <2>1
  <2>4. rest = {q[i] : i \in (1 .. l) \ {1}}
    BY <2>1, <2>2
  <2>5. m \notin rest
    BY <1>4, <2>2, <2>4
  <2>6. ToSet(r) = rest \union {m}
    <3> HIDE DEF rest
    <3>1. {r[i] : i \in 1 .. l} = {r[i] : i \in (1 .. l) \ {1}} \union {r[1]}
      BY <1>3
    <3>2. {r[i] : i \in (1 .. l) \ {1}} = {q[i] : i \in (1 .. l) \ {1}}
      BY <1>5
    <3> QED
      BY <1>5, <2>1, <2>4, <3>1, <3>2
  <2> QED
    BY <2>3, <2>5, <2>6
<1>10. SumQty(r) = SumQty(q) - x
  <2>1. /\ IsFiniteSet(ToSet(q)) /\ SumQty(q) = SumOver(Lots, ToSet(q))
        /\ \A o \in ToSet(q) : Lots[o] \in Nat /\ Lots[o] = o.qty
    BY <1>1, ToSetFinite, SumQtyLots
  <2>2. /\ SumQty(r) = SumOver(Lots, ToSet(r))
        /\ \A o \in ToSet(r) : Lots[o] \in Nat /\ Lots[o] = o.qty
    BY <1>5, SumQtyLots
  <2>3. SumOver(Lots, ToSet(q)) = Lots[q[1]] + SumOver(Lots, rest)
    BY <1>9, <2>1, SumOverRemove
  <2> HIDE DEF rest
  <2>4. IsFiniteSet(rest) /\ \A o \in rest : Lots[o] \in Nat
    <3>1. rest \in SUBSET ToSet(q)
      BY DEF rest
    <3>2. IsFiniteSet(rest)
      BY <2>1, <3>1, FS_Subset
    <3> QED
      BY <2>1, <3>1, <3>2
  <2>5. \A o \in rest \union {m} : Lots[o] \in Int
    <3>1. \A o \in ToSet(r) : Lots[o] \in Int
      BY <2>2
    <3> QED
      BY <1>9, <3>1
  <2>6. SumOver(Lots, rest \union {m}) = Lots[m] + SumOver(Lots, rest)
    BY <1>9, <2>4, <2>5, SumOverAdd
  <2>7. SumOver(Lots, rest) \in Nat
    BY <2>4, SumOverNat
  <2>8. Lots[q[1]] = q[1].qty /\ Lots[m] = q[1].qty - x
    BY <1>4, <1>9, <2>1, <2>2
  <2>9. SumQty(q) = q[1].qty + SumOver(Lots, rest)
    BY <2>1, <2>3, <2>8
  <2>10. SumQty(r) = (q[1].qty - x) + SumOver(Lots, rest)
    BY <1>9, <2>2, <2>6, <2>8
  <2> QED
    BY <1>3, <2>7, <2>9, <2>10
<1> QED
  BY <1>7, <1>8, <1>10

\* A partial fill at the head of a level.
Cut(r, q, x) == r = [q EXCEPT ![1] = [q[1] EXCEPT !.qty = q[1].qty - x]]

LEMMA HeadCut ==
    ASSUME NEW q, NEW s, NEW p, NEW n, Queued(q, s, p, n), q # <<>>,
           NEW x \in Nat, x < q[1].qty, NEW r, Cut(r, q, x)
    PROVE  Queued(r, s, p, n) /\ IdsOf(r) = IdsOf(q) /\ SumQty(r) = SumQty(q) - x
<1>1. q \in Seq(OrderRecord)
  BY DEF Queued
<1>2. PICK l \in Nat \ {0} : l = Len(q)
  BY <1>1
<1>3. 1 \in 1 .. l /\ q[1] \in OrderRecord /\ q[1].qty \in Nat /\ q[1].qty - x \in Nat \ {0}
  <2>1. 1 \in 1 .. l /\ q[1] \in OrderRecord
    BY <1>1, <1>2
  <2> QED
    BY <2>1, Fields
<1>4. PICK m : m = [q[1] EXCEPT !.qty = q[1].qty - x]
  OBVIOUS
<1>5. r = [q EXCEPT ![1] = m]
  BY <1>4 DEF Cut
<1>6. /\ m \in OrderRecord /\ m.qty = q[1].qty - x /\ m.id = q[1].id /\ m.side = q[1].side
      /\ m.price = q[1].price /\ m.action = q[1].action /\ m.outcome = q[1].outcome
      /\ m.limit = q[1].limit
  BY <1>3, <1>4, QtyChanged
<1>7. /\ r \in Seq(OrderRecord) /\ Len(r) = l /\ r[1] = m
      /\ \A i \in 1 .. l : i # 1 => r[i] = q[i]
  BY <1>1, <1>2, <1>3, <1>6, <1>5
<1>8. Queued(r, s, p, n) /\ IdsOf(r) = IdsOf(q) /\ SumQty(r) = SumQty(q) - x
  <2>1. LotsOff(q, m, r, l, x)
    BY <1>6, <1>7 DEF LotsOff
  <2> QED
    BY <1>2, <2>1, HeadChanged
<1> QED
  BY <1>8

\* addOrderToBook puts an order at the tail of its level.
Tailed(r, q, o) == r = Append(q, o)

LEMMA TailAppended ==
    ASSUME NEW q, NEW s, NEW p, NEW n \in Nat, Queued(q, s, p, n), NEW o \in OrderRecord,
           o.side = s, o.price = p, Normalized(o), o.qty > 0, o.id > n,
           NEW r, Tailed(r, q, o)
    PROVE  /\ Queued(r, s, p, o.id) /\ r # <<>>
           /\ IdsOf(r) = IdsOf(q) \union {o.id}
           /\ SumQty(r) = SumQty(q) + o.qty
<1>1. q \in Seq(OrderRecord)
  BY DEF Queued
<1>2. PICK l \in Nat : l = Len(q)
  BY <1>1
<1>3. /\ r \in Seq(OrderRecord) /\ Len(r) = l + 1 /\ r[l + 1] = o
      /\ \A i \in 1 .. l : r[i] = q[i]
  <2>1. /\ Append(q, o) \in Seq(OrderRecord) /\ Len(Append(q, o)) = l + 1
        /\ Append(q, o)[l + 1] = o /\ \A i \in 1 .. l : Append(q, o)[i] = q[i]
    BY <1>1, <1>2, AppendProperties
  <2> QED
    BY <2>1 DEF Tailed
<1>4. \A i \in 1 .. l : /\ q[i].side = s /\ q[i].price = p /\ Normalized(q[i])
                        /\ q[i].qty > 0 /\ q[i].id <= n /\ q[i].id \in Nat
  <2>1. \A i \in 1 .. l : q[i].id \in Nat
    BY <1>1, <1>2, Fields
  <2> QED
    BY <1>2, <2>1 DEF Queued
<1>5. \A i, j \in 1 .. l : i < j => q[i].id < q[j].id
  BY <1>2 DEF Queued
<1>6. \A i \in 1 .. l + 1 : i \in 1 .. l \/ i = l + 1
  OBVIOUS
<1>7. o.id \in Nat
  BY Fields
<1>8. Queued(r, s, p, o.id)
  <2>1. \A i \in 1 .. l + 1 : /\ r[i].side = s /\ r[i].price = p /\ Normalized(r[i])
                              /\ r[i].qty > 0 /\ r[i].id <= o.id
    <3> TAKE i \in 1 .. l + 1
    <3>1. CASE i = l + 1
      BY <1>3, <1>7, <3>1
    <3>2. CASE i \in 1 .. l
      <4>1. r[i] = q[i] /\ q[i].id <= n /\ q[i].id \in Nat
        BY <1>3, <1>4, <3>2
      <4>2. q[i].id <= o.id
        BY <1>7, <4>1
      <4> QED
        BY <1>4, <3>2, <4>1, <4>2
    <3> QED
      BY <1>6, <3>1, <3>2
  <2>2. ASSUME NEW i \in 1 .. l + 1, NEW j \in 1 .. l + 1, i < j PROVE r[i].id < r[j].id
    <3>1. i \in 1 .. l
      BY <2>2
    <3>2. CASE j \in 1 .. l
      BY <1>3, <1>5, <2>2, <3>1, <3>2
    <3>3. CASE j = l + 1
      <4>1. q[i].id <= n /\ q[i].id \in Nat /\ r[i] = q[i] /\ r[j] = o
        BY <1>3, <1>4, <3>1, <3>3
      <4> QED
        BY <1>7, <4>1
    <3> QED
      BY <1>6, <3>2, <3>3
  <2> QED
    BY <1>3, <2>1, <2>2 DEF Queued
<1>9. IdsOf(r) = IdsOf(q) \union {o.id}
  <2>1. IdsOf(q) = {q[i].id : i \in 1 .. l} /\ IdsOf(r) = {r[i].id : i \in 1 .. l + 1}
    BY <1>1, <1>2, <1>3, IdsOfIs
  <2>2. \A i \in 1 .. l : i \in 1 .. l + 1
    OBVIOUS
  <2>3. l + 1 \in 1 .. l + 1
    OBVIOUS
  <2> QED
    BY <1>3, <1>6, <2>1, <2>2, <2>3
<1>10. ToSet(r) = ToSet(q) \union {o} /\ o \notin ToSet(q)
  <2>1. ToSet(q) = {q[i] : i \in 1 .. l} /\ ToSet(r) = {r[i] : i \in 1 .. l + 1}
    BY <1>1, <1>2, <1>3, ToSetFinite
  <2>2. \A i \in 1 .. l : i \in 1 .. l + 1
    OBVIOUS
  <2>3. l + 1 \in 1 .. l + 1
    OBVIOUS
  <2>4. \A i \in 1 .. l : q[i].id # o.id
    BY <1>4, <1>7
  <2>5. o \notin ToSet(q)
    BY <2>1, <2>4
  <2>6. ToSet(r) \subseteq ToSet(q) \union {o}
    BY <1>3, <1>6, <2>1
  <2>7. ToSet(q) \union {o} \subseteq ToSet(r)
    BY <1>3, <2>1, <2>2, <2>3
  <2> QED
    BY <2>5, <2>6, <2>7
<1>11. SumQty(r) = SumQty(q) + o.qty
  <2>1. /\ IsFiniteSet(ToSet(q)) /\ SumQty(q) = SumOver(Lots, ToSet(q)) /\ SumQty(q) \in Nat
        /\ SumQty(r) = SumOver(Lots, ToSet(r))
        /\ \A u \in ToSet(r) : Lots[u] \in Nat /\ Lots[u] = u.qty
    BY <1>1, <1>3, ToSetFinite, SumQtyLots, SumQtyNat
  <2>2. \A u \in ToSet(q) \union {o} : Lots[u] \in Int
    BY <1>10, <2>1
  <2>3. SumOver(Lots, ToSet(q) \union {o}) = Lots[o] + SumOver(Lots, ToSet(q))
    BY <1>10, <2>1, <2>2, SumOverAdd
  <2>4. Lots[o] = o.qty /\ o.qty \in Nat
    BY <1>10, <2>1
  <2> QED
    BY <1>10, <2>1, <2>3, <2>4
<1>12. r # <<>>
  BY <1>3
<1> QED
  BY <1>8, <1>9, <1>11, <1>12

\* sweepLevelO1 leaves the end of a queue, and all of it when it removes no order.
LEMMA SweptIs ==
    ASSUME NEW q, NEW s, NEW p, NEW n, Queued(q, s, p, n), NEW t, NEW r, r = Swept(q, t)
    PROVE  /\ Queued(r, s, p, n)
           /\ IdsOf(r) \subseteq IdsOf(q)
           /\ IdsOf(q) \ IdsOf(r) = {} => r = q
<1> DEFINE live == {i \in DOMAIN q : ~Expired(q[i], t)}
<1>1. q \in Seq(OrderRecord)
  BY DEF Queued
<1>2. PICK l \in Nat : l = Len(q) /\ DOMAIN q = 1 .. l
  BY <1>1
<1>3. r = IF live = {} THEN <<>> ELSE SubSeq(q, Min(live), l)
  BY <1>2 DEF Swept
<1>4. live \subseteq 1 .. l
  BY <1>2
<1> HIDE DEF live
<1>5. CASE live = {}
  <2>1. r = <<>>
    BY <1>3, <1>5
  <2>2. Queued(r, s, p, n)
    BY <2>1 DEF Queued
  <2>3. IdsOf(r) = {}
    BY <2>1, IdsOfEmpty
  <2>4. q # <<>> => IdsOf(q) # {}
    BY <1>1, IdsOfNonEmpty
  <2> QED
    BY <2>1, <2>2, <2>3, <2>4
<1>6. CASE live # {}
  <2>1. PICK k \in 1 .. l : k = Min(live)
    BY <1>4, <1>6, LeastOf
  <2>2. r = SubSeq(q, k, l)
    BY <1>3, <1>6, <2>1
  <2>3. PICK d \in Nat : d = k - 1
    BY <2>1
  <2>4. /\ r \in Seq(OrderRecord) /\ Len(r) = l - d
        /\ \A i \in 1 .. l - d : i + d \in 1 .. l /\ r[i] = q[i + d]
    <3>1. \A i \in k .. l : q[i] \in OrderRecord
      BY <1>1, <1>2
    <3>2. /\ r \in Seq(OrderRecord) /\ Len(r) = IF k <= l THEN l - k + 1 ELSE 0
          /\ \A i \in 1 .. l - k + 1 : r[i] = q[k + i - 1]
      BY <1>2, <2>2, <3>1, SubSeqProperties
    <3>3. k <= l /\ l - k + 1 = l - d
      BY <2>1, <2>3
    <3>4. \A i \in 1 .. l - d : i + d \in 1 .. l /\ k + i - 1 = i + d
      BY <2>1, <2>3
    <3> QED
      BY <3>2, <3>3, <3>4
  <2>5. Queued(r, s, p, n)
    BY <1>2, <2>4, PartOfQueue
  <2>6. IdsOf(q) = {q[i].id : i \in 1 .. l} /\ IdsOf(r) = {r[i].id : i \in 1 .. l - d}
    BY <1>1, <1>2, <2>4, IdsOfIs
  <2>7. IdsOf(r) \subseteq IdsOf(q)
    BY <2>4, <2>6
  <2>8. ASSUME IdsOf(q) \ IdsOf(r) = {} PROVE r = q
    <3>1. 1 \in 1 .. l
      BY <2>1
    <3>2. q[1].id \in IdsOf(r)
      BY <2>6, <2>8, <3>1
    <3>3. PICK i \in 1 .. l - d : q[i + d].id = q[1].id
      BY <2>4, <2>6, <3>2
    <3>4. i + d = 1
      BY <1>2, <2>4, <3>1, <3>3, OnePlace
    <3>5. d = 0
      BY <2>3, <3>3, <3>4
    <3>6. Len(r) = Len(q) /\ \A j \in 1 .. Len(q) : r[j] = q[j]
      <4>1. l - d = l /\ \A j \in 1 .. l : j + d = j
        BY <3>5
      <4> QED
        BY <1>2, <2>4, <4>1
    <3> QED
      BY <1>1, <2>4, <3>6, SeqEqual
  <2> QED
    BY <2>5, <2>7, <2>8
<1> QED
  BY <1>5, <1>6

\* A one-to-one list of a set counts it.
LEMMA ListCounts ==
    ASSUME NEW k \in Nat, NEW f, NEW S, f \in [1 .. k -> S],
           \A i, j \in 1 .. k : f[i] = f[j] => i = j, \A x \in S : \E i \in 1 .. k : f[i] = x
    PROVE  Cardinality(S) = k
<1>1. f \in Bijection(1 .. k, S)
  BY DEF Bijection, Injection, IsInjective, Surjection
<1> QED
  BY <1>1, FS_CountingElements DEF ExistsBijection

\* As many orders of a queue are older than its k-th as stand before it.
LEMMA RankOf ==
    ASSUME NEW q, NEW s, NEW p, NEW n, Queued(q, s, p, n), NEW l \in Nat, l = Len(q)
    PROVE  /\ Cardinality(ToSet(q)) = l
           /\ \A k \in 1 .. l : Cardinality({x \in ToSet(q) : x.id < q[k].id}) = k - 1
<1>1. q \in Seq(OrderRecord) /\ ToSet(q) = {q[i] : i \in 1 .. l}
  BY ToSetFinite DEF Queued
<1>2. \A i, j \in 1 .. l : q[i] = q[j] => i = j
  BY OnePlace
<1>3. \A i, j \in 1 .. l : i < j => q[i].id < q[j].id
  BY DEF Queued
<1>4. \A i \in 1 .. l : q[i].id \in Nat
  BY <1>1, Fields
<1>5. Cardinality(ToSet(q)) = l
  <2>1. q \in [1 .. l -> ToSet(q)] /\ \A x \in ToSet(q) : \E i \in 1 .. l : q[i] = x
    <3>1. DOMAIN q = 1 .. l /\ \A i \in 1 .. l : q[i] \in ToSet(q)
      BY <1>1
    <3>2. q = [i \in 1 .. l |-> q[i]]
      BY <1>1
    <3> QED
      BY <1>1, <3>1, <3>2
  <2> QED
    BY <1>2, <2>1, ListCounts
<1>6. ASSUME NEW k \in 1 .. l PROVE Cardinality({x \in ToSet(q) : x.id < q[k].id}) = k - 1
  <2> DEFINE S == {x \in ToSet(q) : x.id < q[k].id}
             f == [i \in 1 .. k - 1 |-> q[i]]
  <2>1. k - 1 \in Nat /\ \A i \in 1 .. k - 1 : i \in 1 .. l /\ i < k
    OBVIOUS
  <2>2. \A i \in 1 .. k - 1 : f[i] = q[i] /\ q[i] \in S
    BY <1>1, <1>3, <2>1
  <2>3. f \in [1 .. k - 1 -> S]
    BY <2>2
  <2>4. \A x \in S : \E i \in 1 .. k - 1 : f[i] = x
    <3> SUFFICES ASSUME NEW i \in 1 .. l, q[i].id < q[k].id PROVE i \in 1 .. k - 1
      BY <1>1, <2>2
    <3>1. i # k /\ ~ (k < i)
      BY <1>3, <1>4
    <3> QED
      BY <3>1
  <2>5. \A i, j \in 1 .. k - 1 : f[i] = f[j] => i = j
    BY <1>2, <2>1, <2>2
  <2> HIDE DEF S, f
  <2>6. Cardinality(S) = k - 1
    BY <2>1, <2>3, <2>4, <2>5, ListCounts
  <2> QED
    BY <2>6 DEF S
<1> QED
  BY <1>5, <1>6

\* The orders of a queue, put in the order of their creation, are the queue.
LEMMA ByAgeOfQueue ==
    ASSUME NEW q, NEW s, NEW p, NEW n, Queued(q, s, p, n)
    PROVE  ByAge(ToSet(q)) = q
<1>1. q \in Seq(OrderRecord)
  BY DEF Queued
<1>2. PICK l \in Nat : l = Len(q)
  BY <1>1
<1>3. PICK S : S = ToSet(q)
  OBVIOUS
<1>4. /\ Cardinality(S) = l
      /\ \A k \in 1 .. l : Cardinality({x \in S : x.id < q[k].id}) = k - 1
      /\ S = {q[i] : i \in 1 .. l}
  BY <1>1, <1>2, <1>3, RankOf, ToSetFinite
<1>5. ASSUME NEW k \in 1 .. l
      PROVE  (CHOOSE o \in S : Cardinality({x \in S : x.id < o.id}) = k - 1) = q[k]
  <2>1. q[k] \in S /\ Cardinality({x \in S : x.id < q[k].id}) = k - 1
    BY <1>4
  <2>2. \A o \in S : Cardinality({x \in S : x.id < o.id}) = k - 1 => o = q[k]
    <3> SUFFICES ASSUME NEW i \in 1 .. l, Cardinality({x \in S : x.id < q[i].id}) = k - 1
                 PROVE  q[i] = q[k]
      BY <1>4
    <3>1. i - 1 = k - 1
      BY <1>4
    <3> QED
      BY <3>1
  <2> QED
    BY <2>1, <2>2
<1>6. ByAge(S) = [k \in 1 .. l |-> q[k]]
  BY <1>4, <1>5 DEF ByAge
<1>7. q = [k \in 1 .. l |-> q[k]]
  BY <1>1, <1>2
<1> QED
  BY <1>3, <1>6, <1>7
-----------------------------------------------------------------------------
(* Books *)

\* One level of a book replaced by v.
Replaced(lv, lv2, V, s0, p0, v) ==
    /\ lv2 \in [Sides -> [Prices -> V]]
    /\ \A s \in Sides, p \in Prices : lv2[s][p] = IF s = s0 /\ p = p0 THEN v ELSE lv[s][p]

LEMMA LevelReplaced ==
    ASSUME NEW V, NEW lv \in [Sides -> [Prices -> V]], NEW s0 \in Sides, NEW p0 \in Prices,
           NEW v \in V, NEW lv2, lv2 = [lv EXCEPT ![s0][p0] = v]
    PROVE  Replaced(lv, lv2, V, s0, p0, v)
BY DEF Replaced

LEMMA StructureParts ==
    ASSUME NEW lv, NEW vl, NEW ids, NEW n, Structure(lv, vl, ids, n),
           NEW s \in Sides, NEW p \in Prices
    PROVE  /\ lv[s][p] \in Seq(OrderRecord) /\ Queued(lv[s][p], s, p, n)
           /\ vl[s][p] = SumQty(lv[s][p]) /\ vl[s][p] \in Nat
           /\ (vl[s][p] > 0 <=> lv[s][p] # <<>>) /\ (vl[s][p] = 0 <=> lv[s][p] = <<>>)
           /\ IdsOf(lv[s][p]) \subseteq ids /\ IdsOf(lv[s][p]) \subseteq Ids
<1>1. /\ lv[s][p] \in Seq(OrderRecord) /\ Queued(lv[s][p], s, p, n)
      /\ vl[s][p] = SumQty(lv[s][p]) /\ vl[s][p] \in Nat
  BY DEF Structure, EachQueued, EachCounted
<1>2. SumQty(lv[s][p]) > 0 <=> lv[s][p] # <<>>
  BY <1>1, SumQtyPositive
<1>3. IdsOf(lv[s][p]) \subseteq ids
  BY DEF Structure, AllIds
<1>4. IdsOf(lv[s][p]) \subseteq Ids
  BY <1>1, IdsOfIs
<1> QED
  BY <1>1, <1>2, <1>3, <1>4

LEMMA StructureLater ==
    ASSUME NEW lv, NEW vl, NEW ids, NEW n \in Int, Structure(lv, vl, ids, n),
           NEW k \in Int, n <= k
    PROVE  Structure(lv, vl, ids, k)
<1>1. \A s \in Sides, p \in Prices : Queued(lv[s][p], s, p, k)
  BY StructureParts, QueuedLater
<1>2. EachQueued(lv, k)
  BY <1>1 DEF Structure, EachQueued
<1> QED
  BY <1>2 DEF Structure

\* The ids of a book are ids, of orders that have arrived.
LEMMA StructureIds ==
    ASSUME NEW lv, NEW vl, NEW ids, NEW n, Structure(lv, vl, ids, n)
    PROVE  ids \subseteq Ids /\ \A id \in ids : id <= n
<1> SUFFICES ASSUME NEW id \in ids PROVE id \in Ids /\ id <= n
  OBVIOUS
<1>1. PICK s \in Sides, p \in Prices : id \in IdsOf(lv[s][p])
  BY DEF Structure, AllIds
<1>2. lv[s][p] \in Seq(OrderRecord) /\ Queued(lv[s][p], s, p, n)
  BY StructureParts
<1>3. PICK i \in 1 .. Len(lv[s][p]) : id = lv[s][p][i].id
  BY <1>1, <1>2, IdsOfIs
<1>4. lv[s][p][i] \in OrderRecord /\ lv[s][p][i].id <= n
  BY <1>2 DEF Queued
<1> QED
  BY <1>3, <1>4, Fields

\* Replacing a queue by one with fewer orders, or with later ones, leaves a book.
LEMMA StructureKept ==
    ASSUME NEW lv, NEW vl, NEW ids, NEW n \in Int, Structure(lv, vl, ids, n),
           NEW s0 \in Sides, NEW p0 \in Prices, NEW k \in Int, n <= k,
           NEW r, Queued(r, s0, p0, k), \A id \in IdsOf(r) : id \in IdsOf(lv[s0][p0]) \/ id > n,
           NEW lv2, Replaced(lv, lv2, Seq(OrderRecord), s0, p0, r),
           NEW vl2, Replaced(vl, vl2, Nat, s0, p0, SumQty(r)),
           NEW ids2, ids2 = (ids \ IdsOf(lv[s0][p0])) \union IdsOf(r)
    PROVE  Structure(lv2, vl2, ids2, k)
<1>1. r \in Seq(OrderRecord) /\ SumQty(r) \in Nat
  BY SumQtyPositive DEF Queued
<1>3. /\ lv2 \in [Sides -> [Prices -> Seq(OrderRecord)]]
      /\ \A s \in Sides, p \in Prices : lv2[s][p] = IF s = s0 /\ p = p0 THEN r ELSE lv[s][p]
  BY DEF Replaced
<1>4. /\ vl2 \in [Sides -> [Prices -> Nat]]
      /\ \A s \in Sides, p \in Prices :
           vl2[s][p] = IF s = s0 /\ p = p0 THEN SumQty(r) ELSE vl[s][p]
  BY DEF Replaced
<1>5. ASSUME NEW s \in Sides, NEW p \in Prices
      PROVE  Queued(lv2[s][p], s, p, k) /\ vl2[s][p] = SumQty(lv2[s][p])
  <2>1. CASE s = s0 /\ p = p0
    BY <1>3, <1>4, <2>1
  <2>2. CASE ~ (s = s0 /\ p = p0)
    <3>1. lv2[s][p] = lv[s][p] /\ vl2[s][p] = vl[s][p]
      BY <1>3, <1>4, <2>2
    <3>2. Queued(lv[s][p], s, p, n) /\ vl[s][p] = SumQty(lv[s][p])
      BY StructureParts
    <3>3. Queued(lv[s][p], s, p, k)
      BY <3>2, QueuedLater
    <3> QED
      BY <3>1, <3>2, <3>3
  <2> QED
    BY <2>1, <2>2
<1>6. \A s \in Sides, p \in Prices : \A id \in IdsOf(lv[s][p]) : id \in ids /\ ~ (id > n)
  <2> TAKE s \in Sides, p \in Prices
  <2> TAKE id \in IdsOf(lv[s][p])
  <2>1. id \in ids
    BY StructureParts
  <2>2. id \in Nat /\ id <= n
    BY <2>1, StructureIds DEF Ids
  <2> QED
    BY <2>1, <2>2
<1>7. \A s1, s2 \in Sides, p1, p2 \in Prices :
        IdsOf(lv[s1][p1]) \intersect IdsOf(lv[s2][p2]) # {} => s1 = s2 /\ p1 = p2
  BY DEF Structure, OneLevel
<1>8. \A s \in Sides, p \in Prices :
        IdsOf(lv2[s][p]) \intersect IdsOf(r) # {} => s = s0 /\ p = p0
  <2> SUFFICES ASSUME NEW s \in Sides, NEW p \in Prices, ~ (s = s0 /\ p = p0),
                      NEW id \in IdsOf(lv2[s][p]), id \in IdsOf(r)
               PROVE  FALSE
    OBVIOUS
  <2>1. lv2[s][p] = lv[s][p]
    BY <1>3
  <2>2. ~ (id > n) /\ id \in IdsOf(lv[s][p])
    BY <1>6, <2>1
  <2>3. id \in IdsOf(lv[s0][p0])
    BY <2>2
  <2> QED
    BY <1>7, <2>2, <2>3
<1>9. ASSUME NEW s1 \in Sides, NEW s2 \in Sides, NEW p1 \in Prices, NEW p2 \in Prices,
             IdsOf(lv2[s1][p1]) \intersect IdsOf(lv2[s2][p2]) # {}
      PROVE  s1 = s2 /\ p1 = p2
  <2>0. PICK id : id \in IdsOf(lv2[s1][p1]) /\ id \in IdsOf(lv2[s2][p2])
    BY <1>9
  <2>1. CASE s1 = s0 /\ p1 = p0
    <3>1. id \in IdsOf(r)
      BY <1>3, <2>0, <2>1
    <3> QED
      BY <1>8, <2>0, <2>1, <3>1
  <2>2. CASE s2 = s0 /\ p2 = p0
    <3>1. id \in IdsOf(r)
      BY <1>3, <2>0, <2>2
    <3> QED
      BY <1>8, <2>0, <2>2, <3>1
  <2>3. CASE ~ (s1 = s0 /\ p1 = p0) /\ ~ (s2 = s0 /\ p2 = p0)
    <3>1. lv2[s1][p1] = lv[s1][p1] /\ lv2[s2][p2] = lv[s2][p2]
      BY <1>3, <2>3
    <3> QED
      BY <1>7, <2>0, <3>1
  <2> QED
    BY <2>1, <2>2, <2>3
<1>10. ids2 = AllIds(lv2)
  <2>1. ids = UNION {IdsOf(lv[s][p]) : s \in Sides, p \in Prices}
    BY DEF Structure, AllIds
  <2>2. ASSUME NEW id \in ids2 PROVE \E s \in Sides, p \in Prices : id \in IdsOf(lv2[s][p])
    <3>1. CASE id \in IdsOf(r)
      BY <1>3, <3>1
    <3>2. CASE id \in ids /\ id \notin IdsOf(lv[s0][p0])
      <4>1. PICK s \in Sides, p \in Prices : id \in IdsOf(lv[s][p])
        BY <2>1, <3>2
      <4>2. lv2[s][p] = lv[s][p]
        BY <1>3, <3>2, <4>1
      <4> QED
        BY <4>1, <4>2
    <3> QED
      BY <2>2, <3>1, <3>2
  <2>3. ASSUME NEW s \in Sides, NEW p \in Prices, NEW id \in IdsOf(lv2[s][p]) PROVE id \in ids2
    <3>1. CASE s = s0 /\ p = p0
      BY <1>3, <2>3, <3>1
    <3>2. CASE ~ (s = s0 /\ p = p0)
      <4>1. id \in IdsOf(lv[s][p])
        BY <1>3, <2>3, <3>2
      <4>2. id \notin IdsOf(lv[s0][p0])
        BY <1>7, <3>2, <4>1
      <4>3. id \in ids
        BY <1>6, <4>1
      <4> QED
        BY <4>2, <4>3
    <3> QED
      BY <3>1, <3>2
  <2> QED
    BY <2>2, <2>3 DEF AllIds
<1>11. EachQueued(lv2, k)
  BY <1>3, <1>5 DEF EachQueued
<1>12. EachCounted(lv2, vl2)
  BY <1>4, <1>5 DEF EachCounted
<1>13. OneLevel(lv2)
  BY <1>9 DEF OneLevel
<1> QED
  BY <1>10, <1>11, <1>12, <1>13, Zenon DEF Structure

EachLevel(f) == f = [s \in Sides |-> [p \in Prices |-> f[s][p]]]

\* Levels lv2 and volumes vl2 are what a sweep at time t makes of lv and vl, ...
EachSwept(lv, vl, lv2, vl2, t) ==
    /\ EachLevel(lv2) /\ EachLevel(vl2)
    /\ \A s \in Sides, p \in Prices :
         /\ lv2[s][p] = Swept(lv[s][p], t)
         /\ vl2[s][p] = vl[s][p] - (SumQty(lv[s][p]) - SumQty(lv2[s][p]))

\* ... removed are the orders it removes, ...
AllGone(removed, lv, lv2) ==
    \A id : id \in removed <=> \E s \in Sides, p \in Prices :
                                id \in IdsOf(lv[s][p]) /\ id \notin IdsOf(lv2[s][p])

\* ... and a level is the same one when it loses no order.
SweptRight(lv, lv2, vl2, removed) ==
    \A s \in Sides, p \in Prices :
        /\ lv[s][p] = <<>> => lv2[s][p] = <<>>
        /\ IdsOf(lv[s][p]) \ IdsOf(lv2[s][p]) = {} => lv2[s][p] = lv[s][p]
        /\ removed = {} => lv2[s][p] = lv[s][p]
        /\ vl2[s][p] = SumQty(lv2[s][p])

\* A sweep of every level leaves a book, and the same one when it removes no order.
LEMMA StructureSwept ==
    ASSUME NEW lv, NEW vl, NEW ids, NEW n \in Int, Structure(lv, vl, ids, n), NEW t,
           NEW lv2, NEW vl2, EachSwept(lv, vl, lv2, vl2, t),
           NEW removed, AllGone(removed, lv, lv2)
    PROVE  /\ Structure(lv2, vl2, ids \ removed, n)
           /\ removed \subseteq ids
           /\ SweptRight(lv, lv2, vl2, removed)
<1>0. \A s \in Sides, p \in Prices :
        /\ lv2[s][p] = Swept(lv[s][p], t)
        /\ vl2[s][p] = vl[s][p] - (SumQty(lv[s][p]) - SumQty(lv2[s][p]))
  BY DEF EachSwept
<1>1. ASSUME NEW s \in Sides, NEW p \in Prices
      PROVE  /\ Queued(lv2[s][p], s, p, n) /\ lv2[s][p] \in Seq(OrderRecord)
             /\ IdsOf(lv2[s][p]) \subseteq IdsOf(lv[s][p])
             /\ IdsOf(lv[s][p]) \ IdsOf(lv2[s][p]) = {} => lv2[s][p] = lv[s][p]
             /\ vl2[s][p] = SumQty(lv2[s][p]) /\ vl2[s][p] \in Nat
             /\ lv[s][p] = <<>> => lv2[s][p] = <<>>
             /\ IdsOf(lv[s][p]) \subseteq ids
  <2>1. /\ Queued(lv[s][p], s, p, n) /\ vl[s][p] = SumQty(lv[s][p])
        /\ IdsOf(lv[s][p]) \subseteq ids /\ vl[s][p] \in Nat
    BY StructureParts
  <2>2. /\ Queued(lv2[s][p], s, p, n)
        /\ IdsOf(lv2[s][p]) \subseteq IdsOf(lv[s][p])
        /\ IdsOf(lv[s][p]) \ IdsOf(lv2[s][p]) = {} => lv2[s][p] = lv[s][p]
    <3>1. PICK q, r : q = lv[s][p] /\ r = lv2[s][p]
      OBVIOUS
    <3>2. Queued(q, s, p, n) /\ r = Swept(q, t)
      BY <1>0, <2>1, <3>1
    <3>3. Queued(r, s, p, n) /\ IdsOf(r) \subseteq IdsOf(q) /\ (IdsOf(q) \ IdsOf(r) = {} => r = q)
      BY <3>2, SweptIs, Zenon
    <3> QED
      BY <3>1, <3>3, Zenon
  <2>3. SumQty(lv2[s][p]) \in Nat /\ lv2[s][p] \in Seq(OrderRecord)
    BY <2>2, SumQtyPositive DEF Queued
  <2>4. vl2[s][p] = SumQty(lv2[s][p])
    <3>1. \A a, b \in Nat : a - (a - b) = b
      OBVIOUS
    <3>2. vl2[s][p] = vl[s][p] - (vl[s][p] - SumQty(lv2[s][p]))
      BY <1>0, <2>1
    <3> QED
      BY <2>1, <2>3, <3>1, <3>2
  <2>5. lv[s][p] = <<>> => lv2[s][p] = <<>>
    <3> SUFFICES ASSUME lv[s][p] = <<>> PROVE lv2[s][p] = <<>>
      OBVIOUS
    <3>1. IdsOf(lv[s][p]) = {}
      BY IdsOfEmpty
    <3> QED
      BY <2>2, <3>1
  <2> QED
    BY <2>1, <2>2, <2>3, <2>4, <2>5
<1>2. \A s \in Sides, p \in Prices : \A id \in IdsOf(lv[s][p]) :
        id \notin IdsOf(lv2[s][p]) => id \in removed
  BY DEF AllGone
<1>3. \A id \in removed : \E s \in Sides, p \in Prices :
        id \in IdsOf(lv[s][p]) /\ id \notin IdsOf(lv2[s][p])
  BY DEF AllGone
<1>4. lv2 \in [Sides -> [Prices -> Seq(OrderRecord)]] /\ vl2 \in [Sides -> [Prices -> Nat]]
  BY <1>1 DEF EachSwept, EachLevel
<1>5. EachQueued(lv2, n) /\ EachCounted(lv2, vl2)
  BY <1>1, <1>4 DEF EachQueued, EachCounted
<1>6. \A s1, s2 \in Sides, p1, p2 \in Prices :
        IdsOf(lv[s1][p1]) \intersect IdsOf(lv[s2][p2]) # {} => s1 = s2 /\ p1 = p2
  BY DEF Structure, OneLevel
<1>7. OneLevel(lv2)
  <2> SUFFICES ASSUME NEW s1 \in Sides, NEW s2 \in Sides, NEW p1 \in Prices, NEW p2 \in Prices,
                      NEW id \in IdsOf(lv2[s1][p1]), id \in IdsOf(lv2[s2][p2])
               PROVE  s1 = s2 /\ p1 = p2
    BY DEF OneLevel
  <2>1. id \in IdsOf(lv[s1][p1]) /\ id \in IdsOf(lv[s2][p2])
    BY <1>1
  <2> QED
    BY <1>6, <2>1
<1>8. ids \ removed = AllIds(lv2)
  <2>1. ASSUME NEW id \in ids, id \notin removed
        PROVE  \E s \in Sides, p \in Prices : id \in IdsOf(lv2[s][p])
    <3>1. PICK s \in Sides, p \in Prices : id \in IdsOf(lv[s][p])
      BY DEF Structure, AllIds
    <3> QED
      BY <1>2, <2>1, <3>1
  <2>2. ASSUME NEW s \in Sides, NEW p \in Prices, NEW id \in IdsOf(lv2[s][p])
        PROVE  id \in ids /\ id \notin removed
    <3>1. id \in IdsOf(lv[s][p]) /\ id \in ids
      BY <1>1
    <3>2. ASSUME id \in removed PROVE FALSE
      <4>1. PICK s1 \in Sides, p1 \in Prices :
              id \in IdsOf(lv[s1][p1]) /\ id \notin IdsOf(lv2[s1][p1])
        BY <1>3, <3>2
      <4>2. s1 = s /\ p1 = p
        BY <1>6, <3>1, <4>1
      <4> QED
        BY <4>1, <4>2
    <3> QED
      BY <3>1, <3>2
  <2> QED
    BY <2>1, <2>2 DEF AllIds
<1>9. removed \subseteq ids
  BY <1>1, <1>3
<1>10. \A s \in Sides, p \in Prices : removed = {} => lv2[s][p] = lv[s][p]
  BY <1>1, <1>2
<1>11. Structure(lv2, vl2, ids \ removed, n)
  BY <1>5, <1>7, <1>8, Zenon DEF Structure
<1>12. SweptRight(lv, lv2, vl2, removed)
  BY <1>1, <1>10 DEF SweptRight
<1> QED
  BY <1>9, <1>11, <1>12

\* The stored open orders of a price are those of its level.
LEMMA RestoredIs ==
    ASSUME NEW vl, NEW ids, NEW n, Structure(levels, vl, ids, n),
           NEW s \in Sides, NEW p \in Prices, ghosts = {}
    PROVE  Restored(s, p) = levels[s][p]
<1>1. \A s1 \in Sides, p1 \in Prices :
        Queued(levels[s1][p1], s1, p1, n) /\ levels[s1][p1] \in Seq(OrderRecord)
  BY StructureParts
<1>2. \A s1 \in Sides, p1 \in Prices : \A o \in ToSet(levels[s1][p1]) : o.side = s1 /\ o.price = p1
  <2> TAKE s1 \in Sides, p1 \in Prices
  <2>1. PICK q : q = levels[s1][p1]
    OBVIOUS
  <2>2. Queued(q, s1, p1, n) /\ q \in Seq(OrderRecord)
    BY <1>1, <2>1
  <2>3. ToSet(q) = {q[i] : i \in 1 .. Len(q)}
    BY <2>2, ToSetFinite
  <2>4. \A i \in 1 .. Len(q) : q[i].side = s1 /\ q[i].price = p1
    BY <2>2 DEF Queued
  <2>5. \A o \in ToSet(q) : o.side = s1 /\ o.price = p1
    BY <2>3, <2>4
  <2> QED
    BY <2>1, <2>5
<1>3. OpenAt(s, p) = ToSet(levels[s][p])
  BY <1>2 DEF OpenAt, InLevels
<1>4. ByAge(ToSet(levels[s][p])) = levels[s][p]
  BY <1>1, ByAgeOfQueue
<1> QED
  BY <1>3, <1>4 DEF Restored

LEMMA UncrossedKept ==
    ASSUME NEW lv, NEW lv2, Uncrossed(lv),
           \A s \in Sides, p \in Prices : lv[s][p] = <<>> => lv2[s][p] = <<>>
    PROVE  Uncrossed(lv2)
BY DEF Uncrossed, Sides

LEMMA BestKept ==
    ASSUME NEW lv, NEW lv2, NEW s \in Sides, NEW b, BestRight(lv, s, b),
           \A p \in Prices : lv[s][p] = <<>> <=> lv2[s][p] = <<>>
    PROVE  BestRight(lv2, s, b)
BY DEF BestRight

\* The best price of a side after an order rests at price x.
BestWith(b2, b, s, x) ==
    b2 = IF s = "buy" THEN Max({b, x}) ELSE IF b = 0 THEN x ELSE Min({b, x})

LEMMA BestRested ==
    ASSUME NEW lv, NEW lv2, NEW s \in Sides, NEW b, BestRight(lv, s, b), NEW x \in Prices,
           lv2[s][x] # <<>>, \A p \in Prices : p # x => lv2[s][p] = lv[s][p],
           NEW b2, BestWith(b2, b, s, x)
    PROVE  BestRight(lv2, s, b2)
<1>1. Prices \subseteq Nat /\ b \in Nat /\ 0 \notin Prices /\ x \in Nat
  BY PricesFinite DEF BestRight, Prices
<1>2. CASE s = "buy"
  <2>1. b2 = IF b >= x THEN b ELSE x
    BY <1>1, <1>2, MaxOfTwo DEF BestWith
  <2>2. \A p, q : Better(s, p, q) <=> p > q
    BY <1>2 DEF Better
  <2>3. b # 0 => b \in Prices /\ lv[s][b] # <<>> /\ \A p \in Prices : lv[s][p] # <<>> => ~ (p > b)
    BY <2>2 DEF BestRight
  <2>4. b = 0 => \A p \in Prices : lv[s][p] = <<>>
    BY DEF BestRight
  <2>5. b2 \in Prices /\ lv2[s][b2] # <<>> /\ b2 # 0
    BY <1>1, <2>1, <2>3
  <2>6. ASSUME NEW p \in Prices, lv2[s][p] # <<>> PROVE ~ (p > b2)
    <3>1. p \in Nat
      BY <1>1
    <3>2. CASE p = x
      BY <1>1, <2>1, <3>2
    <3>3. CASE p # x
      <4>1. lv[s][p] # <<>> /\ b # 0 /\ ~ (p > b)
        BY <2>3, <2>4, <2>6, <3>3
      <4> QED
        BY <1>1, <2>1, <3>1, <4>1
    <3> QED
      BY <3>2, <3>3
  <2> QED
    BY <2>2, <2>5, <2>6 DEF BestRight
<1>3. CASE s = "sell"
  <2>1. b2 = IF b = 0 THEN x ELSE IF b <= x THEN b ELSE x
    BY <1>1, <1>3, MinOfTwo DEF BestWith
  <2>2. \A p, q : Better(s, p, q) <=> p < q
    BY <1>3 DEF Better
  <2>3. b # 0 => b \in Prices /\ lv[s][b] # <<>> /\ \A p \in Prices : lv[s][p] # <<>> => ~ (p < b)
    BY <2>2 DEF BestRight
  <2>4. b = 0 => \A p \in Prices : lv[s][p] = <<>>
    BY DEF BestRight
  <2>5. b2 \in Prices /\ lv2[s][b2] # <<>> /\ b2 # 0
    BY <1>1, <2>1, <2>3
  <2>6. ASSUME NEW p \in Prices, lv2[s][p] # <<>> PROVE ~ (p < b2)
    <3>1. p \in Nat
      BY <1>1
    <3>2. CASE p = x
      BY <1>1, <2>1, <3>2
    <3>3. CASE p # x
      <4>1. lv[s][p] # <<>> /\ b # 0 /\ ~ (p < b)
        BY <2>3, <2>4, <2>6, <3>3
      <4> QED
        BY <1>1, <2>1, <3>1, <4>1
    <3> QED
      BY <3>2, <3>3
  <2> QED
    BY <2>2, <2>5, <2>6 DEF BestRight
<1> QED
  BY <1>2, <1>3 DEF Sides

\* The best price a restart computes.
LEMMA BestRestored ==
    ASSUME NEW lv, NEW s \in Sides, NEW used, used = {p \in Prices : lv[s][p] # <<>>},
           NEW b, b = IF used = {} THEN 0 ELSE IF s = "buy" THEN Max(used) ELSE Min(used)
    PROVE  BestRight(lv, s, b)
<1>1. Prices \subseteq Nat /\ 0 \notin Prices /\ used \in SUBSET Prices
  BY PricesFinite DEF Prices
<1>2. \A p \in Prices : p \in used <=> lv[s][p] # <<>>
  OBVIOUS
<1>3. CASE used = {}
  BY <1>2, <1>3 DEF BestRight
<1>4. CASE used # {} /\ s = "buy"
  <2>1. b \in used /\ \A p \in used : p <= b
    BY <1>1, <1>4, HighestPrice
  <2>2. \A p, q : Better(s, p, q) <=> p > q
    BY <1>4 DEF Better
  <2>3. ASSUME NEW p \in used PROVE ~ (p > b)
    <3>1. p <= b /\ p \in Int /\ b \in Int
      BY <1>1, <2>1
    <3> QED
      BY <3>1
  <2> QED
    BY <1>1, <1>2, <2>1, <2>2, <2>3 DEF BestRight
<1>5. CASE used # {} /\ s = "sell"
  <2>1. b \in used /\ \A p \in used : b <= p
    BY <1>1, <1>5, LowestPrice
  <2>2. \A p, q : Better(s, p, q) <=> p < q
    BY <1>5 DEF Better
  <2>3. ASSUME NEW p \in used PROVE ~ (p < b)
    <3>1. b <= p /\ p \in Int /\ b \in Int
      BY <1>1, <2>1
    <3> QED
      BY <3>1
  <2> QED
    BY <1>1, <1>2, <2>1, <2>2, <2>3 DEF BestRight
<1> QED
  BY <1>3, <1>4, <1>5 DEF Sides
-----------------------------------------------------------------------------
(* The steps between matches *)

LEMMA NoTradeIsFair ==
    ASSUME trade = NoTrade
    PROVE  PriceTimePriority /\ FillIsAgreed
BY DEF PriceTimePriority, FillIsAgreed

LEMMA LatestFacts ==
    ASSUME BookTypeOK
    PROVE  /\ count \in Int /\ Latest \in Int /\ Latest <= count
           /\ phase = "idle" => Latest = count
           /\ phase # "idle" => Latest = count - 1
<1>1. count \in Int
  BY BookAssumption DEF BookTypeOK
<1> QED
  BY <1>1 DEF Latest

\* The types that the structure of the book does not give.
Scalars ==
    /\ taker \in OrderRecord \union {NoOrder}
    /\ best \in [Sides -> Prices \union {0}]
    /\ now \in Times \union {0}
    /\ active \in BOOLEAN
    /\ phase \in {"idle", "level", "maker", "done"}
    /\ target \in 0 .. Scale
    /\ maker \in Ids \union {0}
    /\ count \in 0 .. MaxOrders
    /\ status \in [Ids -> Statuses]
    /\ depth \in [Sides -> [Prices -> Nat]]
    /\ ghosts \subseteq OrderRecord /\ missed \in BOOLEAN /\ spoilt \in BOOLEAN

LEMMA TypeFromParts ==
    ASSUME Structure(levels, vol, orders, Latest), Scalars
    PROVE  BookTypeOK
<1>1. /\ levels \in [Sides -> [Prices -> Seq(OrderRecord)]]
      /\ vol \in [Sides -> [Prices -> Nat]]
  BY DEF Structure, EachQueued, EachCounted
<1>2. orders \subseteq Ids
  BY StructureIds
<1> QED
  BY <1>1, <1>2 DEF BookTypeOK, Scalars

\* Every conjunct of the invariant but the types of the book.
BookParts ==
    /\ Scalars
    /\ Structure(levels, vol, orders, Latest)
    /\ Uncrossed(levels)
    /\ BestKnown /\ DepthKnown /\ StatusKnown
    /\ phase # "idle" => Matching
    /\ phase = "idle" => taker = NoOrder

LEMMA BookFromParts ==
    ASSUME BookParts, trade = NoTrade
    PROVE  BookInv
BY TypeFromParts, NoTradeIsFair DEF BookParts, BookInv

LEMMA BookFromPartsNext == BookParts' /\ (trade = NoTrade)' => BookInv'
<1>1. BookParts /\ trade = NoTrade => BookInv
  BY BookFromParts
<1> QED
  BY <1>1, PTL

\* An operator of a primed variable is the primed operator.
LEMMA StructureNext ==
    ASSUME Structure(levels', vol', orders', Latest')
    PROVE  Structure(levels, vol, orders, Latest)'
OBVIOUS

LEMMA UncrossedNext ==
    ASSUME Uncrossed(levels')
    PROVE  Uncrossed(levels)'
OBVIOUS

LEMMA PartsOfBook ==
    ASSUME BookInv
    PROVE  BookParts
BY DEF BookInv, BookParts, BookTypeOK, Scalars

\* An empty book.
LEMMA BookInitInv ==
    ASSUME BookInit
    PROVE  BookInv
<1>1. \A s \in Sides, p \in Prices : levels[s][p] = <<>> /\ vol[s][p] = 0 /\ depth[s][p] = 0
  BY DEF BookInit
<1>2. levels \in [Sides -> [Prices -> Seq(OrderRecord)]] /\ vol \in [Sides -> [Prices -> Nat]]
  <2>1. <<>> \in Seq(OrderRecord) /\ 0 \in Nat
    OBVIOUS
  <2> QED
    BY <2>1 DEF BookInit
<1>3. EachQueued(levels, Latest)
  <2>1. \A s \in Sides, p \in Prices : Queued(<<>>, s, p, Latest)
    BY DEF Queued
  <2> QED
    BY <1>1, <1>2, <2>1 DEF EachQueued
<1>4. EachCounted(levels, vol)
  BY <1>1, <1>2, SumQtyEmpty DEF EachCounted
<1>5. OneLevel(levels)
  BY <1>1, IdsOfEmpty DEF OneLevel
<1>6. orders = AllIds(levels)
  BY <1>1, IdsOfEmpty DEF AllIds, BookInit
<1>7. Structure(levels, vol, orders, Latest)
  BY <1>3, <1>4, <1>5, <1>6, Zenon DEF Structure
<1>8. Uncrossed(levels)
  BY <1>1, SideFacts DEF Uncrossed, Sides
<1>9. BestKnown
  <2>1. \A s \in Sides : best[s] = 0
    BY DEF BookInit
  <2> QED
    BY <1>1, <2>1 DEF BestKnown, BestRight
<1>10. DepthKnown
  <2>1. \A s \in Sides, p \in Prices : depth[s][p] = SumQty(levels[s][p])
    BY <1>1, SumQtyEmpty
  <2> QED
    BY <2>1 DEF DepthKnown
<1>11. StatusKnown
  BY DEF StatusKnown, BookInit, Open
<1>12. Scalars
  <2>1. missed \in BOOLEAN /\ spoilt \in BOOLEAN /\ ghosts \subseteq OrderRecord
    BY Zenon DEF BookInit
  <2> QED
    BY <2>1, ScaleAssumption, BookAssumption DEF Scalars, BookInit, Statuses
<1>13. phase = "idle" /\ taker = NoOrder /\ trade = NoTrade
  BY DEF BookInit
<1> QED
  BY <1>7, <1>8, <1>9, <1>10, <1>11, <1>12, <1>13, BookFromParts DEF BookParts

\* A rejected order gets an id and no place in the book.
LEMMA RejectInv ==
    ASSUME BookInv, NEW cmd \in Commands, NEW t \in Times, RejectOrder(cmd, t)
    PROVE  BookInv'
<1>0. BookParts
  BY PartsOfBook
<1>1. /\ phase = "idle" /\ phase' = "idle" /\ count' = count + 1 /\ trade' = NoTrade /\ now' = t
      /\ count < MaxOrders /\ status' = [status EXCEPT ![count + 1] = "rejected"]
      /\ levels' = levels /\ vol' = vol /\ best' = best /\ orders' = orders /\ active' = active
      /\ depth' = depth /\ target' = target /\ maker' = maker /\ taker' = taker
      /\ ghosts' = ghosts /\ missed' = missed /\ spoilt' = spoilt
  BY DEF RejectOrder, matchVars, sweepVars
<1>2. count \in Int /\ Latest = count /\ count + 1 \in Ids
  <2>1. count \in 0 .. MaxOrders /\ MaxOrders \in Nat
    BY BookAssumption DEF BookInv, BookTypeOK
  <2> QED
    BY <1>1, <2>1 DEF Ids, Latest
<1>3. Latest' = count + 1
  BY <1>1 DEF Latest
<1>4. Structure(levels, vol, orders, Latest)'
  <2>1. Structure(levels, vol, orders, count + 1)
    BY <1>0, <1>2, StructureLater DEF BookParts
  <2>2. Structure(levels', vol', orders', Latest')
    BY <1>1, <1>3, <2>1
  <2> QED
    BY <2>2, StructureNext
<1>5. StatusKnown'
  <2>1. count + 1 \notin orders
    <3>1. \A id \in orders : id <= count
      BY <1>0, <1>2, StructureIds DEF BookParts
    <3> QED
      BY <1>2, <3>1
  <2>2. \A id \in Ids : status'[id] = IF id = count + 1 THEN "rejected" ELSE status[id]
    BY <1>0, <1>1, <1>2 DEF BookParts, Scalars
  <2> QED
    BY <1>0, <1>1, <2>1, <2>2 DEF BookParts, StatusKnown, Open
<1>6. Scalars'
  <2>1. count' \in 0 .. MaxOrders
    BY <1>1, <1>2 DEF Ids
  <2>2. status' \in [Ids -> Statuses]
    BY <1>0, <1>1 DEF BookParts, Scalars, Statuses, Final
  <2>3. now' \in Times \union {0}
    BY <1>1
  <2> QED
    BY <1>0, <1>1, <2>1, <2>2, <2>3 DEF BookParts, Scalars
<1>7. Uncrossed(levels)' /\ BestKnown' /\ DepthKnown'
  BY <1>0, <1>1 DEF BookParts, Uncrossed, BestKnown, BestRight, Better, DepthKnown, MakerSide
<1>8. phase' = "idle" /\ taker' = NoOrder
  BY <1>0, <1>1 DEF BookParts
<1>9. BookParts'
  BY <1>4, <1>5, <1>6, <1>7, <1>8 DEF BookParts
<1> QED
  BY <1>1, <1>9, BookFromPartsNext

\* The cached best prices are prices.
LEMMA FurthestFirst ==
    ASSUME NEW lv, NEW s \in Sides
    PROVE  Furthest(s) \in Int /\ NoneBefore(lv, s, Furthest(s))
BY ScaleAssumption DEF Furthest, NoneBefore, Better, Prices, Sides

\* The loop of a new order starts at the best price of the other side.
LEMMA PlaceInv ==
    ASSUME BookInv, NEW cmd \in Commands, NEW t \in Times, PlaceOrder(cmd, t)
    PROVE  BookInv'
<1>0. BookParts
  BY PartsOfBook
<1>1. PICK o : o = Order(cmd, count + 1)
  OBVIOUS
<1>2. PICK other : other = Opposite(o.side)
  OBVIOUS
<1>3. /\ phase = "idle" /\ phase' = "level" /\ count' = count + 1 /\ trade' = NoTrade /\ now' = t
      /\ count < MaxOrders /\ taker' = o /\ maker' = 0
      /\ target' = IF best[other] # 0 THEN best[other]
                   ELSE BestFrom(vol[other], other, Furthest(other))
      /\ levels' = levels /\ vol' = vol /\ best' = best /\ orders' = orders /\ active' = active
      /\ depth' = depth /\ status' = status
      /\ ghosts' = ghosts /\ missed' = missed /\ spoilt' = spoilt
  BY <1>1, <1>2 DEF PlaceOrder, sweepVars
<1>4. count \in Int /\ Latest = count /\ count + 1 \in Ids
  <2>1. count \in 0 .. MaxOrders /\ MaxOrders \in Nat
    BY BookAssumption DEF BookInv, BookTypeOK
  <2> QED
    BY <1>3, <2>1 DEF Ids, Latest
<1>5. Latest' = count
  BY <1>3, <1>4 DEF Latest
<1>6. o \in OrderRecord /\ Normalized(o) /\ o.id = count + 1
  BY <1>1, <1>4, OrderOfCommand
<1>7. other \in Sides /\ MakerSide' = other
  BY <1>2, <1>3, <1>6, Fields, SideFacts DEF MakerSide
<1>8. BestRight(levels, other, best[other])
  BY <1>0, <1>3, <1>7 DEF BookParts, BestKnown
<1>9. \A p \in Prices : vol[other][p] > 0 <=> levels[other][p] # <<>>
  BY <1>0, <1>7, StructureParts DEF BookParts
<1>10. BestRight(levels, other, target')
  <2>1. CASE best[other] # 0
    BY <1>3, <1>8, <2>1
  <2>2. CASE best[other] = 0
    <3>1. BestRight(levels, other, BestFrom(vol[other], other, Furthest(other)))
      BY <1>7, <1>9, FurthestFirst, BestFromRight
    <3> QED
      BY <1>3, <2>2, <3>1
  <2> QED
    BY <2>1, <2>2
<1>11. target' \in 0 .. Scale
  <2>1. target' \in Prices \union {0}
    BY <1>7, <1>10, BestType
  <2> QED
    BY <2>1, ScaleAssumption DEF Prices
<1>12. NoneBefore(levels, other, target') /\ (target' \notin Prices => SideEmpty(levels, other))
  BY <1>10 DEF BestRight, NoneBefore, SideEmpty
<1>13. Matching'
  <2>1. NoneBefore(levels', MakerSide', target')
    BY <1>3, <1>7, <1>12
  <2>2. target' \notin Prices => SideEmpty(levels', MakerSide')
    BY <1>3, <1>7, <1>12
  <2>3. Normalized(taker')
    BY <1>3, <1>6
  <2> QED
    BY <1>3, <1>6, <2>1, <2>2, <2>3 DEF Matching
<1>14. Structure(levels', vol', orders', Latest')
  BY <1>0, <1>3, <1>4, <1>5 DEF BookParts
<1>15. Scalars'
  <2>1. count' \in 0 .. MaxOrders /\ now' \in Times \union {0}
    BY <1>3, <1>4 DEF Ids
  <2> QED
    BY <1>0, <1>3, <1>6, <1>11, <2>1 DEF BookParts, Scalars
<1>16. Uncrossed(levels') /\ StatusKnown'
  BY <1>0, <1>3 DEF BookParts, StatusKnown
<1>17. BestKnown' /\ DepthKnown'
  <2>1. \A s \in Sides : BestRight(levels', s, best'[s])
    BY <1>0, <1>3 DEF BookParts, BestKnown
  <2>2. missed' \/ \A s \in Sides, p \in Prices : depth'[s][p] = SumQty(levels'[s][p])
    BY <1>0, <1>3 DEF BookParts, DepthKnown
  <2> QED
    BY <2>1, <2>2 DEF BestKnown, DepthKnown
<1>18. BookParts'
  BY <1>3, <1>13, <1>14, <1>15, <1>16, <1>17, StructureNext, UncrossedNext DEF BookParts
<1> QED
  BY <1>3, <1>18, BookFromPartsNext

LEMMA HaltInv ==
    ASSUME BookInv, NEW t \in Times, Halt(t)
    PROVE  BookInv'
<1>0. BookParts
  BY PartsOfBook
<1>1. /\ phase = "idle" /\ phase' = "idle" /\ count' = count /\ trade' = NoTrade /\ now' = t
      /\ levels' = levels /\ vol' = vol /\ best' = best /\ orders' = orders /\ active' = FALSE
      /\ depth' = depth /\ status' = status /\ target' = target /\ maker' = maker
      /\ taker' = taker
      /\ ghosts' = ghosts /\ missed' = missed /\ spoilt' = spoilt
  BY DEF Halt, matchVars, sweepVars
<1>2. Structure(levels', vol', orders', Latest')
  BY <1>0, <1>1 DEF BookParts, Latest
<1>3. Scalars'
  BY <1>0, <1>1 DEF BookParts, Scalars
<1>4. Uncrossed(levels') /\ StatusKnown' /\ BestKnown' /\ DepthKnown'
  <2>1. \A s \in Sides : BestRight(levels', s, best'[s])
    BY <1>0, <1>1 DEF BookParts, BestKnown
  <2>2. missed' \/ \A s \in Sides, p \in Prices : depth'[s][p] = SumQty(levels'[s][p])
    BY <1>0, <1>1 DEF BookParts, DepthKnown
  <2>3. Uncrossed(levels') /\ StatusKnown'
    BY <1>0, <1>1 DEF BookParts, StatusKnown
  <2> QED
    BY <2>1, <2>2, <2>3 DEF BestKnown, DepthKnown
<1>5. BookParts'
  BY <1>0, <1>1, <1>2, <1>3, <1>4, StructureNext, UncrossedNext DEF BookParts
<1> QED
  BY <1>1, <1>5, BookFromPartsNext

\* A restart rebuilds the book it had.
LEMMA RestoreSame ==
    ASSUME BookInv, RestoreBook, ghosts = {}
    PROVE  UNCHANGED <<levels, vol, best, orders>>
<1>0. BookParts
  BY PartsOfBook
<1> DEFINE queues == [s \in Sides |-> [p \in Prices |-> Restored(s, p)]]
           used(s) == {p \in Prices : queues[s][p] # <<>>}
<1>1. /\ phase = "idle"
      /\ levels' = queues
      /\ vol' = [s \in Sides |-> [p \in Prices |-> SumQty(queues[s][p])]]
      /\ orders' = UNION {IdsOf(queues[s][p]) : s \in Sides, p \in Prices}
      /\ best' = [s \in Sides |-> IF used(s) = {} THEN 0
                                  ELSE IF s = "buy" THEN Max(used(s)) ELSE Min(used(s))]
  BY DEF RestoreBook
<1>2. \A s \in Sides, p \in Prices : Restored(s, p) = levels[s][p]
  BY <1>0, RestoredIs DEF BookParts
<1>3. /\ levels \in [Sides -> [Prices -> Seq(OrderRecord)]]
      /\ vol \in [Sides -> [Prices -> Nat]] /\ best \in [Sides -> Prices \union {0}]
  BY DEF BookInv, BookTypeOK
<1>4. queues = levels
  <2>1. \A s \in Sides : [p \in Prices |-> Restored(s, p)] = levels[s]
    BY <1>2, <1>3
  <2> QED
    BY <1>3, <2>1
<1> HIDE DEF queues
<1>5. vol' = vol
  <2>1. \A s \in Sides, p \in Prices : vol[s][p] = SumQty(levels[s][p])
    BY <1>0, StructureParts DEF BookParts
  <2>2. \A s \in Sides : [p \in Prices |-> SumQty(levels[s][p])] = vol[s]
    BY <1>3, <2>1
  <2> QED
    BY <1>1, <1>3, <1>4, <2>2
<1>6. orders' = orders
  BY <1>0, <1>1, <1>4 DEF BookParts, Structure, AllIds
<1>7. \A s \in Sides : best'[s] = best[s]
  <2> TAKE s \in Sides
  <2>1. PICK u : u = {p \in Prices : levels[s][p] # <<>>}
    OBVIOUS
  <2>2. best'[s] = IF u = {} THEN 0 ELSE IF s = "buy" THEN Max(u) ELSE Min(u)
    BY <1>1, <1>4, <2>1
  <2>3. BestRight(levels, s, best'[s])
    BY <2>1, <2>2, BestRestored
  <2>4. BestRight(levels, s, best[s])
    BY <1>0, <1>1 DEF BookParts, BestKnown
  <2> QED
    BY <2>3, <2>4, BestUnique
<1>8. best' = best
  <2>1. best' = [s \in Sides |-> best'[s]]
    BY <1>1
  <2> QED
    BY <1>3, <1>7, <2>1
<1> QED
  BY <1>1, <1>4, <1>5, <1>6, <1>8

LEMMA RestoreInv ==
    ASSUME BookInv, RestoreBook, ghosts = {}
    PROVE  BookInv'
<1>0. BookParts
  BY PartsOfBook
<1>1. /\ phase = "idle" /\ phase' = "idle" /\ count' = count /\ trade' = NoTrade /\ now' = 0
      /\ active' = TRUE
      /\ depth' = depth /\ status' = status /\ target' = target /\ maker' = maker
      /\ taker' = taker /\ ghosts' = {} /\ missed' = missed /\ spoilt' = spoilt
  <2>1. spoilt' = (spoilt \/ ghosts # {}) /\ spoilt \in BOOLEAN
    BY DEF RestoreBook, BookInv, BookTypeOK
  <2> QED
    BY <2>1 DEF RestoreBook, matchVars
<1>2. levels' = levels /\ vol' = vol /\ best' = best /\ orders' = orders
  BY RestoreSame
<1>3. Structure(levels', vol', orders', Latest')
  BY <1>0, <1>1, <1>2 DEF BookParts, Latest
<1>4. Scalars'
  BY <1>0, <1>1, <1>2 DEF BookParts, Scalars
<1>5. Uncrossed(levels') /\ StatusKnown' /\ BestKnown' /\ DepthKnown'
  <2>1. \A s \in Sides : BestRight(levels', s, best'[s])
    BY <1>0, <1>1, <1>2 DEF BookParts, BestKnown
  <2>2. missed' \/ \A s \in Sides, p \in Prices : depth'[s][p] = SumQty(levels'[s][p])
    BY <1>0, <1>1, <1>2 DEF BookParts, DepthKnown
  <2>3. Uncrossed(levels') /\ StatusKnown'
    BY <1>0, <1>1, <1>2 DEF BookParts, StatusKnown
  <2> QED
    BY <2>1, <2>2, <2>3 DEF BestKnown, DepthKnown
<1>6. BookParts'
  BY <1>0, <1>1, <1>3, <1>4, <1>5, StructureNext, UncrossedNext DEF BookParts
<1> QED
  BY <1>1, <1>6, BookFromPartsNext

\* A sweep that finds nothing to remove moves the time only, also during a match.
LEMMA TimeMovesInv ==
    ASSUME BookInv, NEW t \in Times, now' = t,
           levels' = levels, vol' = vol, best' = best, orders' = orders, active' = active,
           taker' = taker, phase' = phase, target' = target, maker' = maker, count' = count,
           status' = status, depth' = depth, trade' = NoTrade,
           ghosts' \subseteq OrderRecord, missed' = missed, spoilt' = spoilt
    PROVE  BookInv'
<1>0. BookParts
  BY PartsOfBook
<1>1. Structure(levels', vol', orders', Latest') /\ Uncrossed(levels')
  BY <1>0 DEF BookParts, Latest
<1>2. Scalars'
  BY <1>0 DEF BookParts, Scalars
<1>3. BestKnown' /\ DepthKnown' /\ StatusKnown'
  BY <1>0 DEF BookParts, BestKnown, DepthKnown, StatusKnown, MakerSide
<1>4. (phase # "idle" => Matching)' /\ (phase = "idle" => taker = NoOrder)'
  BY <1>0 DEF BookParts, Matching, Level, MakerSide
<1>5. BookParts'
  BY <1>1, <1>2, <1>3, <1>4, StructureNext, UncrossedNext DEF BookParts
<1> QED
  BY <1>5, BookFromPartsNext

\* The orders of the levels are orders.
LEMMA InLevelsAre ==
    ASSUME BookInv
    PROVE  InLevels \subseteq OrderRecord
<1>1. ASSUME NEW s \in Sides, NEW p \in Prices
      PROVE  ToSet(levels[s][p]) \subseteq OrderRecord
  <2>1. PICK q : q = levels[s][p]
    OBVIOUS
  <2>2. q \in Seq(OrderRecord)
    BY <2>1 DEF BookInv, BookTypeOK
  <2>3. ToSet(q) = {q[i] : i \in 1 .. Len(q)}
    BY <2>2, ToSetFinite
  <2>4. \A i \in 1 .. Len(q) : q[i] \in OrderRecord
    BY <2>2
  <2> QED
    BY <2>1, <2>3, <2>4
<1> QED
  BY <1>1 DEF InLevels

\* A sweep takes expired orders out of the levels and out of everything derived from them. During
\* a match it leaves the book as it should be if it takes none.
LEMMA TickInv ==
    ASSUME BookInv, NEW t \in Times, Tick(t), ~spoilt'
    PROVE  BookInv'
<1>0. BookParts
  BY PartsOfBook
<1> DEFINE after == [s \in Sides |-> [p \in Prices |-> Swept(levels[s][p], t)]]
           gone(s, p) == IdsOf(levels[s][p]) \ IdsOf(after[s][p])
           removed == UNION {gone(s, p) : s \in Sides, p \in Prices}
           volumes == [s \in Sides |-> [p \in Prices |->
                         vol[s][p] - (SumQty(levels[s][p]) - SumQty(after[s][p]))]]
<1>t. PICK told \in BOOLEAN : SweepAll(t, told)
  BY DEF Tick
<1>1. /\ phase' = phase /\ count' = count /\ trade' = NoTrade /\ now' = t
      /\ active' = active /\ target' = target /\ maker' = maker /\ taker' = taker
      /\ levels' = after /\ vol' = volumes /\ orders' = orders \ removed
      /\ status' = [id \in Ids |-> IF told /\ id \in removed THEN "expired" ELSE status[id]]
      /\ depth' = [s \in Sides |-> [p \in Prices |->
                     IF told /\ gone(s, p) # {} THEN volumes[s][p] ELSE depth[s][p]]]
      /\ best' = IF removed = {} THEN best
                 ELSE [s \in Sides |-> BestFrom(volumes[s], s, Furthest(s))]
      /\ ghosts' = IF told THEN ghosts
                   ELSE ghosts \union {o \in InLevels : o.id \in removed}
      /\ missed' = (missed \/ (~told /\ removed # {}))
      /\ spoilt' = (spoilt \/ (phase # "idle" /\ removed # {}))
  BY <1>t DEF SweepAll, matchVars
<1>2. PICK gs : gs = removed
  <2> HIDE DEF removed
  <2> QED
    OBVIOUS
<1>3. /\ EachLevel(levels') /\ EachLevel(vol') /\ EachLevel(depth')
      /\ \A s \in Sides, p \in Prices :
           /\ levels'[s][p] = Swept(levels[s][p], t)
           /\ vol'[s][p] = vol[s][p] - (SumQty(levels[s][p]) - SumQty(levels'[s][p]))
           /\ depth'[s][p] = IF told /\ IdsOf(levels[s][p]) \ IdsOf(levels'[s][p]) # {}
                             THEN vol'[s][p] ELSE depth[s][p]
  <2>1. EachLevel(levels') /\ EachLevel(vol') /\ EachLevel(depth')
    BY <1>1 DEF EachLevel
  <2>2. \A s \in Sides, p \in Prices : levels'[s][p] = Swept(levels[s][p], t)
    BY <1>1
  <2>3. \A s \in Sides, p \in Prices :
          vol'[s][p] = vol[s][p] - (SumQty(levels[s][p]) - SumQty(levels'[s][p]))
    <3> HIDE DEF after
    <3> QED
      BY <1>1
  <2>4. \A s \in Sides, p \in Prices :
          depth'[s][p] = IF told /\ gone(s, p) # {} THEN vol'[s][p] ELSE depth[s][p]
    <3> HIDE DEF after, volumes, gone
    <3> QED
      BY <1>1
  <2>5. \A s \in Sides, p \in Prices : gone(s, p) = IdsOf(levels[s][p]) \ IdsOf(levels'[s][p])
    <3> HIDE DEF after
    <3> QED
      BY <1>1
  <2> HIDE DEF after, volumes, gone
  <2> QED
    BY <2>1, <2>2, <2>3, <2>4, <2>5
<1>4. \A id : id \in gs <=> \E s \in Sides, p \in Prices :
                              id \in IdsOf(levels[s][p]) /\ id \notin IdsOf(levels'[s][p])
  <2>1. \A s \in Sides, p \in Prices : gone(s, p) = IdsOf(levels[s][p]) \ IdsOf(levels'[s][p])
    <3> HIDE DEF after
    <3> QED
      BY <1>1
  <2> HIDE DEF after, gone
  <2> QED
    BY <1>2, <2>1
<1>5. /\ orders' = orders \ gs
      /\ status' = [id \in Ids |-> IF told /\ id \in gs THEN "expired" ELSE status[id]]
      /\ best' = IF gs = {} THEN best
                 ELSE [s \in Sides |-> BestFrom(vol'[s], s, Furthest(s))]
      /\ missed' = (missed \/ (~told /\ gs # {}))
      /\ spoilt' = spoilt
      /\ phase = "idle" \/ gs = {}
      /\ ghosts' \subseteq OrderRecord
  <2>1. spoilt \in BOOLEAN /\ ghosts \subseteq OrderRecord
    BY DEF BookInv, BookTypeOK
  <2>2. InLevels \subseteq OrderRecord
    BY InLevelsAre
  <2> HIDE DEF after, volumes, removed
  <2> QED
    BY <1>1, <1>2, <2>1, <2>2
<1> HIDE DEF after, gone, removed, volumes
<1>6. Latest \in Int /\ Latest' = Latest
  BY <1>1, LatestFacts DEF Latest, BookInv
<1>7. /\ Structure(levels', vol', orders', Latest)
      /\ gs \subseteq orders
      /\ \A s \in Sides, p \in Prices :
           /\ levels[s][p] = <<>> => levels'[s][p] = <<>>
           /\ IdsOf(levels[s][p]) \ IdsOf(levels'[s][p]) = {} => levels'[s][p] = levels[s][p]
           /\ gs = {} => levels'[s][p] = levels[s][p]
           /\ vol'[s][p] = SumQty(levels'[s][p])
  <2>1. EachSwept(levels, vol, levels', vol', t)
    BY <1>3 DEF EachSwept
  <2>2. AllGone(gs, levels, levels')
    BY <1>4 DEF AllGone
  <2>3. Structure(levels, vol, orders, Latest)
    BY <1>0 DEF BookParts
  <2>4. /\ Structure(levels', vol', orders \ gs, Latest)
        /\ gs \subseteq orders
        /\ SweptRight(levels, levels', vol', gs)
    BY <1>6, <2>1, <2>2, <2>3, StructureSwept
  <2> QED
    BY <1>5, <2>4 DEF SweptRight
<1>8. CASE gs = {}
  <2>1. levels' = levels /\ vol' = vol /\ depth' = depth
    <3>1. \A s \in Sides, p \in Prices :
            /\ levels'[s][p] = levels[s][p] /\ vol'[s][p] = vol[s][p]
            /\ depth'[s][p] = depth[s][p]
      <4>1. \A s \in Sides, p \in Prices : levels'[s][p] = levels[s][p]
        BY <1>7, <1>8
      <4>2. \A s \in Sides, p \in Prices : vol[s][p] = SumQty(levels[s][p])
        BY <1>0, StructureParts DEF BookParts
      <4> QED
        BY <1>3, <1>7, <4>1, <4>2
    <3>2. /\ levels \in [Sides -> [Prices -> Seq(OrderRecord)]]
          /\ vol \in [Sides -> [Prices -> Nat]] /\ depth \in [Sides -> [Prices -> Nat]]
      BY DEF BookInv, BookTypeOK
    <3>3. \A s \in Sides : /\ [p \in Prices |-> levels'[s][p]] = levels[s]
                           /\ [p \in Prices |-> vol'[s][p]] = vol[s]
                           /\ [p \in Prices |-> depth'[s][p]] = depth[s]
      BY <3>1, <3>2
    <3> QED
      BY <1>3, <3>2, <3>3 DEF EachLevel
  <2>2. best' = best /\ orders' = orders /\ status' = status /\ missed' = missed
    <3>1. status \in [Ids -> Statuses] /\ missed \in BOOLEAN
      BY <1>0 DEF BookParts, Scalars
    <3> QED
      BY <1>5, <1>8, <3>1
  <2> QED
    BY <1>1, <1>5, <2>1, <2>2, TimeMovesInv
<1>9. CASE gs # {}
  <2>1. phase = "idle"
    BY <1>5, <1>9
  <2>2. \A s \in Sides : BestRight(levels', s, best'[s])
    <3> TAKE s \in Sides
    <3>1. best'[s] = BestFrom(vol'[s], s, Furthest(s))
      BY <1>5, <1>9
    <3>2. \A p \in Prices : vol'[s][p] > 0 <=> levels'[s][p] # <<>>
      BY <1>7, StructureParts
    <3>3. BestRight(levels', s, BestFrom(vol'[s], s, Furthest(s)))
      BY <3>2, FurthestFirst, BestFromRight
    <3> QED
      BY <3>1, <3>3
  <2>3. DepthKnown'
    <3>1. missed' \/ \A s \in Sides, p \in Prices : depth[s][p] = SumQty(levels[s][p])
      BY <1>0, <1>5, <2>1 DEF BookParts, DepthKnown
    <3>2. missed' \/ \A s \in Sides, p \in Prices : depth'[s][p] = SumQty(levels'[s][p])
      <4> SUFFICES ASSUME ~missed', NEW s \in Sides, NEW p \in Prices
                   PROVE  depth'[s][p] = SumQty(levels'[s][p])
        OBVIOUS
      <4>1. told
        BY <1>5, <1>9
      <4>2. CASE IdsOf(levels[s][p]) \ IdsOf(levels'[s][p]) # {}
        BY <1>3, <1>7, <4>1, <4>2
      <4>3. CASE IdsOf(levels[s][p]) \ IdsOf(levels'[s][p]) = {}
        <5>1. depth'[s][p] = depth[s][p] /\ levels'[s][p] = levels[s][p]
          BY <1>3, <1>7, <4>3
        <5> QED
          BY <3>1, <5>1
      <4> QED
        BY <4>2, <4>3
    <3> QED
      BY <3>2 DEF DepthKnown
  <2>4. StatusKnown'
    <3>1. missed' \/ (told /\ \A id \in Ids : id \in orders <=> status[id] \in Open)
      BY <1>0, <1>5, <1>9 DEF BookParts, StatusKnown
    <3>2. missed' \/ \A id \in Ids : id \in orders' <=> status'[id] \in Open
      <4> SUFFICES ASSUME ~missed', NEW id \in Ids
                   PROVE  id \in orders' <=> status'[id] \in Open
        OBVIOUS
      <4>1. CASE id \in gs
        BY <1>5, <3>1, <4>1 DEF Open
      <4>2. CASE id \notin gs
        BY <1>5, <3>1, <4>2
      <4> QED
        BY <4>1, <4>2
    <3> QED
      BY <3>2 DEF StatusKnown
  <2>5. Scalars'
    <3>1. best' \in [Sides -> Prices \union {0}]
      <4>1. \A s \in Sides : best'[s] \in Prices \union {0}
        BY <2>2, BestType
      <4>2. best' = [s \in Sides |-> best'[s]]
        BY <1>0, <1>5 DEF BookParts, Scalars
      <4> QED
        BY <4>1, <4>2
    <3>2. status' \in [Ids -> Statuses]
      BY <1>0, <1>5 DEF BookParts, Scalars, Statuses, Final
    <3>3. depth' \in [Sides -> [Prices -> Nat]]
      <4>1. \A s \in Sides, p \in Prices : depth'[s][p] \in Nat
        <5>1. \A s \in Sides, p \in Prices : vol'[s][p] \in Nat /\ depth[s][p] \in Nat
          BY <1>0, <1>7, StructureParts DEF BookParts, Scalars
        <5> QED
          BY <1>3, <5>1
      <4> QED
        BY <1>3, <4>1 DEF EachLevel
    <3>4. missed' \in BOOLEAN /\ spoilt' \in BOOLEAN
      BY <1>0, <1>5 DEF BookParts, Scalars
    <3> QED
      BY <1>0, <1>1, <1>5, <3>1, <3>2, <3>3, <3>4 DEF BookParts, Scalars
  <2>6. Uncrossed(levels')
    BY <1>0, <1>7, UncrossedKept DEF BookParts
  <2>7. BestKnown'
    BY <2>2 DEF BestKnown
  <2>8. Structure(levels', vol', orders', Latest')
    BY <1>6, <1>7
  <2>9. phase' = "idle" /\ taker' = NoOrder
    BY <1>0, <1>1, <2>1 DEF BookParts
  <2>10. BookParts'
    BY <2>3, <2>4, <2>5, <2>6, <2>7, <2>8, <2>9, StructureNext, UncrossedNext DEF BookParts
  <2> QED
    BY <1>1, <2>10, BookFromPartsNext
<1> QED
  BY <1>8, <1>9
-----------------------------------------------------------------------------
(* The steps of a match that leave the levels *)

\* The level the loop goes on to has no better one with orders behind it.
LEMMA NextLevelKeeps ==
    ASSUME NEW lv, NEW s \in Sides, NEW t \in Prices, lv[s][t] = <<>>, NoneBefore(lv, s, t)
    PROVE  /\ s = "buy" /\ t = 1 => SideEmpty(lv, s)
           /\ s = "buy" /\ t # 1 => t - 1 \in Prices /\ NoneBefore(lv, s, t - 1)
           /\ s = "sell" => /\ t + 1 \in 0 .. Scale /\ NoneBefore(lv, s, t + 1)
                            /\ t + 1 \notin Prices => SideEmpty(lv, s)
<1>1. t \in Nat /\ t >= 1 /\ t <= Scale - 1 /\ Scale \in Nat
  BY ScaleAssumption DEF Prices
<1>2. \A p \in Prices : p \in Nat /\ p >= 1 /\ p <= Scale - 1
  BY ScaleAssumption DEF Prices
<1>3. CASE s = "buy"
  <2>1. \A p \in Prices : p > t \/ p = t => lv[s][p] = <<>>
    BY <1>3 DEF NoneBefore, Better
  <2>2. t = 1 => SideEmpty(lv, s)
    BY <1>2, <2>1 DEF SideEmpty
  <2>3. t # 1 => t - 1 \in Prices
    BY <1>1 DEF Prices
  <2>4. NoneBefore(lv, s, t - 1)
    <3>1. \A p \in Prices : p > t - 1 => p > t \/ p = t
      BY <1>1, <1>2
    <3> QED
      BY <1>3, <2>1, <3>1 DEF NoneBefore, Better
  <2> QED
    BY <1>3, <2>2, <2>3, <2>4
<1>4. CASE s = "sell"
  <2>1. \A p \in Prices : p < t \/ p = t => lv[s][p] = <<>>
    BY <1>4 DEF NoneBefore, Better
  <2>2. t + 1 \in 0 .. Scale
    BY <1>1
  <2>3. NoneBefore(lv, s, t + 1)
    <3>1. \A p \in Prices : p < t + 1 => p < t \/ p = t
      BY <1>1, <1>2
    <3> QED
      BY <1>4, <2>1, <3>1 DEF NoneBefore, Better
  <2>4. t + 1 \notin Prices => SideEmpty(lv, s)
    <3> SUFFICES ASSUME t + 1 \notin Prices PROVE SideEmpty(lv, s)
      OBVIOUS
    <3>1. t = Scale - 1
      BY <1>1 DEF Prices
    <3>2. \A p \in Prices : p < t \/ p = t
      BY <1>1, <1>2, <3>1
    <3> QED
      BY <2>1, <3>2 DEF SideEmpty
  <2> QED
    BY <1>4, <2>2, <2>3, <2>4
<1> QED
  BY <1>3, <1>4 DEF Sides

\* A step that moves the loop and leaves the book and the taker.
LoopMoves ==
    /\ levels' = levels /\ vol' = vol /\ best' = best /\ orders' = orders /\ now' = now
    /\ active' = active /\ taker' = taker /\ count' = count /\ status' = status
    /\ trade' = NoTrade
    /\ ghosts' = ghosts /\ missed' = missed /\ spoilt' = spoilt

LEMMA LoopMovesInv ==
    ASSUME BookInv, phase # "idle", phase' \in {"level", "maker", "done"}, LoopMoves,
           target' \in 0 .. Scale, maker' \in Ids \union {0},
           NoneBefore(levels, MakerSide, target'),
           target' \notin Prices \/ phase' = "done" => SideEmpty(levels, MakerSide),
           phase' = "maker" => /\ target' \in Prices /\ Reaches(taker, target')
                               /\ ~IsFilled(taker)
                                    => LoopAtHead(levels[MakerSide][target'], maker'),
           depth' \in [Sides -> [Prices -> Nat]],
           \A s \in Sides, p \in Prices :
             \/ depth'[s][p] = SumQty(levels[s][p])
             \/ phase' = "maker" /\ s = MakerSide /\ p = target'
             \/ missed
    PROVE  BookInv'
<1>0. BookParts
  BY PartsOfBook
<1>1. /\ levels' = levels /\ vol' = vol /\ best' = best /\ orders' = orders /\ now' = now
      /\ active' = active /\ taker' = taker /\ count' = count /\ status' = status
      /\ trade' = NoTrade /\ phase' # "idle"
      /\ ghosts' = ghosts /\ missed' = missed /\ spoilt' = spoilt
  BY DEF LoopMoves
<1>2. MakerSide' = MakerSide
  BY <1>1 DEF MakerSide
<1>3. Latest' = Latest
  BY <1>1 DEF Latest
<1>4. Structure(levels', vol', orders', Latest')
  BY <1>0, <1>1, <1>3 DEF BookParts
<1>5. Scalars'
  BY <1>0, <1>1 DEF BookParts, Scalars
<1>6. Uncrossed(levels') /\ StatusKnown'
  BY <1>0, <1>1 DEF BookParts, StatusKnown
<1>7. BestKnown'
  <2>1. \A s \in Sides : s # MakerSide' => BestRight(levels', s, best'[s])
    BY <1>0, <1>1, <1>2 DEF BookParts, BestKnown
  <2> QED
    BY <1>1, <2>1 DEF BestKnown
<1>8. DepthKnown'
  BY <1>1, <1>2 DEF DepthKnown
<1>9. Matching'
  <2>1. taker \in OrderRecord /\ taker.id = count /\ Normalized(taker)
    BY <1>0 DEF BookParts, Matching
  <2>2. /\ taker' \in OrderRecord /\ taker'.id = count' /\ Normalized(taker')
        /\ NoneBefore(levels', MakerSide', target')
        /\ target' \notin Prices \/ phase' = "done" => SideEmpty(levels', MakerSide')
    BY <1>1, <1>2, <2>1
  <2>3. phase' = "maker" => /\ target' \in Prices /\ Reaches(taker', target')
                            /\ ~IsFilled(taker')
                                 => LoopAtHead(levels'[MakerSide'][target'], maker')
    BY <1>1, <1>2
  <2> QED
    BY <2>2, <2>3 DEF Matching, Level
<1>10. BookParts'
  BY <1>1, <1>4, <1>5, <1>6, <1>7, <1>8, <1>9, StructureNext, UncrossedNext DEF BookParts
<1> QED
  BY <1>1, <1>10, BookFromPartsNext

\* What the invariant says during a match.
LEMMA MatchingFacts ==
    ASSUME BookInv, phase # "idle"
    PROVE  /\ BookParts /\ Matching /\ taker \in OrderRecord /\ taker.side \in Sides
           /\ MakerSide \in Sides /\ MakerSide # taker.side /\ Opposite(MakerSide) = taker.side
           /\ target \in 0 .. Scale /\ maker \in Ids \union {0}
           /\ depth \in [Sides -> [Prices -> Nat]]
           /\ taker.id = count /\ Latest = count - 1 /\ count \in Int
<1>1. BookParts /\ Matching
  BY PartsOfBook DEF BookInv
<1>2. taker \in OrderRecord /\ taker.id = count
  BY <1>1 DEF Matching
<1>3. taker.side \in Sides
  BY <1>2, Fields
<1>4. MakerSide \in Sides /\ MakerSide # taker.side /\ Opposite(MakerSide) = taker.side
  BY <1>3, SideFacts DEF MakerSide, Opposite, Sides
<1> QED
  BY <1>1, <1>2, <1>3, <1>4, LatestFacts DEF BookInv, BookParts, Scalars

LEMMA NextLevelInv ==
    ASSUME BookInv, phase # "idle", LoopMoves, target \in Prices, Level = <<>>, NextLevel,
           maker' \in Ids \union {0},
           depth' \in [Sides -> [Prices -> Nat]],
           \A s \in Sides, p \in Prices : missed \/ depth'[s][p] = SumQty(levels[s][p])
    PROVE  BookInv'
<1>1. MakerSide \in Sides /\ NoneBefore(levels, MakerSide, target)
  BY MatchingFacts DEF Matching
<1>2. levels[MakerSide][target] = <<>>
  BY DEF Level
<1>3. /\ MakerSide = "buy" /\ target = 1 => SideEmpty(levels, MakerSide)
      /\ MakerSide = "buy" /\ target # 1 => /\ target - 1 \in Prices
                                           /\ NoneBefore(levels, MakerSide, target - 1)
      /\ MakerSide = "sell" => /\ target + 1 \in 0 .. Scale
                               /\ NoneBefore(levels, MakerSide, target + 1)
                               /\ target + 1 \notin Prices => SideEmpty(levels, MakerSide)
  BY <1>1, <1>2, NextLevelKeeps
<1>4. Prices \subseteq 0 .. Scale
  BY ScaleAssumption DEF Prices
<1>5. /\ phase' \in {"level", "done"} /\ target' \in 0 .. Scale
      /\ NoneBefore(levels, MakerSide, target')
      /\ target' \notin Prices \/ phase' = "done" => SideEmpty(levels, MakerSide)
  <2>1. CASE MakerSide = "buy" /\ target = 1
    <3>1. phase' = "done" /\ target' = target
      BY <2>1 DEF NextLevel
    <3> QED
      BY <1>1, <1>3, <1>4, <2>1, <3>1
  <2>2. CASE MakerSide = "buy" /\ target # 1
    <3>1. phase' = "level" /\ target' = target - 1
      BY <2>2 DEF NextLevel
    <3> QED
      BY <1>3, <1>4, <2>2, <3>1
  <2>3. CASE MakerSide = "sell"
    <3>1. phase' = "level" /\ target' = target + 1
      BY <2>3 DEF NextLevel
    <3> QED
      BY <1>3, <2>3, <3>1
  <2> QED
    BY <1>1, <2>1, <2>2, <2>3 DEF Sides
<1> QED
  BY <1>5, LoopMovesInv

LEMMA DepthBetweenLevels ==
    ASSUME BookInv, phase # "maker"
    PROVE  \A s \in Sides, p \in Prices : missed \/ depth[s][p] = SumQty(levels[s][p])
BY DEF BookInv, DepthKnown

LEMMA SkipLevelInv ==
    ASSUME BookInv, SkipLevel
    PROVE  BookInv'
<1>1. /\ phase = "level" /\ target \in Prices /\ Level = <<>> /\ NextLevel
      /\ LoopMoves /\ maker' = maker /\ depth' = depth
  BY DEF SkipLevel, LoopOn, LoopMoves, sweepVars
<1>2. /\ maker' \in Ids \union {0} /\ depth' \in [Sides -> [Prices -> Nat]]
      /\ \A s \in Sides, p \in Prices : missed \/ depth'[s][p] = SumQty(levels[s][p])
  BY <1>1, MatchingFacts, DepthBetweenLevels
<1> QED
  BY <1>1, <1>2, NextLevelInv

LEMMA EnterLevelInv ==
    ASSUME BookInv, EnterLevel
    PROVE  BookInv'
<1>1. /\ phase = "level" /\ phase' = "maker" /\ LoopOn /\ Level # <<>> /\ maker' = Level[1].id
      /\ LoopMoves /\ depth' = depth /\ target' = target
  BY DEF EnterLevel, LoopMoves, sweepVars
<1>2. target \in Prices /\ Reaches(taker, target)
  BY <1>1 DEF LoopOn, Reaches
<1>3. MakerSide \in Sides /\ BookParts /\ NoneBefore(levels, MakerSide, target)
  BY <1>1, MatchingFacts DEF Matching
<1>4. Level \in Seq(OrderRecord) /\ Level = levels[MakerSide][target]
  BY <1>2, <1>3, StructureParts DEF BookParts, Level
<1>5. maker' \in Ids
  <2>1. Level[1] \in OrderRecord
    BY <1>1, <1>4, IdsOfNonEmpty
  <2> QED
    BY <1>1, <2>1, Fields
<1>6. LoopAtHead(levels[MakerSide][target'], maker')
  BY <1>1, <1>4 DEF LoopAtHead
<1>7. /\ target' \in 0 .. Scale /\ depth' \in [Sides -> [Prices -> Nat]]
      /\ \A s \in Sides, p \in Prices : missed \/ depth'[s][p] = SumQty(levels[s][p])
  BY <1>1, MatchingFacts, DepthBetweenLevels
<1> QED
  BY <1>1, <1>2, <1>3, <1>5, <1>6, <1>7, LoopMovesInv

\* Leaving a level publishes its depth.
LEMMA LeaveLevelInv ==
    ASSUME BookInv, LeaveLevel
    PROVE  BookInv'
<1>1. /\ phase = "maker" /\ (maker = 0 \/ IsFilled(taker))
      /\ depth' = [depth EXCEPT ![MakerSide][target] = vol[MakerSide][target]]
      /\ IF Level = <<>> THEN NextLevel ELSE phase' = "level" /\ target' = target
      /\ LoopMoves /\ maker' = 0
  BY DEF LeaveLevel, LoopMoves, sweepVars
<1>2. /\ MakerSide \in Sides /\ BookParts /\ Matching /\ target \in Prices
      /\ NoneBefore(levels, MakerSide, target)
  BY <1>1, MatchingFacts DEF Matching
<1>3. /\ vol[MakerSide][target] = SumQty(levels[MakerSide][target])
      /\ vol[MakerSide][target] \in Nat
  BY <1>2, StructureParts DEF BookParts
<1>4. depth \in [Sides -> [Prices -> Nat]]
  BY <1>1, MatchingFacts
<1>5. Replaced(depth, depth', Nat, MakerSide, target, vol[MakerSide][target])
  BY <1>1, <1>2, <1>3, <1>4, LevelReplaced
<1>6. /\ depth' \in [Sides -> [Prices -> Nat]]
      /\ \A s \in Sides, p \in Prices : missed \/ depth'[s][p] = SumQty(levels[s][p])
  <2>1. \A s \in Sides, p \in Prices :
          ~ (s = MakerSide /\ p = target) => missed \/ depth[s][p] = SumQty(levels[s][p])
    BY DEF BookInv, DepthKnown
  <2> QED
    BY <1>3, <1>5, <2>1 DEF Replaced
<1>7. CASE Level = <<>>
  BY <1>1, <1>2, <1>6, <1>7, NextLevelInv
<1>8. CASE Level # <<>>
  <2>1. phase' = "level" /\ target' = target
    BY <1>1, <1>8
  <2>2. target \in 0 .. Scale
    BY <1>1, MatchingFacts
  <2> QED
    BY <1>1, <1>2, <1>6, <2>1, <2>2, LoopMovesInv
<1> QED
  BY <1>7, <1>8
-----------------------------------------------------------------------------
(* The steps of a match that take makers out of the levels *)

\* The maker under the loop is the head of the level the loop is on.
LEMMA AtHead ==
    ASSUME BookInv, phase = "maker", maker # 0, ~IsFilled(taker)
    PROVE  /\ MakerSide \in Sides /\ target \in Prices /\ Reaches(taker, target)
           /\ Level = levels[MakerSide][target] /\ Level # <<>>
           /\ Level \in Seq(OrderRecord) /\ Queued(Level, MakerSide, target, Latest)
           /\ At = 1 /\ Level[1] \in OrderRecord /\ Level[1].id = maker
           /\ NextMaker \in Ids \union {0}
           /\ LoopAtHead(RemoveAt(Level, 1), NextMaker)
<1>1. /\ MakerSide \in Sides /\ target \in Prices /\ Reaches(taker, target)
      /\ LoopAtHead(Level, maker)
  BY MatchingFacts DEF Matching
<1>2. Structure(levels, vol, orders, Latest) /\ Level = levels[MakerSide][target]
  BY DEF BookInv, Level
<1>3. PICK q : q = Level
  OBVIOUS
<1>4. q \in Seq(OrderRecord) /\ Queued(q, MakerSide, target, Latest)
  BY <1>1, <1>2, <1>3, StructureParts
<1>5. q # <<>> /\ q[1].id = maker
  BY <1>1, <1>3 DEF LoopAtHead
<1>6. PICK l \in Nat \ {0} : l = Len(q) /\ DOMAIN q = 1 .. l
  BY <1>4, <1>5
<1>7. 1 \in 1 .. l /\ q[1] \in OrderRecord
  BY <1>4, <1>6
<1>8. \A i \in 1 .. l : q[i].id = maker => i = 1
  BY <1>4, <1>5, <1>6, <1>7, OnePlace
<1>9. At = 1
  <2>1. At = CHOOSE i \in 1 .. l : q[i].id = maker
    BY <1>3, <1>6 DEF At
  <2> QED
    BY <1>5, <1>7, <1>8, <2>1
<1>10. NextMaker = IF 1 < l THEN q[2].id ELSE 0
  BY <1>3, <1>6, <1>9 DEF NextMaker
<1>11. /\ RemoveAt(q, 1) \in Seq(OrderRecord) /\ Len(RemoveAt(q, 1)) = l - 1
       /\ \A i \in 1 .. l - 1 : RemoveAt(q, 1)[i] = q[i + 1]
  BY <1>4, <1>5, <1>6, RemoveHead
<1>12. CASE 1 < l
  <2>1. 2 \in 1 .. l /\ 1 \in 1 .. l - 1 /\ l - 1 # 0
    BY <1>12
  <2>2. q[2] \in OrderRecord
    BY <1>4, <1>6, <2>1
  <2>3. NextMaker \in Ids
    BY <1>10, <1>12, <2>2, Fields
  <2>4. RemoveAt(q, 1) # <<>> /\ RemoveAt(q, 1)[1] = q[2]
    <3>1. PICK r : r = RemoveAt(q, 1)
      OBVIOUS
    <3>2. r # <<>>
      BY <1>11, <2>1, <3>1
    <3>3. r[1] = q[1 + 1]
      BY <1>11, <2>1, <3>1
    <3> QED
      BY <3>1, <3>2, <3>3
  <2>5. LoopAtHead(RemoveAt(q, 1), NextMaker)
    BY <1>10, <1>12, <2>4 DEF LoopAtHead
  <2> QED
    BY <1>1, <1>2, <1>3, <1>4, <1>5, <1>7, <1>9, <2>3, <2>5
<1>13. CASE l = 1
  <2>1. NextMaker = 0
    BY <1>10, <1>13
  <2>2. RemoveAt(q, 1) = <<>>
    <3>1. PICK r : r = RemoveAt(q, 1)
      OBVIOUS
    <3>2. r \in Seq(OrderRecord) /\ Len(r) = 0
      BY <1>11, <1>13, <3>1
    <3> QED
      BY <3>1, <3>2
  <2>3. LoopAtHead(RemoveAt(q, 1), NextMaker)
    BY <2>1, <2>2 DEF LoopAtHead
  <2> QED
    BY <1>1, <1>2, <1>3, <1>4, <1>5, <1>7, <1>9, <2>1, <2>3
<1> QED
  BY <1>12, <1>13

\* A maker that is in the level is an order, ...
LEMMA MakerIsThere ==
    ASSUME BookInv, phase = "maker", MakerThere
    PROVE  maker # 0
<1>1. MakerSide \in Sides /\ target \in Prices
  BY MatchingFacts DEF Matching
<1>2. Structure(levels, vol, orders, Latest) /\ Level = levels[MakerSide][target]
  BY DEF BookInv, Level
<1>3. IdsOf(Level) \subseteq orders /\ orders \subseteq Ids
  BY <1>1, <1>2, StructureParts, StructureIds
<1> QED
  BY <1>3 DEF MakerThere, Ids

\* ... and the loop does not stand at another one.
LEMMA NotRecycled ==
    ASSUME BookInv
    PROVE  ~FillRecycled
<1> SUFFICES ASSUME FillRecycled PROVE FALSE
  OBVIOUS
<1>1. phase = "maker" /\ maker # 0 /\ ~IsFilled(taker) /\ ~MakerThere
  BY DEF FillRecycled
<1>2. Level # <<>> /\ Level \in Seq(OrderRecord) /\ Level[1].id = maker
  BY <1>1, AtHead
<1>3. Level[1].id \in IdsOf(Level)
  BY <1>2, IdsOfNonEmpty
<1> QED
  BY <1>1, <1>2, <1>3 DEF MakerThere

\* removeAndRecycleMaker takes the head off the level.
LEMMA UnlinkHead ==
    ASSUME BookInv, phase = "maker", maker # 0, ~IsFilled(taker), NEW stat \in Statuses \ Open,
           Unlink(Level[1].id, Level[1].qty, stat), missed' = missed
    PROVE  /\ Structure(levels', vol', orders', Latest)
           /\ Replaced(levels, levels', Seq(OrderRecord), MakerSide, target, RemoveAt(Level, 1))
           /\ StatusKnown' /\ status' \in [Ids -> Statuses]
           /\ IdsOf(RemoveAt(Level, 1)) \subseteq IdsOf(Level)
<1>0. BookParts
  BY PartsOfBook
<1>1. PICK s \in Sides, p \in Prices : s = MakerSide /\ p = target
  BY AtHead
<1>2. PICK q : q = Level /\ q = levels[s][p]
  BY <1>1 DEF Level
<1>3. PICK r : r = RemoveAt(q, 1)
  OBVIOUS
<1>4. /\ q # <<>> /\ q \in Seq(OrderRecord) /\ Queued(q, s, p, Latest) /\ q[1] \in OrderRecord
      /\ At = 1
  BY <1>1, <1>2, AtHead
<1>5. /\ levels' = [levels EXCEPT ![s][p] = r]
      /\ vol' = [vol EXCEPT ![s][p] = vol[s][p] - q[1].qty]
      /\ orders' = orders \ {q[1].id}
      /\ status' = [status EXCEPT ![q[1].id] = stat]
  <2>1. /\ levels' = [levels EXCEPT ![s][p] = RemoveAt(levels[s][p], At)]
        /\ vol' = [vol EXCEPT ![s][p] = vol[s][p] - Level[1].qty]
        /\ orders' = orders \ {Level[1].id}
        /\ status' = [status EXCEPT ![Level[1].id] = stat]
    BY <1>1 DEF Unlink
  <2> QED
    BY <1>2, <1>3, <1>4, <2>1
<1>6. /\ Queued(r, s, p, Latest) /\ IdsOf(r) = IdsOf(q) \ {q[1].id}
      /\ SumQty(q) = q[1].qty + SumQty(r)
  BY <1>3, <1>4, HeadRemoved
<1>7. r \in Seq(OrderRecord) /\ SumQty(r) \in Nat /\ q[1].qty \in Nat /\ vol[s][p] = SumQty(q)
  <2>1. r \in Seq(OrderRecord) /\ SumQty(r) \in Nat
    BY <1>6, SumQtyPositive DEF Queued
  <2>2. q[1].qty \in Nat
    BY <1>4, Fields
  <2>3. Structure(levels, vol, orders, Latest)
    BY <1>0 DEF BookParts
  <2>4. vol[s][p] = SumQty(levels[s][p])
    BY <2>3, StructureParts
  <2> QED
    BY <1>2, <2>1, <2>2, <2>4
<1>8. vol[s][p] - q[1].qty = SumQty(r)
  BY <1>6, <1>7
<1>9. /\ levels \in [Sides -> [Prices -> Seq(OrderRecord)]]
      /\ vol \in [Sides -> [Prices -> Nat]]
  BY DEF BookInv, BookTypeOK
<1>10. /\ Replaced(levels, levels', Seq(OrderRecord), s, p, r)
       /\ Replaced(vol, vol', Nat, s, p, SumQty(r))
  BY <1>5, <1>7, <1>8, <1>9, LevelReplaced
<1>11. q[1].id \in IdsOf(q) /\ IdsOf(q) \subseteq orders /\ IdsOf(q) \subseteq Ids
  BY <1>0, <1>2, <1>4, IdsOfNonEmpty, StructureParts DEF BookParts
<1>12. orders' = (orders \ IdsOf(levels[s][p])) \union IdsOf(r)
  BY <1>2, <1>5, <1>6, <1>11
<1>13. Structure(levels', vol', orders', Latest)
  <2>1. Latest \in Int /\ Structure(levels, vol, orders, Latest)
    BY LatestFacts DEF BookInv
  <2>2. \A id \in IdsOf(r) : id \in IdsOf(levels[s][p]) \/ id > Latest
    BY <1>2, <1>6
  <2>3. Latest <= Latest
    BY <2>1
  <2> QED
    BY <1>6, <1>10, <1>12, <2>1, <2>2, <2>3, StructureKept
<1>14. status' \in [Ids -> Statuses]
  BY <1>0, <1>5 DEF BookParts, Scalars
<1>15. \A id \in Ids : status'[id] = IF id = q[1].id THEN stat ELSE status[id]
  BY <1>0, <1>5, <1>11 DEF BookParts, Scalars
<1>16. StatusKnown'
  BY <1>0, <1>5, <1>15 DEF BookParts, StatusKnown
<1> QED
  BY <1>1, <1>2, <1>3, <1>6, <1>10, <1>13, <1>14, <1>16

\* A step that changes the level of the loop, and the taker perhaps.
LEMMA MakerStep ==
    ASSUME BookInv, phase = "maker", maker # 0, ~IsFilled(taker), phase' = "maker",
           NEW r, Replaced(levels, levels', Seq(OrderRecord), MakerSide, target, r),
           Structure(levels', vol', orders', Latest),
           best' = best, now' = now, active' = active, target' = target, count' = count,
           depth' = depth, ghosts' = ghosts, missed' = missed, spoilt' = spoilt,
           taker' \in OrderRecord, taker'.id = taker.id, taker'.side = taker.side,
           taker'.price = taker.price, Normalized(taker'),
           maker' \in Ids \union {0}, status' \in [Ids -> Statuses], StatusKnown',
           ~IsFilled(taker') => LoopAtHead(r, maker')
    PROVE  BookParts'
<1>0. BookParts /\ Matching /\ taker.id = count
  BY MatchingFacts
<1>1. MakerSide' = MakerSide /\ Latest' = Latest
  BY DEF MakerSide, Latest
<1>2. PICK s0 \in Sides, p0 \in Prices : s0 = MakerSide /\ p0 = target /\ levels[s0][p0] # <<>>
  BY AtHead
<1>3. \A s \in Sides, p \in Prices :
        levels'[s][p] = IF s = s0 /\ p = p0 THEN r ELSE levels[s][p]
  BY <1>2 DEF Replaced
<1>4. \A s \in Sides, p \in Prices : levels[s][p] = <<>> => levels'[s][p] = <<>>
  BY <1>2, <1>3
<1>5. Uncrossed(levels')
  BY <1>0, <1>4, UncrossedKept DEF BookParts
<1>6. BestKnown'
  <2>1. ASSUME NEW s \in Sides, s # MakerSide PROVE BestRight(levels', s, best'[s])
    <3>1. BestRight(levels, s, best[s])
      BY <1>0, <2>1 DEF BookParts, BestKnown
    <3>2. \A p \in Prices : levels[s][p] = <<>> <=> levels'[s][p] = <<>>
      BY <1>2, <1>3, <2>1
    <3> QED
      BY <3>1, <3>2, BestKept
  <2> QED
    BY <1>1, <2>1 DEF BestKnown
<1>7. DepthKnown'
  <2>1. \A s \in Sides, p \in Prices :
          ~ (s = s0 /\ p = p0) => missed \/ depth'[s][p] = SumQty(levels'[s][p])
    BY <1>0, <1>2, <1>3 DEF BookParts, DepthKnown
  <2> QED
    BY <1>1, <1>2, <2>1 DEF DepthKnown
<1>8. NoneBefore(levels', MakerSide, target)
  <2>1. \A p \in Prices : Better(s0, p, p0) => levels[s0][p] = <<>>
    BY <1>0, <1>2 DEF Matching, NoneBefore
  <2> QED
    BY <1>2, <1>4, <2>1 DEF NoneBefore
<1>9. Matching'
  <2>1. /\ taker' \in OrderRecord /\ taker'.id = count' /\ Normalized(taker')
        /\ NoneBefore(levels', MakerSide', target')
        /\ ~ (target' \notin Prices \/ phase' = "done")
    BY <1>0, <1>1, <1>2, <1>8
  <2>2. Reaches(taker', target')
    <3>1. Reaches(taker, target)
      BY AtHead
    <3> QED
      BY <3>1 DEF Reaches
  <2>3. ~IsFilled(taker') => LoopAtHead(levels'[MakerSide'][target'], maker')
    BY <1>1, <1>2, <1>3
  <2> QED
    BY <1>2, <2>1, <2>2, <2>3 DEF Matching, Level
<1>10. Scalars'
  BY <1>0 DEF BookParts, Scalars
<1>11. Structure(levels', vol', orders', Latest')
  BY <1>1
<1> QED
  BY <1>5, <1>6, <1>7, <1>9, <1>10, <1>11, StructureNext, UncrossedNext DEF BookParts

LEMMA DropMakerInv ==
    ASSUME BookInv, DropMaker
    PROVE  BookInv'
<1>1. phase = "maker" /\ maker # 0 /\ ~IsFilled(taker)
  BY MakerIsThere DEF DropMaker
<1>2. At = 1
  BY <1>1, AtHead
<1>3. PICK stat : stat = IF Expired(Level[1], now) THEN "expired" ELSE "canceled"
  OBVIOUS
<1>4. /\ Unlink(Level[1].id, Level[1].qty, stat)
      /\ maker' = NextMaker /\ trade' = NoTrade
      /\ best' = best /\ now' = now /\ active' = active /\ target' = target /\ count' = count
      /\ depth' = depth /\ taker' = taker /\ phase' = phase
      /\ ghosts' = ghosts /\ missed' = missed /\ spoilt' = spoilt
  BY <1>2, <1>3 DEF DropMaker, sweepVars
<1>5. stat \in Statuses \ Open
  BY <1>3 DEF Statuses, Final, Open
<1>6. /\ Structure(levels', vol', orders', Latest)
      /\ Replaced(levels, levels', Seq(OrderRecord), MakerSide, target, RemoveAt(Level, 1))
      /\ StatusKnown' /\ status' \in [Ids -> Statuses]
  BY <1>1, <1>4, <1>5, UnlinkHead
<1>7. taker \in OrderRecord /\ Normalized(taker)
  BY <1>1, MatchingFacts DEF Matching
<1>8. NextMaker \in Ids \union {0} /\ LoopAtHead(RemoveAt(Level, 1), NextMaker)
  BY <1>1, AtHead
<1>9. PICK r : r = RemoveAt(Level, 1)
  OBVIOUS
<1>10. /\ taker' \in OrderRecord /\ taker'.id = taker.id /\ taker'.side = taker.side
       /\ taker'.price = taker.price /\ Normalized(taker') /\ phase' = "maker"
  BY <1>1, <1>4, <1>7
<1>11. BookParts'
  BY <1>1, <1>4, <1>6, <1>8, <1>9, <1>10, MakerStep
<1> QED
  BY <1>4, <1>11, BookFromPartsNext
-----------------------------------------------------------------------------
(* A fill *)

\* The same as BookFromParts for a step that has emitted a fill.
LEMMA BookFromPartsFairNext == BookParts' /\ (PriceTimePriority /\ FillIsAgreed)' => BookInv'
<1>1. BookParts /\ PriceTimePriority /\ FillIsAgreed => BookInv
  BY TypeFromParts DEF BookParts, BookInv
<1> QED
  BY <1>1, PTL

LEMMA CostIsNat ==
    ASSUME NEW outcome, NEW qty \in Nat, NEW price \in Prices
    PROVE  actualUnitsForOrder(outcome, qty, price) \in Nat
<1>1. PICK e \in Prices : e = EffectivePrice(outcome, price)
  BY EffectivePriceInRange
<1>2. e \in Nat /\ Scale \in Nat \ {0}
  BY <1>1, ScaleAssumption DEF Prices
<1>3. PICK c \in Nat : c = qty * e
  BY <1>2
<1>4. (c + Scale - 1) \div Scale \in Nat
  <2>1. c + Scale - 1 \in Nat
    BY <1>2
  <2> QED
    BY <1>2, <2>1, DivBounds
<1> QED
  BY <1>1, <1>3, <1>4 DEF actualUnitsForOrder, ceilMulDiv

\* What a taker takes from a maker: at least a lot, no more than the maker has, and as much as
\* either of the two can.
LEMMA MatchQtyFacts ==
    ASSUME taker \in OrderRecord, ~IsFilled(taker), NEW qty \in Nat \ {0}, NEW p \in Prices,
           NEW q, q = MatchQty(qty, p)
    PROVE  /\ q \in Nat \ {0} /\ q <= qty
           /\ MarketBuy(taker) => SpendLeft(q, p) \in Nat /\ (q < qty => SpendLeft(q, p) = 0)
           /\ ~MarketBuy(taker) => taker.qty - q \in Nat /\ (q < qty => taker.qty - q = 0)
<1>1. taker.qty \in Nat /\ taker.spend \in Nat /\ qty \in Nat
  BY Fields
<1>2. CASE ~MarketBuy(taker)
  <2>1. PICK a \in Nat : a = taker.qty
    BY <1>1
  <2>2. a # 0
    BY <1>2, <2>1 DEF IsFilled
  <2>3. q = IF a <= qty THEN a ELSE qty
    BY <1>1, <1>2, <2>1, MinOfTwo DEF MatchQty
  <2>4. /\ q \in Nat \ {0} /\ q <= qty
        /\ a - q \in Nat /\ (q < qty => a - q = 0)
    BY <1>1, <2>2, <2>3
  <2> QED
    BY <1>2, <2>1, <2>4
<1>3. CASE MarketBuy(taker)
  <2>1. PICK a \in Nat \ {0} : a = taker.spend
    BY <1>1, <1>3 DEF IsFilled
  <2>2. PICK c \in Nat : c = actualUnitsForOrder(taker.outcome, qty, p)
    BY <1>1, CostIsNat
  <2>3. CASE a >= c
    <3>1. q = qty
      BY <1>3, <2>1, <2>2, <2>3 DEF MatchQty
    <3>2. SpendLeft(q, p) = a - c
      BY <2>1, <2>2, <3>1 DEF SpendLeft
    <3>3. a - c \in Nat /\ q <= qty /\ ~(q < qty)
      BY <1>1, <2>3, <3>1
    <3> QED
      BY <1>3, <3>1, <3>2, <3>3
  <2>4. CASE ~(a >= c)
    <3>1. q = lotsForOrderSpend(taker.outcome, a, p)
      BY <1>3, <2>1, <2>2, <2>4 DEF MatchQty
    <3>2. q \in Nat /\ q >= 1
      BY <3>1, SpendBuysALot
    <3>3. q < qty
      <4>1. a < c
        BY <2>4
      <4> QED
        BY <1>1, <2>2, <3>1, <4>1, AffordableIsFewer
    <3>4. SpendLeft(q, p) = a - a
      BY <2>1, <3>1, SpendIsExhausted DEF SpendLeft
    <3>5. q \in Nat \ {0} /\ q <= qty /\ a - a = 0 /\ a - a \in Nat
      BY <1>1, <3>2, <3>3
    <3> QED
      BY <1>3, <3>4, <3>5
  <2> QED
    BY <2>3, <2>4
<1> QED
  BY <1>2, <1>3

\* The taker after a fill: the same order, with less to trade, and nothing when the maker is not
\* exhausted.
TakerLeft(q, p) ==
    IF MarketBuy(taker) THEN [taker EXCEPT !.spend = IF q = 0 THEN 0 ELSE SpendLeft(q, p)]
    ELSE [taker EXCEPT !.qty = taker.qty - q]

LEMMA TakerAfterFill ==
    ASSUME taker \in OrderRecord, ~IsFilled(taker), NEW qty \in Nat \ {0}, NEW p \in Prices,
           NEW q, q = MatchQty(qty, p),
           NEW t, t = TakerLeft(q, p)
    PROVE  /\ t \in OrderRecord /\ t.id = taker.id /\ t.side = taker.side
           /\ t.price = taker.price /\ (Normalized(taker) => Normalized(t))
           /\ q < qty => IsFilled(t)
<1>1. /\ q \in Nat \ {0} /\ q <= qty
      /\ MarketBuy(taker) => SpendLeft(q, p) \in Nat /\ (q < qty => SpendLeft(q, p) = 0)
      /\ ~MarketBuy(taker) => taker.qty - q \in Nat /\ (q < qty => taker.qty - q = 0)
  BY MatchQtyFacts
<1>2. CASE MarketBuy(taker)
  <2>1. PICK x \in Nat : x = SpendLeft(q, p)
    BY <1>1, <1>2
  <2>2. PICK o \in OrderRecord : o = taker /\ t = [o EXCEPT !.spend = x]
    BY <1>1, <1>2, <2>1 DEF TakerLeft
  <2>9. /\ t \in OrderRecord /\ t.qty = o.qty /\ t.id = o.id /\ t.side = o.side
        /\ t.price = o.price /\ t.action = o.action /\ t.outcome = o.outcome
        /\ t.type = o.type /\ t.limit = o.limit /\ t.spend = x
    BY <2>2, SpendChanged
  <2>3. /\ t \in OrderRecord /\ t.qty = taker.qty /\ t.id = taker.id /\ t.side = taker.side
        /\ t.price = taker.price /\ t.action = taker.action /\ t.outcome = taker.outcome
        /\ t.type = taker.type /\ t.limit = taker.limit /\ t.spend = x
    BY <2>2, <2>9
  <2>4. MarketBuy(t)
    BY <1>2, <2>3 DEF MarketBuy
  <2>5. q < qty => IsFilled(t)
    BY <1>1, <1>2, <2>1, <2>3, <2>4 DEF IsFilled
  <2> QED
    BY <2>3, <2>5 DEF Normalized
<1>3. CASE ~MarketBuy(taker)
  <2>1. PICK x \in Nat : x = taker.qty - q
    BY <1>1, <1>3
  <2>2. PICK o \in OrderRecord : o = taker /\ t = [o EXCEPT !.qty = x]
    BY <1>3, <2>1 DEF TakerLeft
  <2>9. /\ t \in OrderRecord /\ t.qty = x /\ t.id = o.id /\ t.side = o.side
        /\ t.price = o.price /\ t.action = o.action /\ t.outcome = o.outcome
        /\ t.type = o.type /\ t.limit = o.limit /\ t.spend = o.spend
    BY <2>2, QtyChanged
  <2>3. /\ t \in OrderRecord /\ t.qty = x /\ t.id = taker.id /\ t.side = taker.side
        /\ t.price = taker.price /\ t.action = taker.action /\ t.outcome = taker.outcome
        /\ t.type = taker.type /\ t.limit = taker.limit /\ t.spend = taker.spend
    BY <2>2, <2>9
  <2>4. ~MarketBuy(t)
    BY <1>3, <2>3 DEF MarketBuy
  <2>5. q < qty => IsFilled(t)
    BY <1>1, <1>3, <2>1, <2>3, <2>4 DEF IsFilled
  <2> QED
    BY <2>3, <2>5 DEF Normalized
<1> QED
  BY <1>2, <1>3

\* A price an order reaches in the book is within the limit its owner signed, for NO as for YES.
LEMMA WithinLimit ==
    ASSUME NEW o \in OrderRecord, Normalized(o), NEW t \in Prices, Reaches(o, t)
    PROVE  Within(o, t)
<1>1. /\ o.action \in Sides /\ o.outcome \in {"yes", "no"} /\ o.limit \in Prices
      /\ o.side = NormalizedSide(o.action, o.outcome)
      /\ o.price = NormalizedPrice(o.outcome, o.limit)
  BY Fields DEF Normalized
<1>2. PICK act, out, l : act = o.action /\ out = o.outcome /\ l = o.limit /\ l \in Prices
  BY <1>1
<1>3. l \in Nat /\ t \in Nat /\ Scale \in Nat
  BY <1>2, ScaleAssumption DEF Prices
<1>4. /\ act = "buy" \/ act = "sell"
      /\ out = "yes" \/ out = "no"
  BY <1>1, <1>2 DEF Sides
<1>5. CASE out = "yes"
  BY <1>1, <1>2, <1>3, <1>4, <1>5
     DEF Reaches, Within, EffectivePrice, NormalizedSide, NormalizedPrice
<1>6. CASE out = "no"
  BY <1>1, <1>2, <1>3, <1>4, <1>6
     DEF Reaches, Within, EffectivePrice, NormalizedSide, NormalizedPrice, Opposite
<1> QED
  BY <1>4, <1>5, <1>6

\* The head of a level was there first.
LEMMA HeadFirst ==
    ASSUME NEW q, NEW s, NEW p, NEW n, Queued(q, s, p, n), q # <<>>,
           NEW r, Queued(r, s, p, n), IdsOf(r) \subseteq IdsOf(q)
    PROVE  \A i \in DOMAIN r : r[i].id >= q[1].id
<1>1. q \in Seq(OrderRecord) /\ r \in Seq(OrderRecord)
  BY DEF Queued
<1>2. PICK l \in Nat \ {0} : l = Len(q)
  BY <1>1
<1>3. \A j \in 1 .. l : q[j].id >= q[1].id
  <2> TAKE j \in 1 .. l
  <2>1. 1 \in 1 .. l /\ j \in 1 .. l
    BY <1>2
  <2>2. q[j] \in OrderRecord /\ q[1] \in OrderRecord
    BY <1>1, <1>2, <2>1
  <2>3. q[j].id \in Nat /\ q[1].id \in Nat
    BY <2>2, Fields
  <2>4. 1 < j => q[1].id < q[j].id
    BY <1>2, <2>1 DEF Queued
  <2>5. j = 1 \/ 1 < j
    BY <2>1
  <2> QED
    BY <2>3, <2>4, <2>5
<1>4. ASSUME NEW i \in DOMAIN r PROVE r[i].id >= q[1].id
  <2>1. r[i].id \in IdsOf(q)
    BY DEF IdsOf
  <2>2. PICK j \in 1 .. l : q[j].id = r[i].id
    BY <1>1, <1>2, <2>1, IdsOfIs
  <2> QED
    BY <1>3, <2>2
<1> QED
  BY <1>4

\* What makes a fill a fair one.
LEMMA FairFill ==
    ASSUME NEW m \in OrderRecord, NEW t \in OrderRecord, NEW p \in Prices, NEW q \in Nat \ {0},
           trade' = [maker |-> m, taker |-> t, price |-> p, qty |-> q],
           NoneBefore(levels', m.side, p),
           \A i \in DOMAIN levels'[m.side][p] : levels'[m.side][p][i].id >= m.id,
           Within(m, p), Within(t, p), m.wallet # t.wallet, ~Expired(m, now'), q <= m.qty
    PROVE  (PriceTimePriority /\ FillIsAgreed)'
<1>1. trade'.maker = m /\ trade'.taker = t /\ trade'.price = p /\ trade'.qty = q
  OBVIOUS
<1>2. PriceTimePriority'
  BY <1>1 DEF PriceTimePriority, NoneBefore
<1>3. FillIsAgreed'
  BY <1>1 DEF FillIsAgreed
<1> QED
  BY <1>2, <1>3

\* A maker that keeps a part of its lots stays the head of its level.
CutMaker(x) ==
    /\ levels' = [levels EXCEPT ![MakerSide][target] =
                     [Level EXCEPT ![1] = [Level[1] EXCEPT !.qty = Level[1].qty - x]]]
    /\ vol' = [vol EXCEPT ![MakerSide][target] = vol[MakerSide][target] - x]
    /\ status' = [status EXCEPT ![Level[1].id] = "partially_filled"]
    /\ orders' = orders

LEMMA CutHead ==
    ASSUME BookInv, phase = "maker", maker # 0, ~IsFilled(taker),
           NEW x \in Nat \ {0}, x < Level[1].qty, CutMaker(x), missed' = missed
    PROVE  /\ Structure(levels', vol', orders', Latest)
           /\ \E r : /\ Replaced(levels, levels', Seq(OrderRecord), MakerSide, target, r)
                     /\ IdsOf(r) \subseteq IdsOf(Level)
           /\ StatusKnown' /\ status' \in [Ids -> Statuses]
<1>0. BookParts
  BY PartsOfBook
<1>1. PICK s \in Sides, p \in Prices : s = MakerSide /\ p = target
  BY AtHead
<1>2. PICK q : q = Level /\ q = levels[s][p]
  BY <1>1 DEF Level
<1>3. PICK r : Cut(r, q, x)
  BY DEF Cut
<1>4. q # <<>> /\ q \in Seq(OrderRecord) /\ Queued(q, s, p, Latest) /\ q[1] \in OrderRecord
  BY <1>1, <1>2, AtHead
<1>5. /\ Queued(r, s, p, Latest) /\ IdsOf(r) = IdsOf(q)
      /\ SumQty(r) = SumQty(q) - x
  <2>1. x < q[1].qty
    BY <1>2
  <2> QED
    BY <1>3, <1>4, <2>1, HeadCut
<1>6. /\ levels' = [levels EXCEPT ![s][p] = r]
      /\ vol' = [vol EXCEPT ![s][p] = vol[s][p] - x]
      /\ status' = [status EXCEPT ![q[1].id] = "partially_filled"]
      /\ orders' = orders
  BY <1>1, <1>2, <1>3 DEF CutMaker, Cut
<1>7. Structure(levels, vol, orders, Latest) /\ Latest \in Int
  BY <1>0, LatestFacts DEF BookInv
<1>8. vol[s][p] = SumQty(q)
  <2>1. vol[s][p] = SumQty(levels[s][p])
    BY <1>7, StructureParts
  <2> QED
    BY <1>2, <2>1
<1>9. r \in Seq(OrderRecord) /\ SumQty(r) \in Nat
  BY <1>5, SumQtyPositive DEF Queued
<1>10. /\ levels \in [Sides -> [Prices -> Seq(OrderRecord)]]
       /\ vol \in [Sides -> [Prices -> Nat]]
  BY DEF BookInv, BookTypeOK
<1>11. /\ Replaced(levels, levels', Seq(OrderRecord), s, p, r)
       /\ Replaced(vol, vol', Nat, s, p, SumQty(r))
  BY <1>5, <1>6, <1>8, <1>9, <1>10, LevelReplaced
<1>12. q[1].id \in IdsOf(q) /\ IdsOf(q) \subseteq orders /\ IdsOf(q) \subseteq Ids
  BY <1>2, <1>4, <1>7, IdsOfNonEmpty, StructureParts
<1>13. orders' = (orders \ IdsOf(levels[s][p])) \union IdsOf(r)
  BY <1>2, <1>5, <1>6, <1>12
<1>14. Structure(levels', vol', orders', Latest)
  <2>1. \A id \in IdsOf(r) : id \in IdsOf(levels[s][p]) \/ id > Latest
    BY <1>2, <1>5
  <2>2. Latest <= Latest
    BY <1>7
  <2> QED
    BY <1>5, <1>7, <1>11, <1>13, <2>1, <2>2, StructureKept
<1>15. status' \in [Ids -> Statuses]
  BY <1>0, <1>6 DEF BookParts, Scalars, Statuses
<1>16. \A id \in Ids : status'[id] = IF id = q[1].id THEN "partially_filled" ELSE status[id]
  BY <1>0, <1>6, <1>12 DEF BookParts, Scalars
<1>17. StatusKnown'
  <2>1. orders' = orders
    BY <1>6
  <2>2. q[1].id \in orders
    BY <1>12
  <2> QED
    BY <1>0, <1>16, <2>1, <2>2 DEF BookParts, StatusKnown, Open
<1> QED
  BY <1>1, <1>2, <1>5, <1>11, <1>14, <1>15, <1>17

LEMMA FillMakerInv ==
    ASSUME BookInv, FillMaker
    PROVE  BookInv'
<1>1. phase = "maker" /\ maker # 0 /\ ~IsFilled(taker)
  BY MakerIsThere DEF FillMaker
<1>2. /\ MakerSide \in Sides /\ target \in Prices /\ Reaches(taker, target)
      /\ Level = levels[MakerSide][target] /\ Level # <<>>
      /\ Level \in Seq(OrderRecord) /\ Queued(Level, MakerSide, target, Latest)
      /\ At = 1 /\ Level[1] \in OrderRecord /\ Level[1].id = maker
      /\ NextMaker \in Ids \union {0}
      /\ LoopAtHead(RemoveAt(Level, 1), NextMaker)
  BY <1>1, AtHead
<1>3. PICK p \in Prices : p = target
  BY <1>2
<1>4. PICK m \in OrderRecord : m = Level[1]
  BY <1>2
<1>5. PICK x : x = MatchQty(m.qty, target)
  OBVIOUS
<1>6. /\ ~Blocked(m)
      /\ taker' = TakerLeft(x, target)
      /\ phase' = phase /\ target' = target /\ maker' = NextMaker
      /\ best' = best /\ now' = now /\ active' = active /\ count' = count /\ depth' = depth
      /\ ghosts' = ghosts /\ missed' = missed /\ spoilt' = spoilt
  BY <1>2, <1>4, <1>5 DEF FillMaker, TakerLeft, sweepVars
<1>7. m.side = MakerSide /\ m.price = target /\ Normalized(m) /\ m.qty \in Nat \ {0}
  <2>1. 1 \in 1 .. Len(Level)
    BY <1>2
  <2>2. Level[1].side = MakerSide /\ Level[1].price = target /\ Normalized(Level[1]) /\ Level[1].qty > 0
    BY <1>2, <2>1 DEF Queued
  <2>3. m.qty \in Nat
    BY Fields
  <2> QED
    BY <1>4, <2>2, <2>3
<1>8. taker \in OrderRecord /\ Normalized(taker)
  BY <1>1, MatchingFacts DEF Matching
<1>9. x \in Nat \ {0} /\ x <= m.qty
  BY <1>1, <1>2, <1>5, <1>7, <1>8, MatchQtyFacts
<1>10. /\ taker' \in OrderRecord /\ taker'.id = taker.id /\ taker'.side = taker.side
       /\ taker'.price = taker.price /\ Normalized(taker')
       /\ x < m.qty => IsFilled(taker')
  <2>1. PICK t : t = TakerLeft(x, target)
    OBVIOUS
  <2>2. /\ t \in OrderRecord /\ t.id = taker.id /\ t.side = taker.side
        /\ t.price = taker.price /\ (Normalized(taker) => Normalized(t))
        /\ x < m.qty => IsFilled(t)
    BY <1>1, <1>2, <1>5, <1>7, <1>8, <2>1, TakerAfterFill
  <2>3. taker' = t
    BY <1>6, <2>1
  <2> QED
    BY <1>8, <2>2, <2>3
<1>11. /\ Structure(levels', vol', orders', Latest)
       /\ \E r : /\ Replaced(levels, levels', Seq(OrderRecord), MakerSide, target, r)
                 /\ IdsOf(r) \subseteq IdsOf(Level)
                 /\ ~IsFilled(taker') => LoopAtHead(r, maker')
       /\ StatusKnown' /\ status' \in [Ids -> Statuses]
  <2>1. CASE m.qty = x
    <3>1. Unlink(Level[1].id, Level[1].qty, "filled")
      BY <1>2, <1>4, <1>5, <2>1 DEF FillMaker
    <3>2. "filled" \in Statuses \ Open
      BY DEF Statuses, Final, Open
    <3>3. /\ Structure(levels', vol', orders', Latest)
          /\ Replaced(levels, levels', Seq(OrderRecord), MakerSide, target, RemoveAt(Level, 1))
          /\ StatusKnown' /\ status' \in [Ids -> Statuses]
          /\ IdsOf(RemoveAt(Level, 1)) \subseteq IdsOf(Level)
      BY <1>1, <1>6, <3>1, <3>2, UnlinkHead
    <3>4. LoopAtHead(RemoveAt(Level, 1), maker')
      BY <1>2, <1>6
    <3>5. PICK r : r = RemoveAt(Level, 1)
      OBVIOUS
    <3> QED
      BY <3>3, <3>4, <3>5
  <2>2. CASE m.qty # x
    <3>2. CutMaker(x)
      BY <1>2, <1>4, <1>5, <1>9, <2>2 DEF FillMaker, CutMaker
    <3>3. x < Level[1].qty
      BY <1>4, <1>7, <1>9, <2>2
    <3>4. /\ Structure(levels', vol', orders', Latest)
          /\ \E r : /\ Replaced(levels, levels', Seq(OrderRecord), MakerSide, target, r)
                    /\ IdsOf(r) \subseteq IdsOf(Level)
          /\ StatusKnown' /\ status' \in [Ids -> Statuses]
      BY <1>1, <1>6, <1>9, <3>2, <3>3, CutHead
    <3>5. IsFilled(taker')
      BY <1>4, <1>10, <3>3
    <3> QED
      BY <3>4, <3>5
  <2> QED
    BY <2>1, <2>2
<1>12. PICK r : /\ Replaced(levels, levels', Seq(OrderRecord), MakerSide, target, r)
                /\ IdsOf(r) \subseteq IdsOf(Level)
                /\ ~IsFilled(taker') => LoopAtHead(r, maker')
  BY <1>11
<1>13. BookParts'
  <2>1. maker' \in Ids \union {0} /\ phase' = "maker"
    BY <1>1, <1>2, <1>6
  <2> QED
    BY <1>1, <1>6, <1>10, <1>11, <1>12, <2>1, MakerStep
<1>14. (PriceTimePriority /\ FillIsAgreed)'
  <2>1. PICK t, q, s : /\ t = taker /\ q = Level /\ q = levels[s][p] /\ s = MakerSide
                       /\ t \in OrderRecord /\ s \in Sides
    BY <1>2, <1>3, <1>8
  <2>2. trade' = [maker |-> m, taker |-> t, price |-> p, qty |-> x]
    BY <1>2, <1>3, <1>4, <1>5, <1>9, <2>1 DEF FillMaker
  <2>3. \A s1 \in Sides, p1 \in Prices :
          levels'[s1][p1] = IF s1 = s /\ p1 = p THEN r ELSE levels[s1][p1]
    BY <1>3, <1>12, <2>1 DEF Replaced
  <2>4. NoneBefore(levels', m.side, p)
    <3>1. NoneBefore(levels, s, p)
      BY <1>1, <1>3, <2>1, MatchingFacts DEF Matching
    <3>2. \A p1 \in Prices : Better(s, p1, p) => p1 # p
      BY DEF Better, Prices
    <3> QED
      BY <1>7, <2>1, <2>3, <3>1, <3>2 DEF NoneBefore
  <2>5. \A i \in DOMAIN levels'[m.side][p] : levels'[m.side][p][i].id >= m.id
    <3>1. levels'[s][p] = r
      BY <2>1, <2>3
    <3>2. Queued(r, s, p, Latest)
      <4>1. Queued(levels'[s][p], s, p, Latest)
        BY <1>11, <2>1, StructureParts
      <4> QED
        BY <3>1, <4>1
    <3>3. Queued(q, s, p, Latest) /\ q # <<>> /\ IdsOf(r) \subseteq IdsOf(q)
      BY <1>2, <1>3, <1>12, <2>1
    <3>4. \A i \in DOMAIN r : r[i].id >= q[1].id
      BY <3>2, <3>3, HeadFirst
    <3> QED
      BY <1>4, <1>7, <2>1, <3>1, <3>4
  <2>6. Within(m, p) /\ Within(t, p)
    <3>1. Reaches(m, p)
      <4>1. m.price = p /\ p \in Int
        BY <1>3, <1>7 DEF Prices
      <4> QED
        BY <4>1 DEF Reaches
    <3>2. Reaches(taker, target)
      BY <1>2
    <3>3. Reaches(t, p)
      BY <1>3, <2>1, <3>2
    <3>4. Normalized(t)
      BY <1>8, <2>1
    <3> QED
      BY <1>7, <2>1, <3>1, <3>3, <3>4, WithinLimit
  <2>7. m.wallet # t.wallet /\ ~Expired(m, now')
    BY <1>6, <2>1 DEF Blocked
  <2> QED
    BY <1>9, <2>1, <2>2, <2>4, <2>5, <2>6, <2>7, FairFill
<1> QED
  BY <1>13, <1>14, BookFromPartsFairNext

-----------------------------------------------------------------------------
(* The end of a match *)

\* When the loop ends with the taker unfilled, no order it could trade with is left.
LEMMA NothingToTrade ==
    ASSUME BookInv, phase = "done" \/ (phase = "level" /\ ~LoopOn), ~IsFilled(taker)
    PROVE  \A a \in Prices : levels[MakerSide][a] # <<>> =>
             IF taker.side = "buy" THEN taker.price < a ELSE a < taker.price
<1>1. Matching /\ taker \in OrderRecord /\ taker.side \in Sides /\ target \in 0 .. Scale
  BY MatchingFacts
<1>2. CASE target \notin Prices \/ phase = "done"
  BY <1>1, <1>2 DEF Matching, SideEmpty
<1>3. CASE target \in Prices /\ phase = "level"
  <2>1. PICK t \in Prices, x \in Prices : t = target /\ x = taker.price
    BY <1>1, <1>3, Fields
  <2>2. t \in Int /\ x \in Int
    BY DEF Prices
  <2>3. IF taker.side = "buy" THEN t > x ELSE t < x
    BY <1>3, <2>1, <2>2 DEF LoopOn
  <2>4. NoneBefore(levels, MakerSide, t)
    BY <1>1, <2>1 DEF Matching
  <2> SUFFICES ASSUME NEW a \in Prices, levels[MakerSide][a] # <<>>
               PROVE  IF taker.side = "buy" THEN x < a ELSE a < x
    BY <2>1
  <2>5. ~Better(MakerSide, a, t) /\ a \in Int
    BY <2>4 DEF NoneBefore, Prices
  <2>6. CASE taker.side = "buy"
    <3>1. ~ (a < t)
      BY <2>5, <2>6 DEF Better, MakerSide, Opposite
    <3> QED
      BY <2>2, <2>3, <2>5, <2>6, <3>1
  <2>7. CASE taker.side # "buy"
    <3>1. ~ (a > t)
      BY <2>5, <2>7 DEF Better, MakerSide, Opposite
    <3> QED
      BY <2>2, <2>3, <2>5, <2>7, <3>1
  <2> QED
    BY <2>6, <2>7
<1> QED
  BY <1>2, <1>3

\* An order that could not trade leaves the book uncrossed when it rests.
LEMMA UncrossedRested ==
    ASSUME NEW lv, Uncrossed(lv), NEW s0 \in Sides, NEW p0 \in Prices, NEW r, NEW lv2,
           Replaced(lv, lv2, Seq(OrderRecord), s0, p0, r),
           \A a \in Prices : lv[Opposite(s0)][a] # <<>> => IF s0 = "buy" THEN p0 < a ELSE a < p0
    PROVE  Uncrossed(lv2)
<1>1. \A s \in Sides, p \in Prices : ~ (s = s0 /\ p = p0) => lv2[s][p] = lv[s][p]
  BY DEF Replaced
<1> SUFFICES ASSUME NEW b \in Prices, NEW a \in Prices,
                    lv2["buy"][b] # <<>>, lv2["sell"][a] # <<>>
             PROVE  b < a
  BY DEF Uncrossed
<1>2. "buy" \in Sides /\ "sell" \in Sides /\ "buy" # "sell"
  BY DEF Sides
<1>3. CASE s0 = "buy"
  <2>1. lv["sell"][a] # <<>>
    BY <1>1, <1>2, <1>3
  <2>2. CASE b = p0
    BY <1>3, <2>1, <2>2, SideFacts
  <2>3. CASE b # p0
    <3>1. lv["buy"][b] # <<>>
      BY <1>1, <1>2, <2>3
    <3> QED
      BY <2>1, <3>1 DEF Uncrossed
  <2> QED
    BY <2>2, <2>3
<1>4. CASE s0 = "sell"
  <2>1. lv["buy"][b] # <<>>
    BY <1>1, <1>2, <1>4
  <2>2. CASE a = p0
    BY <1>2, <1>4, <2>1, <2>2, SideFacts
  <2>3. CASE a # p0
    <3>1. lv["sell"][a] # <<>>
      BY <1>1, <1>2, <2>3
    <3> QED
      BY <2>1, <3>1 DEF Uncrossed
  <2> QED
    BY <2>2, <2>3
<1> QED
  BY <1>3, <1>4 DEF Sides

\* What holds of the book when a command has been handled.
LEMMA BookIdle ==
    ASSUME BookInv, phase' = "idle", taker' = NoOrder, target' = 0, trade' = NoTrade,
           now' = now, active' = active, maker' = maker, count' = count,
           Structure(levels', vol', orders', count), Uncrossed(levels'),
           best' \in [Sides -> Prices \union {0}],
           \A s \in Sides : BestRight(levels', s, best'[s]),
           depth' \in [Sides -> [Prices -> Nat]],
           \A s \in Sides, p \in Prices : missed \/ depth'[s][p] = SumQty(levels'[s][p]),
           ghosts' = ghosts, missed' = missed, spoilt' = spoilt,
           status' \in [Ids -> Statuses], StatusKnown'
    PROVE  BookInv'
<1>0. BookParts
  BY PartsOfBook
<1>1. Latest' = count
  BY DEF Latest
<1>2. Scalars'
  <2>1. 0 \in 0 .. Scale
    BY ScaleAssumption
  <2> QED
    BY <1>0, <2>1 DEF BookParts, Scalars
<1>3. BestKnown' /\ DepthKnown'
  BY DEF BestKnown, DepthKnown
<1>4. Structure(levels', vol', orders', Latest')
  BY <1>1
<1>5. BookParts'
  BY <1>2, <1>3, <1>4, StructureNext, UncrossedNext DEF BookParts
<1> QED
  BY <1>5, BookFromPartsNext

\* The best prices after the loop: the side it has worked on is scanned from where it stopped.
BestsAfter ==
    [best EXCEPT ![MakerSide] = BestFrom(vol[MakerSide], MakerSide, target)]

LEMMA BestsAfterRight ==
    ASSUME BookInv, phase # "idle"
    PROVE  /\ BestsAfter \in [Sides -> Prices \union {0}]
           /\ \A s \in Sides : BestRight(levels, s, BestsAfter[s])
<1>0. BookParts /\ Matching /\ MakerSide \in Sides /\ target \in 0 .. Scale
  BY MatchingFacts
<1>1. PICK s0 \in Sides, t \in Int : s0 = MakerSide /\ t = target
  BY <1>0
<1>2. BestRight(levels, s0, BestFrom(vol[s0], s0, t))
  <2>1. NoneBefore(levels, s0, t)
    BY <1>0, <1>1 DEF Matching
  <2>2. \A p \in Prices : vol[s0][p] > 0 <=> levels[s0][p] # <<>>
    <3>1. Structure(levels, vol, orders, Latest)
      BY <1>0 DEF BookParts
    <3> QED
      BY <3>1, StructureParts
  <2>3. PICK lv, v : lv = levels /\ v = vol[s0]
    OBVIOUS
  <2>4. BestRight(lv, s0, BestFrom(v, s0, t))
    <3>1. NoneBefore(lv, s0, t) /\ \A p \in Prices : v[p] > 0 <=> lv[s0][p] # <<>>
      BY <2>1, <2>2, <2>3
    <3> QED
      BY <3>1, BestFromRight
  <2> QED
    BY <2>3, <2>4
<1>3. PICK x : x = BestFrom(vol[s0], s0, t)
  OBVIOUS
<1>4. x \in Prices \union {0}
  BY <1>2, <1>3, BestType
<1>5. best \in [Sides -> Prices \union {0}]
  BY <1>0 DEF BookParts, Scalars
<1>6. BestsAfter = [best EXCEPT ![s0] = x]
  BY <1>1, <1>3 DEF BestsAfter
<1>7. /\ BestsAfter \in [Sides -> Prices \union {0}]
      /\ \A s \in Sides : BestsAfter[s] = IF s = s0 THEN x ELSE best[s]
  BY <1>4, <1>5, <1>6
<1>8. ASSUME NEW s \in Sides PROVE BestRight(levels, s, BestsAfter[s])
  <2>1. CASE s = s0
    BY <1>2, <1>3, <1>7, <2>1
  <2>2. CASE s # s0
    <3>1. BestRight(levels, s, best[s])
      BY <1>0, <1>1, <2>2 DEF BookParts, BestKnown
    <3> QED
      BY <1>7, <2>2, <3>1
  <2> QED
    BY <2>1, <2>2
<1> QED
  BY <1>7, <1>8

\* The facts of Finish that both of its cases use.
LEMMA AtTheEnd ==
    ASSUME BookInv, Finish
    PROVE  /\ phase # "idle" /\ phase # "maker" /\ (phase = "done" \/ (phase = "level" /\ ~LoopOn))
           /\ count \in Nat \ {0} /\ count \in Ids /\ taker.id = count
           /\ Structure(levels, vol, orders, count - 1) /\ count \notin orders
           /\ phase' = "idle" /\ taker' = NoOrder /\ target' = 0 /\ trade' = NoTrade
           /\ now' = now /\ active' = active /\ maker' = maker /\ count' = count
           /\ ghosts' = ghosts /\ missed' = missed /\ spoilt' = spoilt
<1>1. phase # "idle" /\ phase # "maker" /\ (phase = "done" \/ (phase = "level" /\ ~LoopOn))
  BY DEF Finish
<1>2. taker \in OrderRecord /\ taker.id = count /\ Latest = count - 1 /\ BookParts
  BY <1>1, MatchingFacts
<1>3. count \in Nat \ {0} /\ count \in Ids
  BY <1>2, Fields
<1>4. Structure(levels, vol, orders, count - 1)
  BY <1>2 DEF BookParts
<1>5. count \notin orders
  <2>1. \A id \in orders : id <= count - 1
    BY <1>4, StructureIds
  <2>2. ~ (count <= count - 1)
    BY <1>3
  <2> QED
    BY <2>1, <2>2
<1> QED
  BY <1>1, <1>2, <1>3, <1>4, <1>5 DEF Finish, sweepVars

\* The taker is filled, or a market order with nobody left to trade with.
LEMMA GoneInv ==
    ASSUME BookInv, Finish, IsFilled(taker) \/ taker.type # "limit"
    PROVE  BookInv'
<1>0. BookParts
  BY PartsOfBook
<1>1. /\ phase # "idle" /\ phase # "maker" /\ count \in Nat \ {0} /\ count \in Ids
      /\ taker.id = count /\ Structure(levels, vol, orders, count - 1) /\ count \notin orders
      /\ phase' = "idle" /\ taker' = NoOrder /\ target' = 0 /\ trade' = NoTrade
      /\ now' = now /\ active' = active /\ maker' = maker /\ count' = count
      /\ ghosts' = ghosts /\ missed' = missed /\ spoilt' = spoilt
  BY AtTheEnd
<1>2. /\ best' = BestsAfter
      /\ levels' = levels /\ vol' = vol /\ orders' = orders /\ depth' = depth
  BY DEF Finish, BestsAfter
<1>3. PICK stat \in {"filled", "canceled"} : status' = [status EXCEPT ![count] = stat]
  BY <1>1 DEF Finish
<1>4. /\ BestsAfter \in [Sides -> Prices \union {0}]
      /\ \A s \in Sides : BestRight(levels, s, BestsAfter[s])
  BY <1>1, BestsAfterRight
<1>5. Structure(levels', vol', orders', count)
  <2>1. Structure(levels, vol, orders, count)
    <3>1. count - 1 \in Int /\ count \in Int /\ count - 1 <= count
      BY <1>1
    <3> QED
      BY <1>1, <3>1, StructureLater
  <2> QED
    BY <1>2, <2>1
<1>6. /\ \A s \in Sides, p \in Prices : missed \/ depth'[s][p] = SumQty(levels'[s][p])
      /\ depth' \in [Sides -> [Prices -> Nat]]
  BY <1>0, <1>1, <1>2, DepthBetweenLevels DEF BookParts, Scalars
<1>7. status' \in [Ids -> Statuses]
  BY <1>0, <1>3 DEF BookParts, Scalars, Statuses, Final
<1>8. StatusKnown'
  <2>1. \A id \in Ids : status'[id] = IF id = count THEN stat ELSE status[id]
    BY <1>0, <1>1, <1>3 DEF BookParts, Scalars
  <2>2. stat \notin Open
    BY DEF Open
  <2> QED
    BY <1>0, <1>1, <1>2, <2>1, <2>2 DEF BookParts, StatusKnown
<1>9. /\ Uncrossed(levels') /\ best' \in [Sides -> Prices \union {0}]
      /\ \A s \in Sides : BestRight(levels', s, best'[s])
  BY <1>0, <1>2, <1>4 DEF BookParts
<1> QED
  BY <1>1, <1>5, <1>6, <1>7, <1>8, <1>9, BookIdle

\* The order o rests in the book that has the best prices bests.
RestsAs(o, bests) == Rest(o, bests) /\ status' = [status EXCEPT ![o.id] = "new"]

LEMMA RestsInv ==
    ASSUME BookInv, Finish, ~IsFilled(taker), taker.type = "limit"
    PROVE  BookInv'
<1>0. BookParts
  BY PartsOfBook
<1>1. /\ phase # "idle" /\ phase # "maker" /\ (phase = "done" \/ (phase = "level" /\ ~LoopOn))
      /\ count \in Nat \ {0} /\ count \in Ids
      /\ taker.id = count /\ Structure(levels, vol, orders, count - 1) /\ count \notin orders
      /\ phase' = "idle" /\ taker' = NoOrder /\ target' = 0 /\ trade' = NoTrade
      /\ now' = now /\ active' = active /\ maker' = maker /\ count' = count
      /\ ghosts' = ghosts /\ missed' = missed /\ spoilt' = spoilt
  BY AtTheEnd
<1>2. RestsAs(taker, BestsAfter)
  BY DEF Finish, BestsAfter, RestsAs
<1>3. PICK o \in OrderRecord : o = taker /\ Normalized(o) /\ o.id = count
  BY <1>1, MatchingFacts DEF Matching
<1>4. PICK s \in Sides, p \in Prices : s = o.side /\ p = o.price
  BY Fields
<1>5. o.qty \in Nat /\ o.qty > 0
  <2>1. o.qty # 0
    BY <1>3 DEF IsFilled, MarketBuy
  <2> QED
    BY <2>1, Fields
<1>6. PICK q : q = levels[s][p] /\ Queued(q, s, p, count - 1)
  BY <1>1, StructureParts
<1>7. PICK r : Tailed(r, q, o)
  BY DEF Tailed
<1>8. /\ levels' = [levels EXCEPT ![s][p] = r]
      /\ vol' = [vol EXCEPT ![s][p] = vol[s][p] + o.qty]
      /\ depth' = [depth EXCEPT ![s][p] = vol[s][p] + o.qty]
      /\ orders' = orders \union {count}
      /\ status' = [status EXCEPT ![count] = "new"]
  BY <1>2, <1>3, <1>4, <1>6, <1>7 DEF RestsAs, Rest, Tailed
<1>9. Queued(r, s, p, count) /\ r # <<>> /\ IdsOf(r) = IdsOf(q) \union {count}
      /\ SumQty(r) = SumQty(q) + o.qty
  <2>1. PICK n \in Nat : n = count - 1 /\ o.id > n
    BY <1>1, <1>3
  <2>2. /\ Queued(q, s, p, n) /\ o.side = s /\ o.price = p /\ Normalized(o) /\ o.qty > 0
        /\ o.id > n
    BY <1>3, <1>4, <1>5, <1>6, <2>1
  <2>3. /\ Queued(r, s, p, o.id) /\ r # <<>> /\ IdsOf(r) = IdsOf(q) \union {o.id}
        /\ SumQty(r) = SumQty(q) + o.qty
    BY <1>7, <2>2, TailAppended
  <2> QED
    BY <1>3, <2>3
<1>10. vol[s][p] + o.qty = SumQty(r)
  <2>1. vol[s][p] = SumQty(levels[s][p])
    BY <1>1, StructureParts
  <2> QED
    BY <1>6, <1>9, <2>1
<1>11. r \in Seq(OrderRecord) /\ SumQty(r) \in Nat
  BY <1>9, SumQtyPositive DEF Queued
<1>12. /\ levels \in [Sides -> [Prices -> Seq(OrderRecord)]]
       /\ vol \in [Sides -> [Prices -> Nat]] /\ depth \in [Sides -> [Prices -> Nat]]
  BY DEF BookInv, BookTypeOK
<1>13. Replaced(levels, levels', Seq(OrderRecord), s, p, r)
  BY <1>8, <1>11, <1>12, LevelReplaced
<1>14. Replaced(vol, vol', Nat, s, p, SumQty(r))
  BY <1>8, <1>10, <1>11, <1>12, LevelReplaced
<1>15. Replaced(depth, depth', Nat, s, p, SumQty(r))
  BY <1>8, <1>10, <1>11, <1>12, LevelReplaced
<1>16. Structure(levels', vol', orders', count)
  <2>1. count - 1 \in Int /\ count \in Int /\ count - 1 <= count /\ count > count - 1
    BY <1>1
  <2>2. \A id \in IdsOf(r) : id \in IdsOf(levels[s][p]) \/ id > count - 1
    BY <1>6, <1>9, <2>1
  <2>3. IdsOf(levels[s][p]) \subseteq orders
    BY <1>1, StructureParts
  <2>4. orders' = (orders \ IdsOf(levels[s][p])) \union IdsOf(r)
    BY <1>6, <1>8, <1>9, <2>3
  <2> QED
    BY <1>1, <1>9, <1>13, <1>14, <2>1, <2>2, <2>4, StructureKept
<1>17. Uncrossed(levels')
  <2>1. \A a \in Prices : levels[MakerSide][a] # <<>> =>
          IF taker.side = "buy" THEN taker.price < a ELSE a < taker.price
    BY <1>1, NothingToTrade
  <2>2. \A a \in Prices : levels[Opposite(s)][a] # <<>> => IF s = "buy" THEN p < a ELSE a < p
    BY <1>3, <1>4, <2>1 DEF MakerSide
  <2>3. Uncrossed(levels)
    BY <1>0 DEF BookParts
  <2> QED
    BY <1>13, <2>2, <2>3, UncrossedRested
<1>18. PICK b : /\ b = BestsAfter /\ b \in [Sides -> Prices \union {0}]
                /\ \A s1 \in Sides : BestRight(levels, s1, b[s1])
  BY <1>1, BestsAfterRight
<1>19. PICK x : BestWith(x, b[s], s, p)
  BY DEF BestWith
<1>20. best' = [b EXCEPT ![s] = x]
  BY <1>2, <1>3, <1>4, <1>18, <1>19 DEF RestsAs, Rest, BestWith
<1>21. \A s1 \in Sides, p1 \in Prices :
         levels'[s1][p1] = IF s1 = s /\ p1 = p THEN r ELSE levels[s1][p1]
  BY <1>13 DEF Replaced
<1>22. BestRight(levels', s, x)
  <2>1. BestRight(levels, s, b[s])
    BY <1>18
  <2>2. levels'[s][p] # <<>> /\ \A p1 \in Prices : p1 # p => levels'[s][p1] = levels[s][p1]
    BY <1>9, <1>21
  <2>3. PICK lv, lv2, y : lv = levels /\ lv2 = levels' /\ y = b[s]
    OBVIOUS
  <2>4. BestRight(lv, s, y)
    BY <2>1, <2>3
  <2>5. lv2[s][p] # <<>> /\ \A p1 \in Prices : p1 # p => lv2[s][p1] = lv[s][p1]
    BY <2>2, <2>3
  <2>6. BestWith(x, y, s, p)
    BY <1>19, <2>3
  <2>7. BestRight(lv2, s, x)
    BY <2>4, <2>5, <2>6, BestRested
  <2> QED
    BY <2>3, <2>7
<1>23. x \in Prices \union {0}
  BY <1>22, BestType
<1>24. /\ best' \in [Sides -> Prices \union {0}]
       /\ \A s1 \in Sides : best'[s1] = IF s1 = s THEN x ELSE b[s1]
  BY <1>18, <1>20, <1>23
<1>25. ASSUME NEW s1 \in Sides PROVE BestRight(levels', s1, best'[s1])
  <2>1. CASE s1 = s
    BY <1>22, <1>24, <2>1
  <2>2. CASE s1 # s
    <3>1. BestRight(levels, s1, b[s1])
      BY <1>18
    <3>2. \A p1 \in Prices : levels[s1][p1] = <<>> <=> levels'[s1][p1] = <<>>
      BY <1>21, <2>2
    <3>3. best'[s1] = b[s1]
      BY <1>24, <2>2
    <3> QED
      BY <3>1, <3>2, <3>3, BestKept
  <2> QED
    BY <2>1, <2>2
<1>26. /\ depth' \in [Sides -> [Prices -> Nat]]
       /\ \A s1 \in Sides, p1 \in Prices : missed \/ depth'[s1][p1] = SumQty(levels'[s1][p1])
  <2>1. \A s1 \in Sides, p1 \in Prices : missed \/ depth[s1][p1] = SumQty(levels[s1][p1])
    BY <1>1, DepthBetweenLevels
  <2> QED
    BY <1>15, <1>21, <2>1 DEF Replaced
<1>27. status' \in [Ids -> Statuses]
  BY <1>0, <1>8 DEF BookParts, Scalars, Statuses
<1>28. StatusKnown'
  <2>1. \A id \in Ids : status'[id] = IF id = count THEN "new" ELSE status[id]
    BY <1>0, <1>1, <1>8 DEF BookParts, Scalars
  <2>2. orders' = orders \union {count}
    BY <1>8
  <2>3. "new" \in Open
    BY DEF Open
  <2> QED
    BY <1>0, <1>1, <2>1, <2>2, <2>3 DEF BookParts, StatusKnown
<1> QED
  BY <1>1, <1>16, <1>17, <1>24, <1>25, <1>26, <1>27, <1>28, BookIdle

LEMMA FinishInv ==
    ASSUME BookInv, Finish
    PROVE  BookInv'
BY GoneInv, RestsInv

-----------------------------------------------------------------------------
(* The theorems about the order book *)

LEMMA BookStutters ==
    ASSUME BookInv, UNCHANGED bookVars
    PROVE  BookInv'
<1>1. /\ levels' = levels /\ vol' = vol /\ best' = best /\ orders' = orders /\ now' = now
      /\ active' = active /\ taker' = taker /\ phase' = phase /\ target' = target
      /\ maker' = maker /\ count' = count /\ status' = status /\ depth' = depth
      /\ trade' = trade /\ ghosts' = ghosts /\ missed' = missed /\ spoilt' = spoilt
  BY DEF bookVars
<1>2. BookTypeOK' /\ Structure(levels, vol, orders, Latest)' /\ Uncrossed(levels)'
  BY <1>1 DEF BookInv, BookTypeOK, Structure, Uncrossed, Latest
<1>3. BestKnown' /\ DepthKnown' /\ StatusKnown'
  BY <1>1 DEF BookInv, BestKnown, DepthKnown, StatusKnown, MakerSide
<1>4. (phase # "idle" => Matching)' /\ (phase = "idle" => taker = NoOrder)'
  BY <1>1 DEF BookInv, Matching, Level, MakerSide
<1>5. (PriceTimePriority /\ FillIsAgreed)'
  BY <1>1 DEF BookInv, PriceTimePriority, FillIsAgreed
<1> QED
  BY <1>2, <1>3, <1>4, <1>5 DEF BookInv

\* A book that a sweep or a restart has not spoilt.
BookKept == ~spoilt => BookInv

\* Once spoilt, a book is not mended.
LEMMA SpoiltStays ==
    ASSUME [BookNext]_bookVars, ~spoilt'
    PROVE  ~spoilt
<1>1. ASSUME NEW t \in Times, Tick(t) PROVE ~spoilt
  <2>1. PICK told \in BOOLEAN : SweepAll(t, told)
    BY <1>1 DEF Tick
  <2>2. spoilt => spoilt'
    <3> DEFINE removed == UNION {IdsOf(levels[s][p])
                                 \ IdsOf([s1 \in Sides |-> [p1 \in Prices |->
                                           Swept(levels[s1][p1], t)]][s][p])
                                 : s \in Sides, p \in Prices}
    <3>1. spoilt' = (spoilt \/ (phase # "idle" /\ removed # {}))
      BY <2>1 DEF SweepAll
    <3> HIDE DEF removed
    <3> QED
      BY <3>1
  <2> QED
    BY <2>2
<1>2. CASE RestoreBook
  BY <1>2 DEF RestoreBook
<1>3. CASE UNCHANGED bookVars
  BY <1>3 DEF bookVars
<1>4. ASSUME NEW cmd \in Commands, NEW t \in Times, RejectOrder(cmd, t) \/ PlaceOrder(cmd, t)
      PROVE  ~spoilt
  BY <1>4 DEF RejectOrder, PlaceOrder, sweepVars
<1>5. ASSUME NEW t \in Times, Halt(t) PROVE ~spoilt
  BY <1>5 DEF Halt, sweepVars
<1>6. CASE SkipLevel \/ EnterLevel \/ LeaveLevel \/ Finish
  BY <1>6 DEF SkipLevel, EnterLevel, LeaveLevel, Finish, sweepVars
<1>7. CASE DropMaker \/ FillMaker \/ FillRecycled
  BY <1>7 DEF DropMaker, FillMaker, FillRecycled, sweepVars
<1> QED
  BY <1>1, <1>2, <1>3, <1>4, <1>5, <1>6, <1>7 DEF BookNext, MatchStep

\* The inductive invariant of the order book, as long as no sweep has removed orders beside a
\* command and no restart has brought swept orders back: at every step of a match the levels are
\* queues in order of arrival, the volumes, the Orders map and, if readers got every sweep, the
\* depth and the statuses agree with them, the match has emptied every price before the one it
\* stands at, and the loop stands at the head of its level. A sweep may come between any two
\* steps of the match (StartTickLoop).
THEOREM BookInvHolds == BookSpec => [](~spoilt => BookInv)
<1>1. BookInit => BookKept
  BY BookInitInv DEF BookKept
<1>2. BookKept /\ [BookNext]_bookVars => BookKept'
  <2> SUFFICES ASSUME BookKept, [BookNext]_bookVars, ~spoilt' PROVE BookInv'
    BY DEF BookKept
  <2>0. ~spoilt /\ BookInv
    BY SpoiltStays DEF BookKept
  <2>1. ASSUME NEW cmd \in Commands, NEW t \in Times, RejectOrder(cmd, t) PROVE BookInv'
    BY <2>0, <2>1, RejectInv
  <2>2. ASSUME NEW cmd \in Commands, NEW t \in Times, PlaceOrder(cmd, t) PROVE BookInv'
    BY <2>0, <2>2, PlaceInv
  <2>3. CASE SkipLevel
    BY <2>0, <2>3, SkipLevelInv
  <2>4. CASE EnterLevel
    BY <2>0, <2>4, EnterLevelInv
  <2>5. CASE DropMaker
    BY <2>0, <2>5, DropMakerInv
  <2>6. CASE FillMaker
    BY <2>0, <2>6, FillMakerInv
  <2>7. CASE LeaveLevel
    BY <2>0, <2>7, LeaveLevelInv
  <2>8. CASE Finish
    BY <2>0, <2>8, FinishInv
  <2>9. ASSUME NEW t \in Times, Tick(t) PROVE BookInv'
    BY <2>0, <2>9, TickInv
  <2>10. ASSUME NEW t \in Times, Halt(t) PROVE BookInv'
    BY <2>0, <2>10, HaltInv
  <2>11. CASE RestoreBook
    <3>1. ghosts = {}
      BY <2>11 DEF RestoreBook
    <3> QED
      BY <2>0, <2>11, <3>1, RestoreInv
  <2>12. CASE FillRecycled
    BY <2>0, <2>12, NotRecycled
  <2>13. CASE UNCHANGED bookVars
    BY <2>0, <2>13, BookStutters
  <2> QED
    BY <2>1, <2>2, <2>3, <2>4, <2>5, <2>6, <2>7, <2>8, <2>9, <2>10, <2>11, <2>12, <2>13
       DEF BookNext, MatchStep
<1>3. BookKept => (~spoilt => BookInv)
  BY DEF BookKept
<1> QED
  BY <1>1, <1>2, <1>3, PTL DEF BookSpec

LEMMA ConsistentFromInv ==
    ASSUME BookInv
    PROVE  BookConsistent
<1>1. Structure(levels, vol, orders, Latest)
  BY DEF BookInv
<1>2. orders = UNION {IdsOf(levels[s][p]) : s \in Sides, p \in Prices}
  BY <1>1 DEF Structure, AllIds
<1>3. ASSUME NEW s \in Sides, NEW p \in Prices
      PROVE  /\ vol[s][p] = SumQty(levels[s][p])
             /\ \A i \in DOMAIN levels[s][p] :
                  /\ levels[s][p][i].side = s /\ levels[s][p][i].price = p
                  /\ levels[s][p][i].qty > 0
                  /\ \A j \in DOMAIN levels[s][p] :
                       i < j => levels[s][p][i].id < levels[s][p][j].id
  <2>1. PICK q : q = levels[s][p]
    OBVIOUS
  <2>2. q \in Seq(OrderRecord) /\ Queued(q, s, p, Latest) /\ vol[s][p] = SumQty(q)
    BY <1>1, <2>1, StructureParts
  <2>3. DOMAIN q = 1 .. Len(q)
    BY <2>2
  <2>4. \A i \in DOMAIN q :
          /\ q[i].side = s /\ q[i].price = p /\ q[i].qty > 0
          /\ \A j \in DOMAIN q : i < j => q[i].id < q[j].id
    BY <2>2, <2>3 DEF Queued
  <2> QED
    BY <2>1, <2>2, <2>4
<1> QED
  BY <1>2, <1>3 DEF BookConsistent

LEMMA SoundFromInv ==
    ASSUME BookInv
    PROVE  BookTypeOK /\ BookConsistent /\ BestIsBest /\ NotCrossed
<1>1. BookTypeOK /\ NotCrossed
  BY DEF BookInv, Uncrossed, NotCrossed
<1>2. BestIsBest
  <2> SUFFICES ASSUME phase = "idle", NEW s \in Sides
               PROVE  LET used == {p \in Prices : levels[s][p] # <<>>}
                      IN  /\ best[s] = 0 <=> used = {}
                          /\ best[s] # 0 => /\ best[s] \in used
                                            /\ \A p \in used : IF s = "buy" THEN p <= best[s]
                                                                 ELSE p >= best[s]
    BY DEF BestIsBest
  <2>1. BestRight(levels, s, best[s])
    BY DEF BookInv, BestKnown
  <2>2. PICK b : b = best[s]
    OBVIOUS
  <2>3. /\ b = 0 <=> {p \in Prices : levels[s][p] # <<>>} = {}
        /\ b # 0 => b \in {p \in Prices : levels[s][p] # <<>>}
    BY <2>1, <2>2 DEF BestRight
  <2>4. ASSUME b # 0, NEW p \in Prices, levels[s][p] # <<>>
        PROVE  IF s = "buy" THEN p <= b ELSE p >= b
    <3>1. ~Better(s, p, b) /\ b \in Prices
      BY <2>1, <2>2, <2>4 DEF BestRight
    <3>2. p \in Int /\ b \in Int
      BY <3>1 DEF Prices
    <3> QED
      BY <3>1, <3>2 DEF Better, Sides
  <2> QED
    BY <2>2, <2>3, <2>4
<1> QED
  BY <1>1, <1>2, ConsistentFromInv

\* As long as the book is not spoilt, its structures agree at every step of a match, and between
\* commands the cached best prices are right and the book is not crossed, whatever the orders,
\* the expiries, the self-trades, the halts and the restarts, and with ticks between any two steps.
THEOREM BookSoundHolds == FairBookSpec => []BookSound
<1>1. (~spoilt => BookInv) => BookSound
  BY SoundFromInv DEF BookSound
<1> QED
  BY <1>1, BookInvHolds, PTL DEF FairBookSpec

\* Every fill of a book that is not spoilt keeps price and time priority and is within what its
\* two owners signed, also when a tick has changed the time during the match.
THEOREM FillsFairHolds == FairBookSpec => []FillsFair
<1>1. (~spoilt => BookInv) => FillsFair
  BY DEF BookInv, FillsFair
<1> QED
  BY <1>1, BookInvHolds, PTL DEF FairBookSpec

\* Between commands the depth and the statuses published are those of the book, if it is not
\* spoilt and readers got the updates of every sweep.
THEOREM BookPublishedHolds == FairBookSpec => []BookPublished
<1>1. (~spoilt => BookInv) => BookPublished
  BY DEF BookInv, DepthKnown, StatusKnown, Open, BookPublished, DepthPublished, StatusAgrees
<1> QED
  BY <1>1, BookInvHolds, PTL DEF FairBookSpec

\* A restart from the stored open orders rebuilds the book it found, if the book is not spoilt
\* and the table has no order open that a sweep took out of the book.
THEOREM RestartKeepsBookHolds == FairBookSpec => RestartKeepsBook
<1>1. (~spoilt => BookInv) /\ [BookNext]_bookVars
        => [RestoreBook /\ ~spoilt /\ ghosts = {}
              => UNCHANGED <<levels, vol, best, orders>>]_bookVars
  BY RestoreSame
<1> QED
  BY <1>1, BookInvHolds, PTL DEF FairBookSpec, BookSpec, RestartKeepsBook

-----------------------------------------------------------------------------
(* The actor of a market: the inductive invariant *)

Kinds == {"delta", "exec", "released"}
Entry == [kind : Kinds, cmds : SUBSET Cmds]
Batch(kind) == [kind |-> kind, cmds |-> pending]
InLog(e) == \E i \in DOMAIN log : log[i] = e

\* What a process has applied it will not apply again: Seen covers it.
AppliedIsSeen == \A c \in Cmds : applied[c] > 0 => Seen(c)

\* How far flushActorBatch has come with the pending batch.
FlushShaped ==
    /\ pc # "idle" => pending # {}
    /\ pc \in {"exec", "released", "done"} => InLog(Batch("delta"))
    /\ pc \in {"released", "done"} /\ pending \intersect Taking # {} => InLog(Batch("exec"))

\* A sequence number the checkpoint loop may save: published, and behind the process.
Safe(n) == n <= lps /\ (n # 0 => n \in Published("delta"))

\* Everything between stageCheckpoint and completeCheckpoint.
CheckpointShaped ==
    /\ Safe(staged) /\ Safe(snap) /\ Safe(cursor)
    /\ flushed <= cursor
    /\ saved => snap # 0 /\ snap <= cursor
    /\ acks \subseteq Published("delta")

ActorInv ==
    /\ TypeOK /\ AppliedOnce /\ AppliedIsSeen /\ AppliedIsPublished
    /\ FlushShaped /\ CheckpointShaped /\ SettledIsDurable

-----------------------------------------------------------------------------
(* Naturals *)

\* A set of naturals has a least element, ...
LEMMA LeastNatural ==
  ASSUME NEW S \in SUBSET Nat, S # {}
  PROVE  \E n \in S : \A m \in S : n <= m
<1>1. \E n \in S : \A m \in S : ~(<<m, n>> \in OpToRel(<, Nat))
  BY NatLessThanWellFounded, WFMin
<1>2. PICK n \in S : \A m \in S : ~(<<m, n>> \in OpToRel(<, Nat))
  BY <1>1
<1>3. \A m \in S : <<m, n>> \in OpToRel(<, Nat) <=> m < n
  BY DEF OpToRel
<1>4. \A m \in S : ~(m < n)
  BY <1>2, <1>3
<1> QED
  BY <1>4

\* ... the one Min names, ...
LEMMA MinOf ==
  ASSUME NEW S \in SUBSET Nat, S # {}
  PROVE  Min(S) \in S
BY LeastNatural DEF Min

\* ... and a bounded one has a greatest, the one Max names.
LEMMA MaxOf ==
  ASSUME NEW S \in SUBSET Nat, S # {}, NEW n \in Nat, \A m \in S : m <= n
  PROVE  Max(S) \in S /\ \A m \in S : m <= Max(S)
<1> DEFINE U == {k \in Nat : \A m \in S : m <= k}
<1>1. PICK k \in U : \A j \in U : k <= j
  BY LeastNatural
<1>2. k \in S
  <2> SUFFICES ASSUME k \notin S PROVE FALSE
    OBVIOUS
  <2>1. PICK m \in S : TRUE
    OBVIOUS
  <2>2. k - 1 \in U
    OBVIOUS
  <2> QED
    BY <1>1, <2>2
<1> QED
  BY <1>1, <1>2 DEF Max

-----------------------------------------------------------------------------
(* The log *)

\* What TypeOK says of the sequences and the commands.
LEMMA Typed ==
  ASSUME TypeOK
  PROVE  /\ log \in Seq(Entry) /\ chan \in Seq(Cmds) /\ applied \in [Cmds -> Nat]
         /\ DOMAIN log = 1 .. Len(log) /\ Len(log) \in Nat
         /\ \A i \in DOMAIN log : log[i] \in Entry
         /\ Cmds \subseteq Nat /\ MaxCmds \in Nat /\ \A c \in Cmds : c # 0 /\ c <= MaxCmds
<1>1. /\ log \in Seq(Entry) /\ chan \in Seq(Cmds) /\ applied \in [Cmds -> Nat]
  BY DEF TypeOK, Entry, Kinds
<1>2. DOMAIN log = 1 .. Len(log) /\ Len(log) \in Nat /\ \A i \in DOMAIN log : log[i] \in Entry
  BY <1>1
<1>3. Cmds \subseteq Nat /\ MaxCmds \in Nat /\ \A c \in Cmds : c # 0 /\ c <= MaxCmds
  BY ActorAssumption DEF Cmds
<1> QED
  BY <1>1, <1>2, <1>3

\* An entry stays where it is.
LogGrows ==
    /\ log' \in Seq(Entry) /\ Len(log') >= Len(log)
    /\ \A i \in DOMAIN log : i \in DOMAIN log' /\ log'[i] = log[i]

\* The stream only grows: when it stays, ...
LEMMA SameLog ==
  ASSUME TypeOK, log' = log
  PROVE  LogGrows
BY Typed DEF LogGrows

\* ... and when an entry is stored, which is in it then.
LEMMA StoredDoes ==
  ASSUME TypeOK, NEW e \in Entry, log' = Stored(e)
  PROVE  LogGrows /\ \E i \in DOMAIN log' : log'[i] = e
<1>1. CASE \E i \in DOMAIN log : log[i] = e
  BY <1>1, SameLog DEF Stored
<1>2. CASE ~\E i \in DOMAIN log : log[i] = e
  <2>1. log' = Append(log, e) /\ log \in Seq(Entry)
    BY <1>2, Typed DEF Stored
  <2>2. /\ log' \in Seq(Entry) /\ Len(log') = Len(log) + 1
        /\ \A i \in 1 .. Len(log) : log'[i] = log[i]
        /\ log'[Len(log) + 1] = e
    BY <2>1
  <2> QED
    BY <2>1, <2>2 DEF LogGrows
<1> QED
  BY <1>1, <1>2

\* A command is published when some entry of its kind carries it.
LEMMA PublishedIs ==
  ASSUME NEW kind, NEW c
  PROVE  c \in Published(kind) <=> \E i \in DOMAIN log : log[i].kind = kind /\ c \in log[i].cmds
BY DEF Published

\* What is published stays published.
LEMMA PublishedGrows ==
  ASSUME LogGrows, NEW kind
  PROVE  Published(kind) \subseteq Published(kind)'
BY DEF LogGrows, Published

\* What is in the stream stays there.
LEMMA InLogGrows ==
  ASSUME LogGrows, NEW kind, pending' = pending, InLog(Batch(kind))
  PROVE  InLog(Batch(kind))'
BY DEF LogGrows, InLog, Batch

\* A batch in the stream publishes its commands.
LEMMA InLogIsPublished ==
  ASSUME NEW kind, InLog(Batch(kind))
  PROVE  pending \subseteq Published(kind)
BY DEF InLog, Batch, Published

\* The pending batch is an entry.
LEMMA BatchType ==
  ASSUME TypeOK, NEW kind \in Kinds
  PROVE  Batch(kind) \in Entry
BY DEF TypeOK, Batch, Entry

\* A batch that is stored is in the log.
LEMMA StoredBatch ==
  ASSUME TypeOK, NEW kind \in Kinds, log' = Stored(Batch(kind)), pending' = pending
  PROVE  LogGrows /\ InLog(Batch(kind))'
<1>1. Batch(kind) \in Entry /\ Batch(kind)' = Batch(kind)
  BY BatchType DEF Batch
<1>2. LogGrows /\ \E i \in DOMAIN log' : log'[i] = Batch(kind)
  BY <1>1, StoredDoes
<1> QED
  BY <1>1, <1>2 DEF InLog

-----------------------------------------------------------------------------
(* Steps that leave the process's claims alone *)

\* The part of the invariant that is about more than types.
Claims == /\ AppliedOnce /\ AppliedIsSeen /\ AppliedIsPublished /\ FlushShaped
          /\ CheckpointShaped /\ SettledIsDurable

\* A stream that grows takes nothing away from what the actor and the checkpoint loop rely on.
LEMMA ClaimsKept ==
  ASSUME ActorInv, LogGrows, UNCHANGED <<applied, pending, pc, lps, checkpointVars>>
  PROVE  Claims'
<1> USE DEF ActorInv
<1>1. UNCHANGED <<staged, acks, flushed, snap, saved, cursor, settled>>
  BY DEF checkpointVars
<1>2. \A kind : Published(kind) \subseteq Published(kind)'
  BY PublishedGrows
<1>3. AppliedOnce' /\ AppliedIsSeen'
  BY DEF AppliedOnce, AppliedIsSeen, Seen
<1>4. AppliedIsPublished' /\ SettledIsDurable'
  BY <1>1, <1>2 DEF AppliedIsPublished, SettledIsDurable
<1>5. FlushShaped'
  BY InLogGrows DEF FlushShaped
<1>6. CheckpointShaped'
  BY <1>1, <1>2 DEF CheckpointShaped, Safe
<1> QED
  BY <1>3, <1>4, <1>5, <1>6 DEF Claims

LEMMA QuietKeeps ==
  ASSUME ActorInv, TypeOK', UNCHANGED <<log, applied, pending, pc, lps, checkpointVars>>
  PROVE  ActorInv'
BY ClaimsKept, SameLog DEF ActorInv, Claims

-----------------------------------------------------------------------------
(* The stream and the consumer *)

LEMMA ReserveKeeps ==
  ASSUME ActorInv, Reserve
  PROVE  ActorInv'
<1>1. sent' \in 0 .. MaxCmds
  BY ActorAssumption DEF ActorInv, Reserve, TypeOK
<1>2. TypeOK'
  BY <1>1 DEF ActorInv, Reserve, TypeOK, actorVars, checkpointVars, writerVars
<1> QED
  BY <1>2, QuietKeeps DEF Reserve, actorVars

LEMMA DeliverKeeps ==
  ASSUME ActorInv, NEW c \in Cmds, Deliver(c) \/ AckWaitExpires(c)
  PROVE  ActorInv'
<1> USE DEF ActorInv
<1>1. UNCHANGED <<sent, acked, actorVars, log, checkpointVars, writerVars, faults, crashes>>
  BY DEF Deliver, AckWaitExpires
<1>2. redo' \subseteq Cmds /\ unacked' \subseteq Cmds /\ next' \in 1 .. MaxCmds + 1
  <2>1. c + 1 \in 1 .. MaxCmds + 1
    BY ActorAssumption DEF Cmds
  <2> QED
    BY <2>1 DEF Deliver, AckWaitExpires, TypeOK, Larger
<1>3. chan' \in Seq(Cmds) /\ Len(chan') <= ChanCap
  <2>1. CASE chan' = chan
    BY <2>1 DEF TypeOK
  <2>2. CASE chan' = Append(chan, c) /\ Len(chan) < ChanCap
    BY <2>2, ActorAssumption DEF TypeOK
  <2> QED
    BY <2>1, <2>2 DEF Deliver, AckWaitExpires
<1>4. TypeOK'
  BY <1>1, <1>2, <1>3 DEF TypeOK, actorVars, checkpointVars, writerVars
<1> QED
  BY <1>1, <1>4, QuietKeeps DEF actorVars

LEMMA ReceiveSeenKeeps ==
  ASSUME ActorInv, ReceiveSeen
  PROVE  ActorInv'
<1> USE DEF ActorInv
<1>1. UNCHANGED <<actorVars, log, checkpointVars, writerVars, faults, crashes, sent, next>>
  BY DEF ReceiveSeen, Ack
<1>2. chan' \in Seq(Cmds) /\ Len(chan') <= ChanCap /\ Head(chan) \in Cmds
  BY ActorAssumption DEF ReceiveSeen, TypeOK
<1>3. redo' \subseteq Cmds /\ unacked' \subseteq Cmds /\ acked' \subseteq Cmds
  BY <1>2 DEF ReceiveSeen, Ack, TypeOK
<1>4. TypeOK'
  BY <1>1, <1>2, <1>3 DEF TypeOK, actorVars, checkpointVars, writerVars
<1> QED
  BY <1>1, <1>4, QuietKeeps DEF actorVars

-----------------------------------------------------------------------------
(* The actor *)

LEMMA ReceiveKeeps ==
  ASSUME ActorInv, Receive
  PROVE  ActorInv'
<1> USE DEF ActorInv
<1> DEFINE c == Head(chan)
<1>1. /\ UNCHANGED <<streamVars, pc, lps, log, checkpointVars, writerVars, faults, crashes>>
      /\ pc = "idle" /\ ~Seen(c) /\ chan' = Tail(chan) /\ pending' = pending \union {c}
      /\ applied' = [applied EXCEPT ![c] = @ + 1] /\ book' = book \union ({c} \intersect Resting)
  BY DEF Receive, includeWrapper
<1>2. chan' \in Seq(Cmds) /\ Len(chan') <= ChanCap /\ c \in Cmds
  BY ActorAssumption DEF Receive, TypeOK
<1> HIDE DEF c
<1>3. applied[c] = 0
  BY <1>1, <1>2, Typed DEF AppliedIsSeen
<1>4. /\ applied' \in [Cmds -> Nat] /\ applied'[c] = 1
      /\ \A d \in Cmds : d # c => applied'[d] = applied[d]
  BY <1>1, <1>2, <1>3, Typed
<1>5. TypeOK'
  BY <1>1, <1>2, <1>4 DEF TypeOK, streamVars, checkpointVars, writerVars
<1>6. AppliedOnce' /\ AppliedIsSeen'
  BY <1>1, <1>2, <1>4 DEF AppliedOnce, AppliedIsSeen, Seen
<1>7. AppliedIsPublished' /\ FlushShaped'
  BY <1>1, <1>2, <1>4 DEF AppliedIsPublished, FlushShaped, Published
<1>8. CheckpointShaped' /\ SettledIsDurable'
  BY <1>1 DEF CheckpointShaped, Safe, SettledIsDurable, Published, checkpointVars
<1> QED
  BY <1>5, <1>6, <1>7, <1>8

\* A publish of the pending batch: the log grows by at most its entry, and pc moves on.
LEMMA FlushStepKeeps ==
  ASSUME ActorInv, LogGrows, pc # "idle",
         UNCHANGED <<streamVars, chan, book, applied, pending, lps, checkpointVars, writerVars, crashes>>,
         pc' \in {"idle", "delta", "exec", "released", "done"}, faults' \in 0 .. MaxFaults,
         FlushShaped'
  PROVE  ActorInv'
<1> USE DEF ActorInv
<1>1. UNCHANGED <<staged, acks, flushed, snap, saved, cursor, settled>>
  BY DEF checkpointVars
<1>2. TypeOK'
  <2>1. wseen' \subseteq DOMAIN log' /\ wlast' \in 0 .. Len(log')
    <3>1. wseen \subseteq DOMAIN log /\ wlast \in 0 .. Len(log) /\ Len(log) \in Nat /\ Len(log') \in Nat
      BY Typed DEF TypeOK, LogGrows
    <3> QED
      BY <3>1 DEF LogGrows, writerVars
  <2>2. log' \in Seq([kind : {"delta", "exec", "released"}, cmds : SUBSET Cmds])
    BY DEF LogGrows, Entry, Kinds
  <2> QED
    BY <1>1, <2>1, <2>2 DEF TypeOK, streamVars, writerVars
<1>3. \A kind : Published(kind) \subseteq Published(kind)'
  BY PublishedGrows
<1>4. AppliedOnce' /\ AppliedIsSeen' /\ AppliedIsPublished'
  BY <1>3 DEF AppliedOnce, AppliedIsSeen, AppliedIsPublished, Seen
<1>5. CheckpointShaped' /\ SettledIsDurable'
  BY <1>1, <1>3 DEF CheckpointShaped, Safe, SettledIsDurable
<1> QED
  BY <1>2, <1>4, <1>5

LEMMA BeginFlushKeeps ==
  ASSUME ActorInv, BeginFlush
  PROVE  ActorInv'
<1> USE DEF ActorInv
<1>1. /\ UNCHANGED <<streamVars, chan, book, applied, pending, lps, log, checkpointVars, writerVars,
                     faults, crashes>>
      /\ pc' = "delta" /\ pending # {}
  BY DEF BeginFlush, shouldFlush
<1>2. TypeOK'
  BY <1>1 DEF TypeOK, streamVars, checkpointVars, writerVars
<1>3. FlushShaped'
  BY <1>1 DEF FlushShaped
<1>4. /\ AppliedOnce' /\ AppliedIsSeen' /\ AppliedIsPublished' /\ CheckpointShaped' /\ SettledIsDurable'
  BY <1>1 DEF AppliedOnce, AppliedIsSeen, AppliedIsPublished, CheckpointShaped, SettledIsDurable, Seen,
     Safe, Published, checkpointVars
<1> QED
  BY <1>2, <1>3, <1>4

LEMMA PublishKeeps ==
  ASSUME ActorInv, Publish \/ PublishFails \/ ReleaseFails
  PROVE  ActorInv'
<1> USE DEF ActorInv
<1>1. faults \in Nat /\ MaxFaults \in Nat /\ faults <= MaxFaults /\ faults \in 0 .. MaxFaults
  BY ActorAssumption DEF TypeOK
<1>2. \A kind \in Kinds : Batch(kind) \in Entry
  BY BatchType
<1>3. pc # "idle" => pending # {}
  BY DEF FlushShaped
<1>4. CASE PublishDelta
  <2>1. /\ UNCHANGED <<streamVars, chan, book, applied, pending, lps, checkpointVars, writerVars, faults, crashes>>
        /\ pc = "delta" /\ log' = Stored(Batch("delta"))
        /\ pc' \in {"exec", "released", "done"}
        /\ pc' # "exec" => pending \intersect Taking = {}
    BY <1>4 DEF PublishDelta, Batch, Release
  <2>2. LogGrows /\ InLog(Batch("delta"))'
    BY <2>1, StoredBatch DEF Kinds
  <2>3. FlushShaped'
    BY <1>3, <2>1, <2>2 DEF FlushShaped
  <2> QED
    BY <1>1, <2>1, <2>2, <2>3, FlushStepKeeps
<1>5. CASE PublishExec
  <2>1. /\ UNCHANGED <<streamVars, chan, book, applied, pending, lps, checkpointVars, writerVars, faults, crashes>>
        /\ pc = "exec" /\ log' = Stored(Batch("exec")) /\ pc' \in {"released", "done"}
    BY <1>5 DEF PublishExec, Batch, Release
  <2>2. LogGrows /\ InLog(Batch("exec"))'
    BY <2>1, StoredBatch DEF Kinds
  <2>3. InLog(Batch("delta"))'
    BY <2>1, <2>2, InLogGrows DEF FlushShaped
  <2>4. FlushShaped'
    BY <1>3, <2>1, <2>2, <2>3 DEF FlushShaped
  <2> QED
    BY <1>1, <2>1, <2>2, <2>4, FlushStepKeeps
<1>6. CASE PublishReleased \/ ReleaseFails
  <2>1. /\ UNCHANGED <<streamVars, chan, book, applied, pending, lps, checkpointVars, writerVars, crashes>>
        /\ pc = "released" /\ pc' = "done" /\ (log' = Stored(Batch("released")) \/ log' = log)
        /\ faults' = faults \/ (faults < MaxFaults /\ faults' = faults + 1)
    BY <1>6 DEF PublishReleased, ReleaseFails, Batch
  <2>2. LogGrows
    BY <2>1, StoredBatch, SameLog DEF Kinds
  <2>3. FlushShaped'
    BY <1>3, <2>1, <2>2, InLogGrows DEF FlushShaped
  <2>4. faults' \in 0 .. MaxFaults
    BY <1>1, <2>1
  <2> QED
    BY <2>1, <2>2, <2>3, <2>4, FlushStepKeeps
<1>7. CASE PublishFails
  <2>1. /\ UNCHANGED <<streamVars, chan, book, applied, pending, lps, checkpointVars, writerVars, crashes>>
        /\ pc \in {"delta", "exec"} /\ pc' = "idle" /\ (log' = Stored(Batch(pc)) \/ log' = log)
        /\ faults < MaxFaults /\ faults' = faults + 1
    BY <1>7 DEF PublishFails, Batch
  <2>2. LogGrows
    BY <1>2, <2>1, StoredDoes, SameLog DEF Kinds
  <2>3. FlushShaped'
    BY <2>1 DEF FlushShaped
  <2>4. faults' \in 0 .. MaxFaults
    BY <1>1, <2>1
  <2> QED
    BY <2>1, <2>2, <2>3, <2>4, FlushStepKeeps
<1> QED
  BY <1>4, <1>5, <1>6, <1>7 DEF Publish

LEMMA EndFlushKeeps ==
  ASSUME ActorInv, EndFlush
  PROVE  ActorInv'
<1> USE DEF ActorInv
<1> DEFINE m == Max(pending)
<1>1. /\ UNCHANGED <<streamVars, chan, book, applied, log, flushed, snap, saved, cursor, settled,
                     writerVars, faults, crashes>>
      /\ pc = "done" /\ lps' = Larger(lps, m) /\ staged' = Larger(staged, m)
      /\ acks' = acks \union pending /\ pending' = {} /\ pc' = "idle"
  BY DEF EndFlush
<1>2. pending # {} /\ InLog(Batch("delta")) /\ (pending \intersect Taking # {} => InLog(Batch("exec")))
  BY <1>1 DEF FlushShaped
<1>3. /\ pending \subseteq Published("delta")
      /\ pending \intersect Taking \subseteq Published("exec")
  BY <1>2, InLogIsPublished
<1>4. m \in pending /\ \A c \in pending : c <= m
  <2>1. pending \in SUBSET Nat /\ \A c \in pending : c <= MaxCmds
    BY Typed DEF TypeOK
  <2> QED
    BY <1>2, <2>1, MaxOf, ActorAssumption
<1> HIDE DEF m
<1>5. m \in Cmds /\ m \in 0 .. MaxCmds /\ m \in Nat
  <2>1. m \in Cmds
    BY <1>4 DEF TypeOK
  <2> QED
    BY <2>1, Typed
<1>6. lps \in Nat /\ staged \in Nat /\ snap \in Nat /\ cursor \in Nat /\ lps \in 0 .. MaxCmds /\ staged \in 0 .. MaxCmds
  BY ActorAssumption DEF TypeOK
<1>7. /\ lps' \in 0 .. MaxCmds /\ lps' >= lps /\ lps' >= m
      /\ staged' \in 0 .. MaxCmds /\ (staged' = staged \/ staged' = m)
  BY <1>1, <1>5, <1>6 DEF Larger
<1>8. TypeOK'
  BY <1>1, <1>7 DEF TypeOK, streamVars, writerVars
<1>9. \A kind : Published(kind)' = Published(kind)
  BY <1>1 DEF Published
<1>10. AppliedOnce' /\ AppliedIsPublished'
  BY <1>1, <1>3, <1>9 DEF AppliedOnce, AppliedIsPublished
<1>11. AppliedIsSeen'
  <2> SUFFICES ASSUME NEW c \in Cmds, applied[c] > 0
               PROVE  c <= lps'
    BY <1>1 DEF AppliedIsSeen, Seen
  <2>1. c <= lps \/ c <= m
    BY <1>4 DEF AppliedIsSeen, Seen
  <2>2. c \in Nat /\ lps' \in Nat
    BY <1>7, Typed
  <2> QED
    BY <1>5, <1>6, <1>7, <2>1, <2>2
<1>12. FlushShaped' /\ SettledIsDurable'
  BY <1>1, <1>9 DEF FlushShaped, SettledIsDurable
<1>13. CheckpointShaped'
  <2>1. lps' \in Nat /\ staged' \in Nat
    BY <1>7
  <2>2. \A n \in Nat : Safe(n) => n <= lps' /\ (n # 0 => n \in Published("delta")')
    BY <1>6, <1>7, <1>9, <2>1 DEF Safe
  <2>3. Safe(staged)'
    BY <1>3, <1>4, <1>6, <1>7, <1>9, <2>2 DEF Safe, CheckpointShaped
  <2>4. Safe(snap)' /\ Safe(cursor)'
    BY <1>1, <1>6, <2>2 DEF Safe, CheckpointShaped
  <2>5. acks' \subseteq Published("delta")'
    BY <1>1, <1>3, <1>9 DEF CheckpointShaped
  <2> QED
    BY <1>1, <2>3, <2>4, <2>5 DEF CheckpointShaped
<1> QED
  BY <1>8, <1>10, <1>11, <1>12, <1>13

-----------------------------------------------------------------------------
(* The checkpoint loop *)

\* The types of the checkpoint.
LEMMA CheckpointTypes ==
  ASSUME TypeOK
  PROVE  /\ lps \in Nat /\ staged \in Nat /\ snap \in Nat /\ cursor \in Nat /\ flushed \in Nat
         /\ snap \in 0 .. MaxCmds /\ cursor \in 0 .. MaxCmds /\ flushed \in 0 .. MaxCmds
         /\ staged \in 0 .. MaxCmds /\ faults \in 0 .. MaxFaults /\ saved \in BOOLEAN
         /\ acks \subseteq Cmds /\ acked \subseteq Cmds /\ settled \subseteq Cmds
<1>1. /\ lps \in 0 .. MaxCmds /\ snap \in 0 .. MaxCmds /\ cursor \in 0 .. MaxCmds
      /\ flushed \in 0 .. MaxCmds /\ staged \in 0 .. MaxCmds /\ faults \in 0 .. MaxFaults
      /\ acks \subseteq Cmds /\ acked \subseteq Cmds /\ settled \subseteq Cmds
  BY Zenon DEF TypeOK
<1>2. saved \in BOOLEAN
  BY DEF TypeOK
<1> QED
  BY <1>1, <1>2, ActorAssumption

\* What a step of the checkpoint loop or the writer leaves alone.
LEMMA ActorUntouched ==
  ASSUME ActorInv, UNCHANGED <<actorVars, log>>
  PROVE  /\ AppliedOnce' /\ AppliedIsSeen' /\ AppliedIsPublished' /\ FlushShaped'
         /\ \A n : Safe(n)' <=> Safe(n)
         /\ \A kind : Published(kind)' = Published(kind)
BY DEF ActorInv, actorVars, AppliedOnce, AppliedIsSeen, AppliedIsPublished, FlushShaped, Seen, Safe,
   Published, InLog, Batch

LEMMA TakeSnapshotKeeps ==
  ASSUME ActorInv, TakeSnapshot
  PROVE  ActorInv'
<1> USE DEF ActorInv
<1>1. /\ UNCHANGED <<streamVars, chan, actorVars, log, staged, acks, flushed, saved, cursor, settled,
                     writerVars, faults, crashes>>
      /\ snap = 0 /\ snap' = staged
  BY DEF TakeSnapshot
<1>2. TypeOK'
  BY <1>1, CheckpointTypes DEF TypeOK, streamVars, actorVars, writerVars
<1>3. CheckpointShaped' /\ SettledIsDurable'
  <2>1. Safe(staged) /\ Safe(cursor) /\ ~saved
    BY <1>1 DEF CheckpointShaped
  <2>2. Safe(staged)' /\ Safe(cursor)' /\ Safe(snap)'
    BY <1>1, <2>1 DEF Safe, Published, actorVars
  <2> QED
    BY <1>1, <2>1, <2>2, ActorUntouched DEF CheckpointShaped, SettledIsDurable
<1> QED
  BY <1>1, <1>2, <1>3, ActorUntouched

LEMMA SaveCursorKeeps ==
  ASSUME ActorInv, SaveCursor \/ SaveFails
  PROVE  ActorInv'
<1> USE DEF ActorInv
<1>1. /\ UNCHANGED <<streamVars, chan, actorVars, log, staged, acks, flushed, settled, writerVars, crashes>>
      /\ cursor' = cursor \/ cursor' = Larger(cursor, snap)
      /\ \/ saved' = TRUE /\ snap' = snap /\ snap # 0 /\ cursor' = Larger(cursor, snap) /\ faults' = faults
         \/ saved' = FALSE /\ snap' = 0 /\ faults < MaxFaults /\ faults' = faults + 1
  BY CheckpointTypes DEF SaveCursor, SaveFails
<1>2. /\ cursor' \in 0 .. MaxCmds /\ cursor' >= cursor /\ (cursor' = cursor \/ cursor' = snap)
      /\ cursor' = Larger(cursor, snap) => snap <= cursor'
  BY <1>1, CheckpointTypes DEF Larger
<1>3. snap' \in 0 .. MaxCmds /\ faults' \in 0 .. MaxFaults
  BY <1>1, CheckpointTypes, ActorAssumption
<1>7. saved' \in {TRUE, FALSE}
  BY <1>1, Zenon
<1>4. TypeOK'
  BY <1>1, <1>2, <1>3, <1>7 DEF TypeOK, streamVars, actorVars, writerVars
<1>5. CheckpointShaped'
  <2>1. Safe(staged)' /\ Safe(cursor)'
    BY <1>1, <1>2 DEF Safe, Published, actorVars, CheckpointShaped
  <2>2. Safe(snap)'
    BY <1>1, CheckpointTypes DEF Safe, Published, actorVars, CheckpointShaped
  <2>3. flushed' <= cursor'
    BY <1>1, <1>2, CheckpointTypes DEF CheckpointShaped
  <2>4. saved' => snap' # 0 /\ snap' <= cursor'
    BY <1>1, <1>2
  <2> QED
    BY <1>1, <2>1, <2>2, <2>3, <2>4, ActorUntouched DEF CheckpointShaped
<1>6. SettledIsDurable'
  <2>1. \A c \in settled : c \in Nat
    BY CheckpointTypes, Typed
  <2> QED
    BY <1>1, <1>2, <2>1, CheckpointTypes, ActorUntouched DEF SettledIsDurable
<1> QED
  BY <1>1, <1>4, <1>5, <1>6, ActorUntouched

LEMMA CompleteCheckpointKeeps ==
  ASSUME ActorInv, CompleteCheckpoint
  PROVE  ActorInv'
<1> USE DEF ActorInv
<1> DEFINE upTo == Larger(flushed, snap)
           covered == Covered(upTo)
<1>1. /\ UNCHANGED <<chan, actorVars, log, staged, cursor, writerVars, faults, crashes, sent, next>>
      /\ saved /\ flushed' = upTo /\ acks' = acks \ covered /\ settled' = settled \union covered
      /\ acked' = acked \union covered /\ unacked' = unacked \ covered /\ redo' = redo \ covered
      /\ snap' = 0 /\ saved' = FALSE
  BY DEF CompleteCheckpoint, Ack
<1>2. covered \subseteq acks /\ \A c \in covered : c <= upTo
  BY DEF Covered
<1> HIDE DEF covered
<1>3. upTo \in 0 .. MaxCmds /\ upTo <= cursor
  BY <1>1, CheckpointTypes DEF Larger, CheckpointShaped
<1> HIDE DEF upTo
<1>4. TypeOK'
  <2>1. 0 \in 0 .. MaxCmds
    BY ActorAssumption
  <2> QED
    BY <1>1, <1>2, <1>3, <2>1 DEF TypeOK, actorVars, writerVars
<1>5. CheckpointShaped'
  <2>1. Safe(staged)' /\ Safe(cursor)' /\ Safe(snap)'
    BY <1>1, CheckpointTypes DEF Safe, Published, actorVars, CheckpointShaped
  <2> QED
    BY <1>1, <1>3, <2>1, ActorUntouched DEF CheckpointShaped
<1>6. SettledIsDurable'
  <2>1. \A c \in covered : c \in Nat /\ c <= cursor
    <3>1. \A c \in covered : c \in Nat
      BY <1>2, CheckpointTypes, Typed
    <3>2. upTo \in Nat /\ cursor \in Nat
      BY <1>3, CheckpointTypes, ActorAssumption
    <3> QED
      BY <1>2, <1>3, <3>1, <3>2
  <2>2. covered \subseteq Published("delta")
    BY <1>2 DEF CheckpointShaped
  <2> QED
    BY <1>1, <2>1, <2>2, ActorUntouched DEF SettledIsDurable
<1> QED
  BY <1>1, <1>4, <1>5, <1>6, ActorUntouched

-----------------------------------------------------------------------------
(* The writer and a restart *)

LEMMA WriterKeeps ==
  ASSUME ActorInv, Writer \/ WriterFails
  PROVE  ActorInv'
<1> USE DEF ActorInv
<1>1. UNCHANGED <<streamVars, chan, actorVars, log, checkpointVars, crashes>>
  BY DEF Writer, WriterFetch, WriterRefetch, WriterProject, WriterFails
<1>2. /\ wheld \union wredo \union db \subseteq wseen /\ wseen \subseteq DOMAIN log
      /\ wlast \in 0 .. Len(log) /\ DOMAIN log \in SUBSET Nat /\ DOMAIN log = 1 .. Len(log) /\ Len(log) \in Nat
  BY Typed DEF TypeOK
<1>3. /\ wheld' \union wredo' \union db' \subseteq wseen' /\ wseen' \subseteq DOMAIN log
      /\ wlast' \in 0 .. Len(log)
  <2>1. CASE WriterFetch
    <3>1. Deltas \ wseen \in SUBSET Nat /\ Deltas \ wseen # {} /\ Deltas \subseteq DOMAIN log
      BY <1>2, <2>1 DEF Deltas, WriterFetch
    <3>2. Min(Deltas \ wseen) \in Deltas \ wseen
      BY <3>1, MinOf
    <3> QED
      BY <1>2, <2>1, <3>1, <3>2 DEF WriterFetch
  <2>2. CASE WriterRefetch
    <3>1. wredo \in SUBSET Nat /\ wredo # {}
      BY <1>2, <2>2 DEF WriterRefetch
    <3>2. Min(wredo) \in wredo
      BY <3>1, MinOf
    <3> QED
      BY <1>2, <2>2, <3>2 DEF WriterRefetch
  <2>3. CASE WriterProject \/ WriterFails
    <3>1. wheld \in SUBSET Nat /\ wheld # {}
      BY <1>2, <2>3 DEF WriterProject, WriterFails
    <3>2. Min(wheld) \in wheld
      BY <3>1, MinOf
    <3>3. Min(wheld) \in DOMAIN log /\ Min(wheld) \in 0 .. Len(log)
      BY <1>2, <3>2
    <3>4. CASE WriterProject
      BY <1>2, <3>2, <3>3, <3>4 DEF WriterProject
    <3>5. CASE WriterFails
      BY <1>2, <3>2, <3>3, <3>5 DEF WriterFails
    <3> QED
      BY <2>3, <3>4, <3>5
  <2> QED
    BY <2>1, <2>2, <2>3 DEF Writer
<1>4. faults' \in 0 .. MaxFaults
  BY CheckpointTypes, ActorAssumption DEF Writer, WriterFetch, WriterRefetch, WriterProject, WriterFails
<1>5. TypeOK'
  BY <1>1, <1>3, <1>4 DEF TypeOK, streamVars, actorVars, checkpointVars
<1> QED
  BY <1>1, <1>5, QuietKeeps DEF actorVars

LEMMA RestartKeeps ==
  ASSUME ActorInv, Restart
  PROVE  ActorInv'
<1> USE DEF ActorInv
<1> DEFINE fresh == Deltas \ wseen
           open == OpenOrders(db \union fresh)
           seq == {cursor} \union open
<1>1. /\ UNCHANGED <<sent, next, acked, log, cursor, settled, faults>>
      /\ crashes < MaxCrashes /\ crashes' = crashes + 1 /\ chan' = <<>> /\ book' = open
      /\ applied' = [c \in Cmds |-> 0] /\ pending' = {} /\ pc' = "idle" /\ lps' = Max(seq)
      /\ redo' = redo \union unacked /\ unacked' = {}
      /\ staged' = 0 /\ acks' = {} /\ flushed' = 0 /\ snap' = 0 /\ saved' = FALSE
      /\ db' = db \union fresh /\ wlast' = IF fresh = {} THEN wlast ELSE Max(fresh)
      /\ wseen' = wseen \union fresh /\ wredo' = wredo \union wheld /\ wheld' = {}
  BY DEF Restart, RecoveredSeq
<1>2. /\ wheld \union wredo \union db \subseteq wseen /\ wseen \subseteq DOMAIN log
      /\ wlast \in 0 .. Len(log) /\ DOMAIN log \in SUBSET Nat /\ DOMAIN log = 1 .. Len(log) /\ Len(log) \in Nat
  BY Typed DEF TypeOK
<1>3. fresh \subseteq DOMAIN log
  BY DEF Deltas
<1>4. open \subseteq Cmds
  BY DEF OpenOrders, Resting
<1> HIDE DEF fresh, open
<1>5. Max(seq) \in seq /\ \A n \in seq : n <= Max(seq)
  <2>1. seq \in SUBSET Nat /\ seq # {} /\ \A n \in seq : n <= MaxCmds
    BY <1>4, CheckpointTypes, Typed
  <2> QED
    BY <2>1, MaxOf, ActorAssumption
<1>6. lps' \in 0 .. MaxCmds /\ cursor <= lps'
  <2>1. seq \subseteq 0 .. MaxCmds
    BY <1>4, CheckpointTypes, Typed
  <2> QED
    BY <1>1, <1>5, <2>1
<1>7. wlast' \in 0 .. Len(log)
  <2>1. CASE fresh = {}
    BY <1>1, <1>2, <2>1
  <2>2. CASE fresh # {}
    <3>1. fresh \in SUBSET Nat /\ \A n \in fresh : n <= Len(log)
      BY <1>2, <1>3
    <3>2. Max(fresh) \in fresh
      BY <1>2, <2>2, <3>1, MaxOf
    <3> QED
      BY <1>1, <1>2, <1>3, <2>2, <3>2
  <2> QED
    BY <2>1, <2>2
<1>8. wheld' \union wredo' \union db' \subseteq wseen' /\ wseen' \subseteq DOMAIN log
  BY <1>1, <1>2, <1>3
<1>9. crashes' \in 0 .. MaxCrashes
  BY <1>1, ActorAssumption DEF TypeOK
<1>10. chan' \in Seq(Cmds) /\ Len(chan') <= ChanCap
  BY <1>1, ActorAssumption
<1>11. 0 \in 0 .. MaxCmds /\ applied' \in [Cmds -> Nat] /\ \A c \in Cmds : applied'[c] = 0
  BY <1>1, ActorAssumption
<1>12. TypeOK'
  BY <1>1, <1>4, <1>6, <1>7, <1>8, <1>9, <1>10, <1>11 DEF TypeOK
<1>13. AppliedOnce' /\ AppliedIsSeen' /\ AppliedIsPublished' /\ FlushShaped'
  BY <1>1, <1>11 DEF AppliedOnce, AppliedIsSeen, AppliedIsPublished, FlushShaped
<1>14. \A kind : Published(kind)' = Published(kind)
  BY <1>1 DEF Published
<1>15. CheckpointShaped'
  <2>1. Safe(cursor)'
    BY <1>1, <1>6, <1>14 DEF Safe, CheckpointShaped
  <2>2. 0 <= lps' /\ 0 <= cursor
    BY <1>6, CheckpointTypes, ActorAssumption
  <2> QED
    BY <1>1, <2>1, <2>2 DEF Safe, CheckpointShaped
<1>16. SettledIsDurable'
  BY <1>1, <1>14 DEF SettledIsDurable
<1> QED
  BY <1>12, <1>13, <1>15, <1>16

-----------------------------------------------------------------------------
(* The invariant holds *)

\* The invariant holds at first, ...
LEMMA InitActorInv == Init => ActorInv
<1> SUFFICES ASSUME Init PROVE ActorInv
  OBVIOUS
<1>1. 0 \in 0 .. MaxCmds /\ 1 \in 1 .. MaxCmds + 1 /\ 0 \in 0 .. MaxFaults /\ 0 \in 0 .. MaxCrashes
      /\ 0 <= ChanCap
  BY ActorAssumption
<1>2. /\ chan \in Seq(Cmds) /\ Len(chan) = 0 /\ Len(log) = 0
      /\ log \in Seq([kind : {"delta", "exec", "released"}, cmds : SUBSET Cmds])
  BY DEF Init
<1>3. applied \in [Cmds -> Nat] /\ \A c \in Cmds : applied[c] = 0
  BY DEF Init
<1>4. TypeOK
  <2>1. wseen \subseteq DOMAIN log /\ wlast \in 0 .. Len(log)
    BY <1>2 DEF Init
  <2>2. saved \in {TRUE, FALSE} /\ pc \in {"idle", "delta", "exec", "released", "done"}
    BY DEF Init
  <2> QED
    BY <1>1, <1>2, <1>3, <2>1, <2>2 DEF Init, TypeOK
<1>5. AppliedOnce /\ AppliedIsSeen /\ AppliedIsPublished
  BY <1>3 DEF AppliedOnce, AppliedIsSeen, AppliedIsPublished
<1>6. FlushShaped /\ CheckpointShaped /\ SettledIsDurable
  BY DEF Init, FlushShaped, CheckpointShaped, Safe, SettledIsDurable
<1> QED
  BY <1>4, <1>5, <1>6 DEF ActorInv

\* ... and every step keeps it.
LEMMA NextActorInv ==
  ASSUME ActorInv, [Next]_vars
  PROVE  ActorInv'
<1>1. CASE Reserve \/ Consumer \/ \E c \in Cmds : AckWaitExpires(c)
  BY <1>1, ReserveKeeps, DeliverKeeps DEF Consumer
<1>2. CASE Actor \/ PublishFails \/ ReleaseFails
  BY <1>2, ReceiveSeenKeeps, ReceiveKeeps, BeginFlushKeeps, PublishKeeps, EndFlushKeeps DEF Actor
<1>3. CASE Checkpointer \/ SaveFails
  BY <1>3, TakeSnapshotKeeps, SaveCursorKeeps, CompleteCheckpointKeeps DEF Checkpointer
<1>4. CASE Writer \/ WriterFails \/ Restart
  BY <1>4, WriterKeeps, RestartKeeps
<1>5. CASE UNCHANGED vars
  <2>1. TypeOK'
    BY <1>5 DEF ActorInv, TypeOK, vars, streamVars, actorVars, checkpointVars, writerVars
  <2> QED
    BY <1>5, <2>1, QuietKeeps DEF vars, actorVars
<1> QED
  BY <1>1, <1>2, <1>3, <1>4, <1>5 DEF Next

\* The inductive invariant of the market actor, its flush, its checkpoint loop and its recovery.
THEOREM ActorInvHolds == Spec => []ActorInv
<1>1. ActorInv /\ [Next]_vars => ActorInv'
  BY NextActorInv
<1> QED
  BY InitActorInv, <1>1, PTL DEF Spec

\* A process applies a reserved event to its book at most once, however often it is delivered,
\* and every effect of it is in the pending batch or published, through any failed or partial
\* flush (handleActorCommand, flushActorBatch, includeWrapper).
THEOREM NothingUnpublishedHolds == Spec => []NothingUnpublished
<1>1. ActorInv => NothingUnpublished
  BY DEF ActorInv, NothingUnpublished
<1> QED
  BY <1>1, ActorInvHolds, PTL

\* A checkpoint says no more than what is durable: a command it acks is published and covered by
\* the saved cursor, and the cursor never runs ahead of what is published nor of the process,
\* whatever is staged between snapshot, write and acks, and after every restart
\* (stageCheckpoint, flushCheckpoint, completeCheckpoint, RecoverFromStore).
THEOREM CheckpointSoundHolds == Spec => []CheckpointSound
<1>1. ActorInv => CheckpointSound
  BY DEF ActorInv, CheckpointSound, CursorBehind, CheckpointShaped, Safe
<1> QED
  BY <1>1, ActorInvHolds, PTL
=============================================================================
