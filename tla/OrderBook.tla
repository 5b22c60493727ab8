----------------------------- MODULE OrderBook -----------------------------
(***************************************************************************)
(* The order book of one market (matching/book.go and matching/pool.go):   *)
(* price levels that are queues of resting orders, the volume kept per     *)
(* level, the cached best prices, and the matching of one incoming order   *)
(* (the taker) maker by maker.  PlaceOrder starts a match; the match steps *)
(* are the iterations of matchAsks and matchBids; Finish is what           *)
(* handlePlaceOrder does after the loop.  The actor handles one command    *)
(* after the other, but the tick goroutine sweeps the book with no lock,   *)
(* so that a Tick may come between any two steps of a match.               *)
(***************************************************************************)
EXTENDS OrderMath, FiniteSetsExt, SequencesExt

CONSTANTS Commands,   \* the orders users may send, as records (see Order)
          Times,      \* the timestamps commands may carry
          MaxOrders   \* bound on the number of orders placed

VARIABLES
    levels,   \* [side -> [price -> the level's queue, oldest first]]
    vol,      \* [side -> [price -> PriceLevel.TotalVolume]]
    best,     \* [side -> cached best price, 0 for none]
    orders,   \* the keys of the Orders map
    now,      \* CurrentTime
    active,   \* IsActive
    taker,    \* the order being matched, or NoOrder
    phase,    \* where handlePlaceOrder stands: idle, level, maker or done
    target,   \* targetPrice of the matching loop
    maker,    \* id of the maker under the loop, 0 for nil
    count,    \* orders placed so far; the next order's id is count + 1
    status,   \* [id -> the last order update emitted]
    depth,    \* [side -> [price -> the last depth update emitted]]
    trade,    \* the fill emitted by the last step, or NoTrade
    ghosts,   \* orders that the orders table has open and no level holds
    missed,   \* history: readers did not end up with what a sweep published
    spoilt    \* history: a sweep removed orders beside a command, or swept orders came back

bookVars == <<levels, vol, best, orders, now, active, taker, phase, target, maker,
              count, status, depth, trade, ghosts, missed, spoilt>>

matchVars == <<phase, target, maker, taker>>

sweepVars == <<ghosts, missed, spoilt>>

\* The orders that ValidatePlaceOrderCommand lets through, with what the book does not look at
\* (the wallet's keys, the nonce, the signature) left out.
ASSUME BookAssumption ==
    /\ Times \subseteq Nat /\ MaxOrders \in Nat
    /\ \A cmd \in Commands :
         /\ cmd.action \in {"buy", "sell"} /\ cmd.outcome \in {"yes", "no"}
         /\ cmd.type \in {"limit", "market"} /\ cmd.limit \in Prices
         /\ cmd.qty \in Nat /\ cmd.spend \in Nat /\ cmd.expire \in Nat
         /\ IF cmd.type = "market" /\ cmd.action = "buy" THEN cmd.spend > 0 ELSE cmd.qty > 0

Sides == {"buy", "sell"}
Ids == 1 .. MaxOrders
Final == {"filled", "canceled", "expired", "rejected"}
Statuses == Final \union {"none", "new", "partially_filled"}
NoOrder == [id |-> 0]
NoTrade == [maker |-> NoOrder]

\* InitFromCmd: the order of command cmd, with the id it gets on arrival.
Order(cmd, id) ==
    [id      |-> id,
     wallet  |-> cmd.wallet,
     action  |-> cmd.action,
     outcome |-> cmd.outcome,
     type    |-> cmd.type,
     limit   |-> cmd.limit,
     side    |-> NormalizedSide(cmd.action, cmd.outcome),
     price   |-> NormalizedPrice(cmd.outcome, cmd.limit),
     qty     |-> cmd.qty,
     spend   |-> cmd.spend,
     expire  |-> cmd.expire]

\* MemoryOrder.
OrderRecord ==
    [id : Ids, wallet : {cmd.wallet : cmd \in Commands}, action : {"buy", "sell"},
     outcome : {"yes", "no"}, type : {"limit", "market"}, limit : Prices, side : Sides,
     price : Prices, qty : Nat, spend : Nat, expire : Nat]

MarketBuy(o) == o.type = "market" /\ o.action = "buy"

IsFilled(o) == IF MarketBuy(o) THEN o.spend = 0 ELSE o.qty = 0

Expired(o, t) == o.expire > 0 /\ t >= o.expire

\* The lots of a queue, whose orders are different ones.
SumQty(queue) == MapThenSumSet(LAMBDA o : o.qty, ToSet(queue))

IdsOf(queue) == {queue[i].id : i \in DOMAIN queue}

\* The first price with volume from start on, in the direction that is worse
\* for a taker; 0 for none (updateBestAsk, updateBestBid).
BestFrom(volumes, side, start) ==
    LET there == {p \in Prices : /\ volumes[p] > 0
                                 /\ IF side = "sell" THEN p >= start ELSE p <= start}
    IN  IF there = {} THEN 0 ELSE IF side = "sell" THEN Min(there) ELSE Max(there)

Furthest(side) == IF side = "sell" THEN 1 ELSE Scale - 1

-----------------------------------------------------------------------------
BookInit ==
    /\ levels = [s \in Sides |-> [p \in Prices |-> <<>>]]
    /\ vol = [s \in Sides |-> [p \in Prices |-> 0]]
    /\ best = [s \in Sides |-> 0]
    /\ orders = {}
    /\ now = 0
    /\ active = TRUE
    /\ taker = NoOrder
    /\ phase = "idle"
    /\ target = 0
    /\ maker = 0
    /\ count = 0
    /\ status = [id \in Ids |-> "none"]
    /\ depth = [s \in Sides |-> [p \in Prices |-> 0]]
    /\ trade = NoTrade
    /\ ghosts = {} /\ missed = FALSE /\ spoilt = FALSE

\* handlePlaceOrder on a halted market: the order is rejected.
RejectOrder(cmd, t) ==
    /\ phase = "idle" /\ ~active /\ count < MaxOrders
    /\ now' = t
    /\ count' = count + 1
    /\ status' = [status EXCEPT ![count + 1] = "rejected"]
    /\ trade' = NoTrade
    /\ UNCHANGED <<levels, vol, best, orders, active, depth, matchVars, sweepVars>>

\* handlePlaceOrder up to the matching loop: the loop starts at the cached
\* best price of the other side, or at a scan for one when there is none.
PlaceOrder(cmd, t) ==
    LET o == Order(cmd, count + 1)
        other == Opposite(o.side)
    IN  /\ phase = "idle" /\ active /\ count < MaxOrders
        /\ now' = t
        /\ count' = count + 1
        /\ taker' = o
        /\ target' = IF best[other] # 0 THEN best[other]
                     ELSE BestFrom(vol[other], other, Furthest(other))
        /\ phase' = "level"
        /\ maker' = 0
        /\ trade' = NoTrade
        /\ UNCHANGED <<levels, vol, best, orders, active, status, depth, sweepVars>>

-----------------------------------------------------------------------------
MakerSide == Opposite(taker.side)

Level == levels[MakerSide][target]

\* Mutant: a taker does not reach makers at exactly its own price.
LoopOnStrict ==
    /\ ~IsFilled(taker)
    /\ target \in Prices
    /\ IF taker.side = "buy" THEN target < taker.price ELSE target > taker.price

\* The condition of the outer loop.
LoopOn ==
    /\ ~IsFilled(taker)
    /\ target \in Prices
    /\ IF taker.side = "buy" THEN target <= taker.price ELSE target >= taker.price

\* Mutant: no break at the last bid price.
NextLevelNoBreak ==
    /\ phase' = "level"
    /\ target' = IF MakerSide = "sell" THEN target + 1 ELSE Max({1, target - 1})

\* Bids end at price 1 with a break, asks by running past the last price.
NextLevel ==
    IF MakerSide = "buy" /\ target = 1
    THEN phase' = "done" /\ target' = target
    ELSE phase' = "level" /\ target' = IF MakerSide = "sell" THEN target + 1 ELSE target - 1

SkipLevel ==
    /\ phase = "level" /\ LoopOn /\ Level = <<>>
    /\ NextLevel
    /\ trade' = NoTrade
    /\ UNCHANGED <<levels, vol, best, orders, now, active, taker, maker, count,
                   status, depth, sweepVars>>

EnterLevel ==
    /\ phase = "level" /\ LoopOn /\ Level # <<>>
    /\ phase' = "maker"
    /\ maker' = Level[1].id
    /\ trade' = NoTrade
    /\ UNCHANGED <<levels, vol, best, orders, now, active, taker, target, count,
                   status, depth, sweepVars>>

\* The order the loop points at is in the level: no sweep has recycled it.
MakerThere == maker \in IdsOf(Level)

\* The position of the maker under the loop, and the maker after it.
At == CHOOSE i \in DOMAIN Level : Level[i].id = maker
NextMaker == IF At < Len(Level) THEN Level[At + 1].id ELSE 0

\* removeAndRecycleMaker, for the maker under the loop, with qty lots left to take off.
Unlink(id, qty, stat) ==
    /\ levels' = [levels EXCEPT ![MakerSide][target] = RemoveAt(@, At)]
    /\ vol' = [vol EXCEPT ![MakerSide][target] = @ - qty]
    /\ orders' = orders \ {id}
    /\ status' = [status EXCEPT ![id] = stat]

\* A maker the taker may not trade with.
Blocked(m) == Expired(m, now) \/ m.wallet = taker.wallet

\* An expired maker is removed, and so is the taker's own order.
DropMaker ==
    LET m == Level[At]
    IN  /\ phase = "maker" /\ MakerThere /\ ~IsFilled(taker)
        /\ Blocked(m)
        /\ Unlink(m.id, m.qty, IF Expired(m, now) THEN "expired" ELSE "canceled")
        /\ maker' = NextMaker
        /\ trade' = NoTrade
        /\ UNCHANGED <<best, now, active, taker, phase, target, count, depth, sweepVars>>

\* The lots a taker takes from a maker with qty lots at price, and the money
\* a market buy has left after it.
MatchQty(qty, price) ==
    IF MarketBuy(taker)
    THEN IF taker.spend >= actualUnitsForOrder(taker.outcome, qty, price) THEN qty
         ELSE lotsForOrderSpend(taker.outcome, taker.spend, price)
    ELSE Min({taker.qty, qty})

\* Mutant: the cost of a fill is rounded down.
SpendLeftRounded(qty, price) ==
    taker.spend - (qty * EffectivePrice(taker.outcome, price)) \div Scale

SpendLeft(qty, price) ==
    taker.spend - actualUnitsForOrder(taker.outcome, qty, price)

FillMaker ==
    LET m == Level[At]
        q == MatchQty(m.qty, target)
    IN  /\ phase = "maker" /\ MakerThere /\ ~IsFilled(taker)
        /\ ~Blocked(m)
        /\ taker' = IF MarketBuy(taker)
                    THEN [taker EXCEPT !.spend = IF q = 0 THEN 0 ELSE SpendLeft(q, target)]
                    ELSE [taker EXCEPT !.qty = taker.qty - q]
        /\ IF m.qty = q
           THEN Unlink(m.id, q, "filled")
           ELSE /\ levels' = [levels EXCEPT ![MakerSide][target] =
                              [Level EXCEPT ![At] = [m EXCEPT !.qty = m.qty - q]]]
                /\ vol' = [vol EXCEPT ![MakerSide][target] = @ - q]
                /\ status' = IF q = 0 THEN status
                             ELSE [status EXCEPT ![m.id] = "partially_filled"]
                /\ orders' = orders
        /\ trade' = IF q = 0 THEN NoTrade
                    ELSE [maker |-> m, taker |-> taker, price |-> target, qty |-> q]
        /\ maker' = NextMaker
        /\ UNCHANGED <<best, now, active, phase, target, count, depth, sweepVars>>

\* A sweep has recycled the maker under the loop, an order of zeroes now: it
\* gives no lots and, with no neighbours, its removal empties the level,
\* whose other orders stay in the Orders map, the volume and the table.
FillRecycled ==
    /\ phase = "maker" /\ maker # 0 /\ ~MakerThere /\ ~IsFilled(taker)
    /\ levels' = [levels EXCEPT ![MakerSide][target] = <<>>]
    /\ ghosts' = ghosts \union ToSet(Level)
    /\ maker' = 0
    /\ trade' = NoTrade
    /\ UNCHANGED <<vol, best, orders, now, active, taker, phase, target, count, status,
                   depth, missed, spoilt>>

\* Mutant: no depth update after a match on a level.
LeaveLevelSilently ==
    /\ phase = "maker" /\ (maker = 0 \/ IsFilled(taker))
    /\ depth' = depth
    /\ IF Level = <<>> THEN NextLevel ELSE phase' = "level" /\ target' = target
    /\ maker' = 0
    /\ trade' = NoTrade
    /\ UNCHANGED <<levels, vol, best, orders, now, active, taker, count, status, sweepVars>>

LeaveLevel ==
    /\ phase = "maker" /\ (maker = 0 \/ IsFilled(taker))
    /\ depth' = [depth EXCEPT ![MakerSide][target] = vol[MakerSide][target]]
    /\ IF Level = <<>> THEN NextLevel ELSE phase' = "level" /\ target' = target
    /\ maker' = 0
    /\ trade' = NoTrade
    /\ UNCHANGED <<levels, vol, best, orders, now, active, taker, count, status, sweepVars>>

\* addOrderToBook: the taker's remainder rests at the tail of its level.
Rest(o, bests) ==
    /\ levels' = [levels EXCEPT ![o.side][o.price] = Append(@, o)]
    /\ vol' = [vol EXCEPT ![o.side][o.price] = @ + o.qty]
    /\ depth' = [depth EXCEPT ![o.side][o.price] = vol[o.side][o.price] + o.qty]
    /\ orders' = orders \union {o.id}
    /\ best' = [bests EXCEPT ![o.side] =
                  IF o.side = "buy" THEN Max({@, o.price})
                  ELSE IF @ = 0 THEN o.price ELSE Min({@, o.price})]

\* The end of the loop and of handlePlaceOrder.
Finish ==
    LET bests == [best EXCEPT ![MakerSide] =
                    BestFrom(vol[MakerSide], MakerSide, target)]
        rests == ~IsFilled(taker) /\ taker.type = "limit"
    IN  /\ phase = "done" \/ (phase = "level" /\ ~LoopOn)
        /\ status' = [status EXCEPT ![taker.id] =
                        IF IsFilled(taker) THEN "filled"
                        ELSE IF rests THEN "new" ELSE "canceled"]
        /\ IF rests THEN Rest(taker, bests)
           ELSE best' = bests /\ UNCHANGED <<levels, vol, orders, depth>>
        /\ phase' = "idle"
        /\ taker' = NoOrder
        /\ target' = 0
        /\ trade' = NoTrade
        /\ UNCHANGED <<now, active, maker, count, sweepVars>>

-----------------------------------------------------------------------------
InLevels == UNION {ToSet(levels[s][p]) : s \in Sides, p \in Prices}

\* sweepLevelO1 on every level: each level loses its expired orders from the
\* head up to the first one that has not expired.
Swept(queue, t) ==
    LET live == {i \in DOMAIN queue : ~Expired(queue[i], t)}
    IN  IF live = {} THEN <<>> ELSE SubSeq(queue, Min(live), Len(queue))

\* handleTick at time t; told says whether readers end up with the updates it
\* publishes. They do not when the publish fails, and when the actor's batch
\* with older updates of the same orders and levels follows it.
SweepAll(t, told) ==
    LET after == [s \in Sides |-> [p \in Prices |-> Swept(levels[s][p], t)]]
        gone(s, p) == IdsOf(levels[s][p]) \ IdsOf(after[s][p])
        removed == UNION {gone(s, p) : s \in Sides, p \in Prices}
        volumes == [s \in Sides |-> [p \in Prices |->
                      vol[s][p] - (SumQty(levels[s][p]) - SumQty(after[s][p]))]]
    IN  /\ now' = t
        /\ levels' = after
        /\ vol' = volumes
        /\ orders' = orders \ removed
        /\ status' = [id \in Ids |-> IF told /\ id \in removed THEN "expired" ELSE status[id]]
        /\ depth' = [s \in Sides |-> [p \in Prices |->
                       IF told /\ gone(s, p) # {} THEN volumes[s][p] ELSE depth[s][p]]]
        /\ best' = IF removed = {} THEN best
                   ELSE [s \in Sides |-> BestFrom(volumes[s], s, Furthest(s))]
        /\ trade' = NoTrade
        /\ ghosts' = IF told THEN ghosts
                     ELSE ghosts \union {o \in InLevels : o.id \in removed}
        /\ missed' = (missed \/ (~told /\ removed # {}))
        /\ spoilt' = (spoilt \/ (phase # "idle" /\ removed # {}))
        /\ UNCHANGED <<active, count, matchVars>>

\* The tick goroutine, which takes no lock and does not ask what the actor is doing.
Tick(t) == \E told \in BOOLEAN : SweepAll(t, told)

Halt(t) ==
    /\ phase = "idle" /\ active
    /\ now' = t
    /\ active' = FALSE
    /\ trade' = NoTrade
    /\ UNCHANGED <<levels, vol, best, orders, count, status, depth, matchVars, sweepVars>>

\* The orders of S in the order of their creation.
ByAge(S) ==
    [k \in 1 .. Cardinality(S) |-> CHOOSE o \in S : Cardinality({x \in S : x.id < o.id}) = k - 1]

\* The open orders of a price, as the orders table has them.
OpenAt(side, price) ==
    {o \in InLevels \union ghosts : o.side = side /\ o.price = price}

\* Mutant: the expiry time is not read back from the orders table.
RestoredWithoutExpiry(side, price) == ByAge({[o EXCEPT !.expire = 0] : o \in OpenAt(side, price)})

\* A restart of the matcher: a new book, and RestoreOrder for every stored
\* open order, by side, price and creation.
Restored(side, price) == ByAge(OpenAt(side, price))

RestoreBook ==
    LET queues == [s \in Sides |-> [p \in Prices |-> Restored(s, p)]]
        used(s) == {p \in Prices : queues[s][p] # <<>>}
    IN  /\ phase = "idle"
        /\ levels' = queues
        /\ vol' = [s \in Sides |-> [p \in Prices |-> SumQty(queues[s][p])]]
        /\ orders' = UNION {IdsOf(queues[s][p]) : s \in Sides, p \in Prices}
        /\ best' = [s \in Sides |-> IF used(s) = {} THEN 0
                                    ELSE IF s = "buy" THEN Max(used(s)) ELSE Min(used(s))]
        /\ active' = TRUE
        /\ now' = 0
        /\ trade' = NoTrade
        /\ ghosts' = {}
        /\ spoilt' = (spoilt \/ ghosts # {})
        /\ UNCHANGED <<count, status, depth, missed, matchVars>>

MatchStep ==
    SkipLevel \/ EnterLevel \/ DropMaker \/ FillMaker \/ FillRecycled \/ LeaveLevel \/ Finish

BookNext ==
    \/ \E cmd \in Commands, t \in Times : RejectOrder(cmd, t) \/ PlaceOrder(cmd, t)
    \/ MatchStep
    \/ \E t \in Times : Tick(t) \/ Halt(t)
    \/ RestoreBook

BookSpec == BookInit /\ [][BookNext]_bookVars

\* The goroutine that handles a command runs until it has handled it.
FairBookSpec == BookSpec /\ WF_bookVars(MatchStep)
-----------------------------------------------------------------------------
\* Every variable has its type.
BookTypeOK ==
    /\ levels \in [Sides -> [Prices -> Seq(OrderRecord)]]
    /\ taker \in OrderRecord \union {NoOrder}
    /\ vol \in [Sides -> [Prices -> Nat]]
    /\ best \in [Sides -> Prices \union {0}]
    /\ orders \subseteq Ids
    /\ now \in Times \union {0}
    /\ active \in BOOLEAN
    /\ phase \in {"idle", "level", "maker", "done"}
    /\ target \in 0 .. Scale
    /\ maker \in Ids \union {0}
    /\ count \in 0 .. MaxOrders
    /\ status \in [Ids -> Statuses]
    /\ depth \in [Sides -> [Prices -> Nat]]
    /\ ghosts \subseteq OrderRecord /\ missed \in BOOLEAN /\ spoilt \in BOOLEAN

\* The structures of the book agree at every step of a match, not only
\* between commands: the Orders map holds exactly the orders linked in the
\* levels, every order stands on its own side and price in order of arrival
\* with something left to trade, and TotalVolume is the sum of its level
\* (the unsigned subtractions of removeAndRecycleMaker never wrap).
BookConsistent ==
    /\ orders = UNION {IdsOf(levels[s][p]) : s \in Sides, p \in Prices}
    /\ \A s \in Sides, p \in Prices :
         /\ vol[s][p] = SumQty(levels[s][p])
         /\ \A i \in DOMAIN levels[s][p] :
              /\ levels[s][p][i].side = s /\ levels[s][p][i].price = p
              /\ levels[s][p][i].qty > 0
              /\ \A j \in DOMAIN levels[s][p] : i < j => levels[s][p][i].id < levels[s][p][j].id

\* Between commands the cached best prices are the best prices of the levels
\* that hold orders, although updateBestAsk and updateBestBid only scan from
\* the price the match stopped at.
BestIsBest ==
    phase = "idle" =>
        \A s \in Sides :
            LET used == {p \in Prices : levels[s][p] # <<>>}
            IN  /\ best[s] = 0 <=> used = {}
                /\ best[s] # 0 => /\ best[s] \in used
                                  /\ \A p \in used : IF s = "buy" THEN p <= best[s]
                                                       ELSE p >= best[s]

\* Between commands the book is not crossed: whatever expiry, self-trade
\* removal and partial fills a match went through, no bid is left at or
\* above an ask.
NotCrossed ==
    phase = "idle" =>
        \A b, a \in Prices : levels["buy"][b] # <<>> /\ levels["sell"][a] # <<>> => b < a

\* The book is sound: its structures agree at every step, and between commands
\* its best prices are right and no trade is left undone. So it is as long as
\* the sweeps that came between the steps of a match took no order out of the
\* book and no restart has brought back orders swept before.
BookSound == ~spoilt => BookTypeOK /\ BookConsistent /\ BestIsBest /\ NotCrossed

Better(side, p, q) == IF side = "sell" THEN p < q ELSE p > q

\* Price and time priority of every fill: when a maker is filled there is no
\* order left at a better price, and none at its price that arrived before
\* it. For a market buy this rests on the rounding of lots and spend.
PriceTimePriority ==
    trade # NoTrade =>
        LET s == trade.maker.side
        IN  /\ \A p \in Prices : Better(s, p, trade.price) => levels[s][p] = <<>>
            /\ \A i \in DOMAIN levels[s][trade.price] :
                 levels[s][trade.price][i].id >= trade.maker.id

\* What the owner of order o signed is respected at price: a buyer of YES or
\* NO pays no more than the limit per share, a seller gets no less.
Within(o, price) ==
    LET each == EffectivePrice(o.outcome, price)
    IN  IF o.action = "buy" THEN each <= o.limit ELSE each >= o.limit

\* Every fill is one both owners signed: within both limits, between two
\* different wallets, and with a maker that has not expired.
FillIsAgreed ==
    trade # NoTrade =>
        /\ Within(trade.maker, trade.price) /\ Within(trade.taker, trade.price)
        /\ trade.maker.wallet # trade.taker.wallet
        /\ ~Expired(trade.maker, now)
        /\ trade.qty > 0 /\ trade.qty <= trade.maker.qty

\* Every fill of a book that is not spoilt is fair to the orders in the book
\* and to the two that trade, also when a sweep changes CurrentTime during the match.
FillsFair == ~spoilt => PriceTimePriority /\ FillIsAgreed

\* Between commands, the depth the matcher has published is what the levels
\* hold, so a feed built from the depth updates alone shows the book.
DepthPublished ==
    phase = "idle" => \A s \in Sides, p \in Prices : depth[s][p] = SumQty(levels[s][p])

\* Between commands the last update published of an order says whether it
\* rests: new and partially_filled orders are in the book and no others are,
\* which is what the recovery from the stored statuses relies on.
StatusAgrees ==
    phase = "idle" =>
        \A id \in Ids : id \in orders <=> status[id] \in {"new", "partially_filled"}

\* What is published describes the book: the depth for the feeds, the status
\* of each order for the writer and the recovery. It needs that readers got
\* the updates of every sweep, in the order of the changes.
BookPublished == ~spoilt /\ ~missed => DepthPublished /\ StatusAgrees

\* A restart rebuilds the same queues, volumes and best prices from the stored
\* open orders, time priority included, when no order that the book has lost
\* to a sweep is still open in the table.
RestartKeepsBook ==
    [][RestoreBook /\ ~spoilt /\ ghosts = {} => UNCHANGED <<levels, vol, best, orders>>]_bookVars

\* Commands and ticks of a market are handled one after the other ("the actor
\* handles them serially", spec/new/2-hotpath-wal-inflight-redesign.md:301), so that
\* the structures always agree. StartTickLoop calls the book from a goroutine of its own.
AlwaysConsistent == BookConsistent

\* The published statuses always tell which orders are in the book. The tick's batch
\* is published once, and beside the actor's.
AlwaysPublished == StatusAgrees

\* A restart always rebuilds the book that was there. An order whose end was not
\* published comes back.
RestartAlwaysKeepsBook == [][RestoreBook => UNCHANGED <<levels, vol, best, orders>>]_bookVars

\* A tick clears the book of expired orders: "the time-driven command, for
\* clearing expired orders" (matching/types.go). sweepLevelO1 stops at the
\* first order of a level that has not expired.
TickClearsExpired ==
    [][\A t \in Times : Tick(t) =>
         \A s \in Sides, p \in Prices :
            \A i \in DOMAIN levels'[s][p] : ~Expired(levels'[s][p][i], t)]_bookVars

\* The matching loop ends for every order, a market buy included, whose loop
\* condition is on money while its makers are counted in lots.
MatchEnds == phase # "idle" ~> phase = "idle"
=============================================================================
