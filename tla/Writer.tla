------------------------------- MODULE Writer -------------------------------
(***************************************************************************)
(* The writer (package writer): it projects the market deltas of one       *)
(* market into PostgreSQL (orders, trades, its cursor) and then into Redis *)
(* (l2:depth, user:orders, order:info, trades:latest, price:history), and  *)
(* the evt.order.released events into the rows of the orders.              *)
(*                                                                         *)
(* The matcher is the environment: one command is one batch.  Prices are   *)
(* left out: an order crosses every open order of the other side, and a    *)
(* side is one level of the depth.  The position tables that writer.go can *)
(* also build are not written in production.  A batch of a market without  *)
(* a row in markets, a batch that does not decode and a state event of an  *)
(* order the batch does not carry do not occur: the matcher has the market *)
(* from that table and puts every order it reports into the batch.         *)
(***************************************************************************)
EXTENDS Integers, Sequences, FiniteSets, SequencesExt, Functions

CONSTANTS
    Orders,
    SideOf,        \* "bid" or "ask"
    QtyOf,         \* the ordered lots
    RecentLimit,   \* recentTradesLimit
    MaxBatches,    \* bound: commands the matcher processes
    MaxFaults      \* bound: crashes, failed calls, lost acks and lost publishes together

Sides == {"bid", "ask"}

ASSUME WriterAssumption ==
    /\ IsFiniteSet(Orders)
    /\ SideOf \in [Orders -> Sides]
    /\ QtyOf \in [Orders -> Nat \ {0}]
    /\ RecentLimit \in Nat \ {0} /\ MaxBatches \in Nat /\ MaxFaults \in Nat

VARIABLES
    book,          \* matcher: status and remaining lots of every order
    deltas,        \* evt.market.delta, in stream order
    released,      \* evt.order.released, not yet acknowledged
    sent,          \* the last delta delivered for the first time
    nakd,          \* deltas to be delivered again
    acked,
    rows,          \* table orders
    trades,        \* table trades
    cursor,        \* consumer_cursors.last_evt_seq
    depth,         \* l2:depth
    userOrders,    \* user:orders, the members
    info,          \* order:info
    recent,        \* trades:latest, head first
    history,       \* price:history
    phase,         \* "down", "catchup" or "run"
    cur,           \* the delta handleMessage has committed and not finished, 0 for none
    applied,       \* history variable: deltas whose transaction committed
    synced,        \* history variable: those of them that Redis reflects
    faults

matcher == <<book, deltas>>
stream  == <<sent, nakd, acked>>
tables  == <<rows, trades, cursor, applied>>
redis   == <<depth, userOrders, info, recent, history, synced>>
process == <<phase, cur>>
vars == <<matcher, released, stream, tables, redis, process, faults>>

OpenStatus == {"new", "partially_filled"}
Closed     == {"canceled", "rejected"}
Status     == OpenStatus \cup Closed \cup {"filled"}
None       == [st |-> "none", rem |-> 0, init |-> 0]
IsOpen(r)  == r.st \in OpenStatus

MaxQty  == Max({QtyOf[o] : o \in Orders})
SumOf(f) == FoldFunction(LAMBDA x, y : x + y, 0, f)
Volume(r, side) == SumOf([o \in {p \in Orders : SideOf[p] = side /\ IsOpen(r[p])} |-> r[o].rem])

Row   == [st : Status \cup {"none"}, rem : 0..MaxQty, init : 0..MaxQty]
Trade == [evt : 1..MaxBatches, fill : 1..Cardinality(Orders), qty : 1..MaxQty]
Point == [evt : 1..MaxBatches, qty : 1..MaxQty]

TypeOK ==
    /\ book \in [Orders -> Row]
    /\ Len(deltas) <= MaxBatches
    /\ released \subseteq Orders
    /\ sent \in 0..Len(deltas) /\ nakd \subseteq 1..sent /\ acked \subseteq 1..sent
    /\ nakd \cap acked = {}
    /\ rows \in [Orders -> Row] /\ trades \subseteq Trade /\ cursor \in 0..sent
    /\ depth \in [Sides -> Nat] /\ userOrders \subseteq Orders /\ info \in [Orders -> Row]
    /\ recent \in Seq(Trade) /\ Len(recent) <= RecentLimit /\ history \subseteq Point
    /\ phase \in {"down", "catchup", "run"} /\ cur \in 0..sent
    /\ applied \subseteq 1..sent /\ synced \subseteq applied
    /\ faults \in 0..MaxFaults

Init ==
    /\ book = [o \in Orders |-> None] /\ deltas = <<>> /\ released = {}
    /\ sent = 0 /\ nakd = {} /\ acked = {}
    /\ rows = [o \in Orders |-> None] /\ trades = {} /\ cursor = 0 /\ applied = {}
    /\ depth = [s \in Sides |-> 0] /\ userOrders = {} /\ info = [o \in Orders |-> None]
    /\ recent = <<>> /\ history = {} /\ synced = {}
    /\ phase = "catchup" /\ cur = 0 /\ faults = 0

Fault == faults < MaxFaults /\ faults' = faults + 1

-----------------------------------------------------------------------------
(* The matcher.  A batch carries its orders with the lots they had left when *)
(* they entered the batch (executionSnapshotFromOrder), the state of each    *)
(* after the batch, the fills in order, and the total volume of the levels.  *)

\* freeze: ProducedAt is the time in whole seconds, that of the batch before or a later one (the clock
\* does not go back).  Nothing reads the time of a batch without fills.
ProducedAt(fills) ==
    LET last == IF deltas = <<>> THEN 0 ELSE Last(deltas).sec
    IN IF fills = <<>> THEN {last} ELSE {last, last + 1}

\* upd: the states; qty: QtyLots of the orders; fills: the lots of each fill.
PublishBatch(upd, qty, fills) ==
    /\ Len(deltas) < MaxBatches
    /\ book' = [o \in Orders |-> IF o \in DOMAIN upd THEN upd[o] ELSE book[o]]
    /\ \E sec \in ProducedAt(fills) :
          deltas' = Append(deltas, [upd |-> upd, qty |-> qty, fills |-> fills, sec |-> sec,
                                    depth |-> [s \in Sides |-> Volume(book', s)]])
    /\ LET rel == {o \in DOMAIN upd : upd[o].st \in Closed}
       IN \/ released' = released \cup rel /\ UNCHANGED faults
          \/ rel # {} /\ Fault /\ UNCHANGED released
    /\ UNCHANGED <<stream, tables, redis, process>>

State(o, st, rem) == [st |-> st, rem |-> rem, init |-> QtyOf[o]]

\* A limit or market order takes from the open orders of the other side, in some order.
PlaceOrder(o, type) ==
    /\ book[o].st = "none"
    /\ LET opp == {m \in Orders : IsOpen(book[m]) /\ SideOf[m] # SideOf[o]} IN
       \E take \in [opp -> 0..MaxQty] :
          LET left == QtyOf[o] - SumOf(take)
              rest == IF left = 0 THEN "filled" ELSE IF type = "market" THEN "canceled" ELSE "new"
              hit  == {m \in opp : take[m] > 0}
              upd  == [x \in hit \cup {o} |->
                         IF x = o THEN State(o, rest, left)
                         ELSE State(x, IF take[x] = book[x].rem THEN "filled" ELSE "partially_filled",
                                    book[x].rem - take[x])]
          IN /\ left >= 0 /\ \A m \in opp : take[m] <= book[m].rem
             /\ left > 0 => \A m \in opp : take[m] = book[m].rem
             /\ \E order \in SetToSeqs(hit) :
                  PublishBatch(upd,
                      [x \in hit \cup {o} |->
                         IF x # o THEN upd[x].rem
                         ELSE IF order = <<>> THEN QtyOf[o] ELSE QtyOf[o] - take[order[1]]],
                      [i \in DOMAIN order |-> take[order[i]]])

RejectOrder(o) ==
    /\ book[o].st = "none"
    /\ PublishBatch([x \in {o} |-> State(o, "rejected", QtyOf[o])], [x \in {o} |-> QtyOf[o]], <<>>)

\* An expiry differs in the name of its status only.
CancelOrder(o) ==
    /\ IsOpen(book[o])
    /\ PublishBatch([x \in {o} |-> State(o, "canceled", book[o].rem)], [x \in {o} |-> book[o].rem], <<>>)

-----------------------------------------------------------------------------
(* handleMessage *)

\* tradeID is the event and the index of the fill.
TradesOf(n) == [i \in DOMAIN deltas[n].fills |-> [evt |-> n, fill |-> i, qty |-> deltas[n].fills[i]]]

\* executed_at is the time of the batch.
ExecutedAt(t) == deltas[t.evt].sec
PointOf(t)  == [evt |-> t.evt, qty |-> t.qty]

\* JetStream: the next delta for the first time, or one whose ack wait or nak delay ended.
Deliverable(n) == n \in nakd \/ n = sent + 1

Deliver(n) == sent' = IF n > sent THEN n ELSE sent

\* upsertBatchOrders: ON CONFLICT DO NOTHING.
Upsert(n, o) == IF rows[o] = None THEN deltas[n].qty[o] ELSE rows[o].init

\* Mutant: a closed order keeps its row.
ApplyStateEventsGuarded(n) ==
    [o \in Orders |-> IF o \in DOMAIN deltas[n].upd /\ rows[o].st \notin Closed
                      THEN [deltas[n].upd[o] EXCEPT !.init = Upsert(n, o)] ELSE rows[o]]

ApplyStateEvents(n) ==
    [o \in Orders |-> IF o \in DOMAIN deltas[n].upd
                      THEN [deltas[n].upd[o] EXCEPT !.init = Upsert(n, o)] ELSE rows[o]]

\* GREATEST of the old and the new.
AdvanceCursor(n) == cursor' = IF n > cursor THEN n ELSE cursor

\* The transaction: orders, trades, states and the cursor.
Commit(n) ==
    /\ rows' = ApplyStateEvents(n)
    /\ trades' = trades \cup Range(TradesOf(n))
    /\ AdvanceCursor(n) /\ applied' = applied \cup {n}

Behind(n) == n <= cursor

\* Mutant: a delta behind the cursor is left alone.
AckBehindForgotten(n) == UNCHANGED <<nakd, acked>>

AckBehind(n) == nakd' = nakd \ {n} /\ acked' = acked \cup {n}

\* The transaction commits, fails, or fails after it committed; a delta at or behind the cursor is
\* acknowledged.
HandleDelta(n) ==
    /\ phase # "down" /\ cur = 0 /\ Deliverable(n) /\ n <= Len(deltas) /\ Deliver(n)
    /\ IF Behind(n)
       THEN AckBehind(n) /\ UNCHANGED <<tables, cur, faults>>
       ELSE \/ /\ Commit(n) /\ cur' = n /\ nakd' = nakd \ {n}
               /\ UNCHANGED <<acked, faults>>
            \/ /\ Fault /\ nakd' = nakd \cup {n} /\ UNCHANGED <<acked, cur>>
               /\ Commit(n) \/ UNCHANGED tables
    /\ UNCHANGED <<matcher, released, redis, phase>>

\* Mutant: the closed orders stay in user:orders.
OpenMembersKept(n) == userOrders \cup DOMAIN deltas[n].upd

\* writeOpenOrderToRedis adds every order of the batch, applyStateToRedis removes the closed ones.
OpenMembers(n) ==
    (userOrders \cup DOMAIN deltas[n].upd) \ {o \in DOMAIN deltas[n].upd : ~IsOpen(deltas[n].upd[o])}

WriteInfo(n) ==
    [o \in Orders |-> IF o \in DOMAIN deltas[n].upd
                      THEN [deltas[n].upd[o] EXCEPT !.init = deltas[n].qty[o]] ELSE info[o]]

\* LPush of every fill, then LTrim to the first RecentLimit.
PushTrades(n) ==
    LET all == Reverse(TradesOf(n)) \o recent
    IN SubSeq(all, 1, IF Len(all) < RecentLimit THEN Len(all) ELSE RecentLimit)

\* One pipeline.
UpdateRedisReadModels(n) ==
    /\ depth' = deltas[n].depth
    /\ userOrders' = OpenMembers(n) /\ info' = WriteInfo(n)
    /\ recent' = PushTrades(n)
    /\ history' = history \cup {PointOf(t) : t \in Range(TradesOf(n))}
    /\ synced' = synced \cup {n}

\* After the commit: Redis, whose error is only logged, and the ack; a lost one brings the delta back
\* after the ack wait.
FinishDelta ==
    /\ cur # 0 /\ cur' = 0
    /\ \/ UpdateRedisReadModels(cur) /\ acked' = acked \cup {cur} /\ UNCHANGED <<nakd, faults>>
       \/ Fault /\ acked' = acked \cup {cur} /\ UNCHANGED <<redis, nakd>>
       \/ Fault /\ UpdateRedisReadModels(cur) /\ nakd' = nakd \cup {cur} /\ UNCHANGED acked
    /\ UNCHANGED <<matcher, released, sent, tables, phase>>

-----------------------------------------------------------------------------
\* handleOrderReleasedMessage: the row unless it is closed, order:info deleted.  HDel of the sorted
\* set user:orders is an error that is ignored.
HandleReleased(o) ==
    /\ phase = "run" /\ o \in released
    /\ \/ /\ rows' = [rows EXCEPT ![o].st = IF @ \in Closed \cup {"none"} THEN @ ELSE book[o].st]
          /\ info' = [info EXCEPT ![o] = None]
          /\ \/ released' = released \ {o} /\ UNCHANGED faults
             \/ Fault /\ UNCHANGED released
       \/ Fault /\ UNCHANGED <<rows, info, released>>
    /\ UNCHANGED <<matcher, stream, trades, cursor, applied, depth, userOrders, recent, history, synced, process>>

\* Deltas fetched but not acknowledged come back after their ack wait, later ones may overtake them.
Crash ==
    /\ phase # "down" /\ Fault /\ phase' = "down" /\ cur' = 0
    /\ sent' \in sent..Len(deltas)
    /\ nakd' = (1..sent') \ acked
    /\ UNCHANGED <<matcher, released, acked, tables, redis>>

RebuildDepths       == depth' = [s \in Sides |-> Volume(rows, s)]
RebuildActiveOrders ==
    /\ userOrders' = {o \in Orders : IsOpen(rows[o])}
    /\ info' = [o \in Orders |-> IF IsOpen(rows[o]) THEN rows[o] ELSE None]

\* The newest RecentLimit trades, pushed to the right, in the order of executed_at: those of one second
\* come in any order, whatever batch they are of, and any of them may be cut.
RebuildRecentTrades ==
    \E s \in SetToSeqs(trades) :
      /\ \A i, j \in DOMAIN s : i < j => ExecutedAt(s[i]) <= ExecutedAt(s[j])
      /\ recent' = SubSeq(s, IF Len(s) > RecentLimit THEN Len(s) - RecentLimit + 1 ELSE 1, Len(s))

RebuildPriceHistory == history' = {PointOf(t) : t \in trades}

\* deleteByPattern, then the four projections.
RebuildRedisModels ==
    /\ RebuildDepths /\ RebuildActiveOrders /\ RebuildRecentTrades /\ RebuildPriceHistory
    /\ synced' = applied

\* Start; an error of the rebuild ends the process again.
Start ==
    /\ phase = "down" /\ phase' = "catchup" /\ RebuildRedisModels
    /\ UNCHANGED <<matcher, released, stream, tables, cur, faults>>

\* catchUp ends with the first fetch that times out; only then the released loop starts.
CatchUpDone ==
    /\ phase = "catchup" /\ cur = 0 /\ sent = Len(deltas) /\ phase' = "run"
    /\ UNCHANGED <<matcher, released, stream, tables, redis, cur, faults>>

-----------------------------------------------------------------------------
Next ==
    \/ \E o \in Orders : \/ PlaceOrder(o, "limit") \/ PlaceOrder(o, "market") \/ RejectOrder(o)
                         \/ CancelOrder(o) \/ HandleReleased(o)
    \/ \E n \in 1..MaxBatches : HandleDelta(n)
    \/ FinishDelta
    \/ Crash \/ Start \/ CatchUpDone

\* The loops run, deliveries are repeated, a process that died is started again.
Fairness ==
    /\ WF_vars(\E n \in 1..MaxBatches : HandleDelta(n)) /\ WF_vars(FinishDelta)
    /\ WF_vars(Start) /\ WF_vars(CatchUpDone)
    /\ \A o \in Orders : WF_vars(HandleReleased(o))

Spec == Init /\ [][Next]_vars /\ Fairness

-----------------------------------------------------------------------------
(* Properties *)

CaughtUp == acked = 1..Len(deltas)
Skipped  == acked \ applied

\* Once every delta is acknowledged, and none was passed over, the rows of the orders and the trades
\* are what the matcher did: through failed transactions, redeliveries, crashes, and released events
\* that are handled before the deltas they follow (handleMessage, handleOrderReleasedMessage).
RowsCaughtUp ==
    CaughtUp /\ Skipped = {} =>
      /\ \A o \in Orders : rows[o].st = book[o].st /\ rows[o].rem = book[o].rem
      /\ trades = UNION {Range(TradesOf(n)) : n \in DOMAIN deltas}

\* Then Redis, rebuilt or updated with every one of them, agrees with the tables: the depth is the
\* volume of the open rows, user:orders and order:info hold the open orders as they are.
RedisCaughtUp ==
    CaughtUp /\ Skipped = {} /\ synced = applied =>
      /\ depth = [s \in Sides |-> Volume(rows, s)]
      /\ userOrders = {o \in Orders : IsOpen(rows[o])}
      /\ \A o \in userOrders : info[o].st = rows[o].st /\ info[o].rem = rows[o].rem
      /\ history = {PointOf(t) : t \in trades}

\* trades:latest never shows a trade twice or one that is not committed, and while Redis has every
\* committed delta it shows one of the last second (LPush and LTrim, rebuildRecentTrades, the cursor
\* test).
RecentSound ==
    /\ IsInjective(recent) /\ Range(recent) \subseteq trades
    /\ synced = applied /\ trades # {} =>
         \E t \in Range(recent) : \A u \in trades : ExecutedAt(u) <= ExecutedAt(t)

\* Redis serves what is committed, and all of it once the writer has caught up.
RedisSound == TypeOK /\ RedisCaughtUp /\ RecentSound

\* Every delta and every released event is acknowledged in the end.
EveryDeltaAcked == []<>(CaughtUp /\ released = {})

-----------------------------------------------------------------------------
(* What the design or a comment says and the code does not keep: TLC finds a counterexample
   to each when its name is added to the configuration. *)

\* trades:latest is newest first, as updateRedisReadModels builds it and GetTrades returns it.
NewestFirst == \A i, j \in DOMAIN recent : i < j => recent[i].evt >= recent[j].evt

\* The last trade is among them: the rebuild may have cut it in favour of others of its second, and the
\* next LTrim cuts the last of the rebuilt list, which is in the other order.
LastTradeShown ==
    synced = applied /\ trades # {} => \E t \in Range(recent) : \A u \in trades : u.evt <= t.evt

\* orders.initial_qty is the ordered quantity.
InitialQty == \A o \in Orders : rows[o] # None => rows[o].init = QtyOf[o]

\* A row that is closed is not opened again.
ClosedStays == [][\A o \in Orders : rows[o].st \in Closed => rows'[o].st = rows[o].st]_vars
=============================================================================
