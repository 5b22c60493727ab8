---------------------------- MODULE FundsManager ----------------------------
(***************************************************************************)
(* The accounts of the funds service (funds/manager.go) and their          *)
(* projection to Postgres and Redis (funds/projector.go): what every       *)
(* event does to a wallet's available, locked and pending USDC and shares, *)
(* with the integer arithmetic of the code, and how the dirty index makes  *)
(* the rows in the two databases follow.                                   *)
(*                                                                         *)
(* FundsService decides WHEN an event is applied and that it is applied    *)
(* once; this module takes that for granted and follows the amounts, for   *)
(* the wallets of one market.  What the matcher does is kept only so far   *)
(* as it limits the events: `left' and `ended' are its view of an order.   *)
(*                                                                         *)
(* A method of Manager is atomic under the shard lock of its wallet.  The  *)
(* fills of a batch are steps of their own, since other consumers run in   *)
(* between, and only the projector is kept out until the batch is applied. *)
(***************************************************************************)
EXTENDS OrderMath, FiniteSetsExt, Sequences

CONSTANTS
    Wallets,
    Order,        \* the orders announced as reserved, as a function to records
    Batches,      \* match_event_ids
    Transfers,    \* confirmed deposits and withdrawals: [wallet, kind, amount];
                  \* the code ignores an amount of zero
    Start,        \* Start[w][asset]: what wallet w has available at first
    MaxFills,     \* bound on the fills of a batch
    MaxEvents,    \* bound on the events applied
    MaxProjected, \* the same when the projector writes to databases
    MaxFaults,    \* bound on failed Postgres transactions and Redis pipelines
    MaxCrashes    \* bound on crashes

Orders == DOMAIN Order
Assets == {"usdc", "yes", "no"}

ASSUME ManagerAssumption ==
    /\ \A o \in Orders : Order[o] \in [wallet : Wallets, action : {"buy", "sell"},
                                       outcome : {"yes", "no"}, type : {"limit", "market"},
                                       tick : Prices, size : Nat \ {0}]
    /\ IsFiniteSet(Orders) /\ IsFiniteSet(Batches) /\ IsFiniteSet(Transfers)
    /\ Transfers \subseteq [wallet : Wallets, kind : {"deposit", "withdraw"}, amount : Nat \ {0}]
    /\ Start \in [Wallets -> [Assets -> Nat]]
    /\ MaxFills \in Nat /\ MaxEvents \in Nat /\ MaxProjected \in Nat /\ MaxFaults \in Nat /\ MaxCrashes \in Nat

VARIABLES
    acct,     \* UserWallet and MarketPosition of every wallet
    ev,       \* the events applied so far, and what went wrong with them
    dirty,    \* dirtyIndex: the wallets and the positions to project
    cap,      \* what the projector captured: rows, values, and its step
    pg,       \* wallet_accounts and positions
    rd,       \* the same in Redis
    image,    \* the accounts and events at the capture Postgres holds
    wired,    \* whether the projector has databases (NewProjector's pool and rdb)
    faults, crashes

vars == <<acct, ev, dirty, cap, pg, rd, image, wired, faults, crashes>>
projection == <<cap, pg, rd, image, wired, faults, crashes>>

Balance(n) == [avail |-> n, locked |-> 0, pending |-> 0]

\* A balance after amounts came into its parts, or left them.
Change(b, avail, locked, pending) ==
    [avail |-> b.avail + avail, locked |-> b.locked + locked, pending |-> b.pending + pending]

\* A wallet's ledger and its position in the market.
Seed(w) == [usdc |-> Balance(Start[w]["usdc"]), yes |-> Balance(Start[w]["yes"]),
            no |-> Balance(Start[w]["no"]), coll |-> 0]

Ledger(a) == a.usdc
Position(a) == [yes |-> a.yes, no |-> a.no, coll |-> a.coll]

Clean == [ledgers |-> {}, positions |-> {}]
NoCap == [at |-> "idle"]

Buys(o) == Order[o].action = "buy"
Pays(o) == IF Buys(o) THEN "usdc" ELSE Order[o].outcome
MarketBuy(o) == Buys(o) /\ Order[o].type = "market"

NoEvents == [count    |-> 0,
             booked   |-> {},
             left     |-> [o \in Orders |-> Order[o].size],
             ended    |-> [o \in Orders |-> 0],
             again    |-> {},
             phase    |-> [b \in Batches |-> "none"],
             fills    |-> [b \in Batches |-> <<>>],
             moved    |-> {},
             short    |-> [w \in Wallets |-> [x \in Assets |-> 0]],
             strained |-> {},
             netted   |-> {}]

Rows(r) == [w \in Wallets |-> [ledger |-> Ledger(r[w]), position |-> Position(r[w])]]

Init ==
    /\ acct = [w \in Wallets |-> Seed(w)]
    /\ ev = NoEvents
    /\ dirty = Clean /\ cap = NoCap
    /\ pg = Rows(acct) /\ rd = Rows(acct)
    /\ image = [acct |-> acct, ev |-> ev]
    /\ wired \in BOOLEAN
    /\ faults = 0 /\ crashes = 0

-----------------------------------------------------------------------------
(* Manager *)

Smaller(x, y) == IF x < y THEN x ELSE y

reserveUnitsForLots(lots, tick) == ceilMulDiv(lots, tick)

\* requiredReserveUnits: what n lots (or n units of spend) of order o lock.
Required(o, n) ==
    IF Buys(o) /\ ~MarketBuy(o) THEN reserveUnitsForLots(n, Order[o].tick) ELSE n

Cost(o, qty, price) == actualUnitsForOrder(Order[o].outcome, qty, price)

\* Mutant: the reserve is not added to the position's collateral.
LockWithoutCollateral(a, o, n) ==
    [a EXCEPT ![Pays(o)] = Change(@, -n, n, 0)]

\* The move of ReserveOrder, for a buy and for a sell.
Lock(a, o, n) ==
    [a EXCEPT ![Pays(o)] = Change(@, -n, n, 0),
              !.coll = IF Buys(o) THEN @ + n ELSE @]

\* Mutant: a limit order keeps the whole reserve of the fill, although it
\* was filled at a better price.
applyFillKeepingReserve(a, o, qty, price) ==
    LET r == Smaller(IF MarketBuy(o) THEN Cost(o, qty, price)
                                     ELSE reserveUnitsForLots(qty, Order[o].tick), a.usdc.locked)
    IN  IF Buys(o)
        THEN [a EXCEPT !.usdc = Change(@, 0, -r, 0), !.coll = @ - Smaller(r, @),
                       ![Order[o].outcome] = Change(@, 0, 0, qty)]
        ELSE [a EXCEPT ![Order[o].outcome] = Change(@, 0, -Smaller(qty, @.locked), 0),
                       !.usdc = Change(@, 0, 0, Cost(o, qty, price))]

\* The reserve of the fill is taken as far as there is locked USDC; a limit
\* order that paid less than its reserve gets the difference back at once.
applyFillForOrder(a, o, qty, price) ==
    LET cost == Cost(o, qty, price)
        r == Smaller(IF MarketBuy(o) THEN cost ELSE reserveUnitsForLots(qty, Order[o].tick),
                     a.usdc.locked)
    IN  IF Buys(o)
        THEN [a EXCEPT !.usdc = Change(@, IF r > cost THEN r - cost ELSE 0, -r, 0),
                       !.coll = @ - Smaller(r, @),
                       ![Order[o].outcome] = Change(@, 0, 0, qty)]
        ELSE [a EXCEPT ![Order[o].outcome] = Change(@, 0, -Smaller(qty, @.locked), 0),
                       !.usdc = Change(@, 0, 0, cost)]

\* The matcher's RefundAmount is what the n lots or units left are reserved with.
releaseRefundForOrder(o, n) == IF Buys(o) THEN Required(o, n) ELSE 0

ReleaseOrder(a, o, n) ==
    LET refund == releaseRefundForOrder(o, n)
        unlock == Smaller(IF Buys(o) /\ refund > 0 THEN refund ELSE Required(o, n),
                          a[Pays(o)].locked)
    IN  [a EXCEPT ![Pays(o)] = Change(@, unlock, -unlock, 0),
                  !.coll = IF Buys(o) THEN @ - Smaller(unlock, @) ELSE @]

\* The legs of wallet w in a batch's fills that satisfy P, each counted with N.
Legs(fills, w, action, outcomes) ==
    {l \in Orders \X DOMAIN fills :
        /\ l[1] \in {fills[l[2]].maker, fills[l[2]].taker}
        /\ Order[l[1]].wallet = w /\ Order[l[1]].action = action
        /\ Order[l[1]].outcome \in outcomes}

\* The sum of a function's values.
Sum(f) == MapThenSumSet(LAMBDA x : f[x], DOMAIN f)

Money(fills, legs) == Sum([l \in legs |-> Cost(l[1], fills[l[2]].qty, fills[l[2]].price)])
Lots(fills, legs) == Sum([l \in legs |-> fills[l[2]].qty])

Spent(fills, w)     == Money(fills, Legs(fills, w, "buy", {"yes", "no"}))
Earned(fills, w)    == Money(fills, Legs(fills, w, "sell", {"yes", "no"}))
Bought(fills, w, x) == Lots(fills, Legs(fills, w, "buy", {x}))
Sold(fills, w, x)   == Lots(fills, Legs(fills, w, "sell", {x}))

\* computeBatchDeltasForWallet nets what a wallet buys against what it sells.
BatchDeltas(fills, w) ==
    [usdc |-> Earned(fills, w) - Spent(fills, w),
     yes  |-> Bought(fills, w, "yes") - Sold(fills, w, "yes"),
     no   |-> Bought(fills, w, "no") - Sold(fills, w, "no"),
     yesLocked |-> Sold(fills, w, "yes"), noLocked |-> Sold(fills, w, "no")]

\* As much of a positive delta as is pending.
Transferable(a, d, x) == IF d[x] > 0 THEN Smaller(d[x], a[x].pending) ELSE 0

\* Mutant: the whole pending balance of the wallet is confirmed.
ConfirmedForWalletWhole(a, d) ==
    [x \in DOMAIN a |-> IF x = "coll" THEN a[x] ELSE
        Change(a[x], a[x].pending, 0, -a[x].pending)]

\* ApplySettlementConfirmedByBatch for one wallet.
ConfirmedForWallet(a, d) ==
    [x \in DOMAIN a |-> IF x = "coll" THEN a[x] ELSE
        Change(a[x], Transferable(a, d, x), 0, -Transferable(a, d, x))]

\* ApplySettlementFailedByBatch for one wallet: what was bought is taken back,
\* what was spent or sold becomes available.
FailedForWallet(a, d) ==
    LET back == [usdc |-> IF d.usdc < 0 THEN -d.usdc ELSE 0,
                 yes |-> d.yesLocked, no |-> d.noLocked]
    IN  [x \in DOMAIN a |-> IF x = "coll" THEN a[x] ELSE
            Change(a[x], back[x], 0, -Transferable(a, d, x))]

\* markLedgerDirtyLocked and markPositionDirtyLocked.  Without databases the
\* next flush drops the keys, and nothing else depends on them.
MarkDirty(ws, ps) ==
    IF wired THEN [ledgers |-> dirty.ledgers \union ws, positions |-> dirty.positions \union ps]
             ELSE Clean

-----------------------------------------------------------------------------
(* The events *)

\* One event more is applied, if the bound allows.
Counted(e) ==
    /\ ev.count < IF wired THEN MaxProjected ELSE MaxEvents
    /\ ev' = [e EXCEPT !.count = @ + 1]

\* The reserve of n is not the sum of the reserves of its parts.
Rounds(o, n, part) == Required(o, part) + Required(o, n - part) # Required(o, n)

\* handleReservedMessage and Manager.ReserveOrder: without the money the
\* order is only logged, and stays in the book.
Reserve(o) ==
    LET w == Order[o].wallet
        need == Required(o, Order[o].size)
    IN  /\ o \notin ev.booked
        /\ IF acct[w][Pays(o)].avail >= need
           THEN /\ acct' = [acct EXCEPT ![w] = Lock(@, o, need)]
                /\ dirty' = MarkDirty({w}, {w})
                /\ Counted([ev EXCEPT !.booked = @ \union {o}])
           ELSE /\ Counted([ev EXCEPT !.booked = @ \union {o}, !.strained = @ \union {w}])
                /\ UNCHANGED <<acct, dirty>>
        /\ UNCHANGED projection

\* What the matcher may report: a resting limit order and a taker of the
\* other side and another wallet, at the price of the resting order.
Matches(m, t, qty, price) ==
    /\ Order[m].type = "limit" /\ Order[m].wallet # Order[t].wallet
    /\ NormalizedSide(Order[m].action, Order[m].outcome)
         = Opposite(NormalizedSide(Order[t].action, Order[t].outcome))
    /\ price = NormalizedPrice(Order[m].outcome, Order[m].tick)
    /\ Order[t].type = "limit" =>
          LET limit == NormalizedPrice(Order[t].outcome, Order[t].tick)
          IN  IF NormalizedSide(Order[t].action, Order[t].outcome) = "buy"
              THEN price <= limit ELSE price >= limit
    /\ qty <= ev.left[m]
    /\ IF MarketBuy(t) THEN Cost(t, qty, price) <= ev.left[t] ELSE qty <= ev.left[t]

\* How much of an order a fill uses up.
Used(o, qty, price) == IF MarketBuy(o) THEN Cost(o, qty, price) ELSE qty

\* What a fill credits and could not take from the wallet.
Shortfall(o, qty, price) ==
    LET a == acct[Order[o].wallet]
        cost == Cost(o, qty, price)
        r == IF MarketBuy(o) THEN cost ELSE reserveUnitsForLots(qty, Order[o].tick)
    IN  IF Buys(o) THEN cost - Smaller(cost, Smaller(r, a.usdc.locked))
                   ELSE qty - Smaller(qty, a[Order[o].outcome].locked)

Filled(b, m, t, qty, price) ==
    LET touched == {m, t}
        Of(w) == CHOOSE o \in touched : Order[o].wallet = w
        ws == {Order[o].wallet : o \in touched}
        missing == [w \in Wallets |-> IF w \in ws
                       THEN [ev.short[w] EXCEPT ![Pays(Of(w))] = @ + Shortfall(Of(w), qty, price)]
                       ELSE ev.short[w]]
    IN  /\ acct' = [w \in Wallets |-> IF w \in ws
                       THEN applyFillForOrder(acct[w], Of(w), qty, price) ELSE acct[w]]
        /\ dirty' = MarkDirty(ws, ws)
        /\ Counted([ev EXCEPT
              !.phase[b] = "filling",
              !.fills[b] = Append(@, [maker |-> m, taker |-> t, qty |-> qty, price |-> price]),
              !.left = [o \in Orders |->
                          ev.left[o] - IF o \in touched THEN Used(o, qty, price) ELSE 0],
              !.short = missing,
              !.strained = @ \union {Order[o].wallet : o \in
                 {o \in touched : o \notin ev.booked \/ Rounds(o, ev.left[o], Used(o, qty, price))}}])

\* handleMatchBatchMessage: ApplyMatchPending, one fill after the other.
ApplyMatchPending(b) ==
    /\ ev.phase[b] \in {"none", "filling"} /\ Len(ev.fills[b]) < MaxFills
    /\ \A c \in Batches : ev.phase[c] = "filling" => c = b
    /\ \E m, t \in Orders : \E qty \in 1 .. ev.left[m], price \in Prices :
          Matches(m, t, qty, price) /\ Filled(b, m, t, qty, price)
    /\ UNCHANGED projection

\* The batch is applied: the handler releases stateMu.
EndBatch(b) ==
    /\ ev.phase[b] = "filling"
    /\ ev' = [ev EXCEPT !.phase[b] = "applied"]
    /\ UNCHANGED <<acct, dirty, projection>>

\* The matcher cancels or expires what is left of an order and says so twice:
\* in the batch's order updates and as evt.order.released.  Either is the
\* first here; fills of the order may still be on their way.
Release(o) ==
    \E n \in 1 .. ev.left[o] :
        LET w == Order[o].wallet
        IN  /\ ev.ended[o] = 0
            /\ acct' = [acct EXCEPT ![w] = ReleaseOrder(@, o, n)]
            /\ dirty' = MarkDirty({w}, {w})
            /\ Counted([ev EXCEPT !.ended[o] = n, !.left[o] = @ - n,
                         !.strained = IF o \notin ev.booked \/ Rounds(o, ev.left[o], n)
                                      THEN @ \union {w} ELSE @])
            /\ UNCHANGED projection

\* The second of the two: handleOrderReleasedMessage and the order updates
\* call ReleaseOrder alike, and neither knows of the other.
ReleaseAgain(o) ==
    LET w == Order[o].wallet
    IN  /\ ev.ended[o] > 0 /\ o \notin ev.again
        /\ acct' = [acct EXCEPT ![w] = ReleaseOrder(@, o, ev.ended[o])]
        /\ dirty' = MarkDirty({w}, {w})
        /\ Counted([ev EXCEPT !.again = @ \union {o},
                            !.strained = IF acct'[w] # acct[w] THEN @ \union {w} ELSE @])
        /\ UNCHANGED projection

\* Wallets that are on both sides of a batch: the deltas cancel out.
Netted(fills) ==
    {w \in Wallets : \/ Spent(fills, w) > 0 /\ Earned(fills, w) > 0
                     \/ \E x \in {"yes", "no"} : Bought(fills, w, x) > 0 /\ Sold(fills, w, x) > 0}

Parties(fills) == {Order[o].wallet : o \in UNION {{fills[i].maker, fills[i].taker} : i \in DOMAIN fills}}

\* applyTerminal: the batch's effect on every wallet in it.
Settle(b, outcome) ==
    LET fills == ev.fills[b]
    IN  /\ ev.phase[b] = "applied"
        /\ acct' = [w \in Wallets |->
                      IF w \notin Parties(fills) THEN acct[w]
                      ELSE IF outcome = "confirmed"
                           THEN ConfirmedForWallet(acct[w], BatchDeltas(fills, w))
                           ELSE FailedForWallet(acct[w], BatchDeltas(fills, w))]
        /\ dirty' = MarkDirty(Parties(fills), Parties(fills))
        /\ Counted([ev EXCEPT !.phase[b] = outcome, !.netted = @ \union Netted(fills)])
        /\ UNCHANGED projection

\* ApplyDepositConfirmed and ApplyWithdrawConfirmed: a withdrawal of more than
\* is available empties the account.
Transferred(a, t) ==
    [a EXCEPT !.usdc = Change(@, IF t.kind = "deposit" THEN t.amount
                                 ELSE -Smaller(t.amount, @.avail), 0, 0)]

\* What the withdrawal did not find.
Unpaid(a, t) ==
    IF t.kind = "deposit" THEN 0 ELSE t.amount - Smaller(t.amount, a.usdc.avail)

Transfer(t) ==
    LET w == t.wallet
        missing == Unpaid(acct[w], t)
    IN  /\ t \notin ev.moved
        /\ acct' = [acct EXCEPT ![w] = Transferred(@, t)]
        /\ dirty' = MarkDirty({w}, {})
        /\ Counted([ev EXCEPT !.moved = @ \union {t},
                    !.short[w]["usdc"] = @ + missing,
                    !.strained = IF missing > 0 THEN @ \union {w} ELSE @])
        /\ UNCHANGED projection

-----------------------------------------------------------------------------
(* Projector *)

\* captureFlushState and CollectAndClearDirty, with stateMu held as the writer.
Capture ==
    /\ cap = NoCap /\ dirty # Clean
    /\ \A b \in Batches : ev.phase[b] # "filling"
    /\ cap' = [at |-> "postgres", rows |-> dirty, of |-> [acct |-> acct, ev |-> ev]]
    /\ dirty' = Clean
    /\ UNCHANGED <<acct, ev, pg, rd, image, wired, faults, crashes>>

\* The rows of the captured keys, written over those of a table.
Upsert(table, ledgers, positions) ==
    [w \in Wallets |->
        [ledger   |-> IF w \in ledgers THEN Ledger(cap.of.acct[w]) ELSE table[w].ledger,
         position |-> IF w \in positions THEN Position(cap.of.acct[w]) ELSE table[w].position]]

\* Mutant: the accounts are read again when the rows are written.
FlushPostgresNow ==
    /\ cap.at = "postgres"
    /\ pg' = [w \in Wallets |->
          [ledger |-> IF w \in cap.rows.ledgers THEN Ledger(acct[w]) ELSE pg[w].ledger,
           position |-> IF w \in cap.rows.positions THEN Position(acct[w]) ELSE pg[w].position]]
    /\ image' = cap.of
    /\ cap' = [cap EXCEPT !.at = "redis"]
    /\ UNCHANGED <<acct, ev, dirty, rd, wired, faults, crashes>>

\* flushPostgres: one transaction.
FlushPostgres ==
    /\ cap.at = "postgres"
    /\ pg' = Upsert(pg, cap.rows.ledgers, cap.rows.positions)
    /\ image' = cap.of
    /\ cap' = [cap EXCEPT !.at = "redis"]
    /\ UNCHANGED <<acct, ev, dirty, rd, wired, faults, crashes>>

\* RestoreDirty: the captured keys are dirty again, with their present values.
RestoreDirty ==
    [ledgers |-> dirty.ledgers \union cap.rows.ledgers,
     positions |-> dirty.positions \union cap.rows.positions]

\* Mutant: the first error ends the projector's loop.
FlushFailsForGood ==
    /\ cap.at = "postgres" /\ faults < MaxFaults
    /\ faults' = faults + 1
    /\ dirty' = RestoreDirty
    /\ cap' = [cap EXCEPT !.at = "stopped"]
    /\ UNCHANGED <<acct, ev, pg, rd, image, wired, crashes>>

FlushFails ==
    /\ cap.at = "postgres" /\ faults < MaxFaults
    /\ faults' = faults + 1
    /\ dirty' = RestoreDirty
    /\ cap' = NoCap
    /\ UNCHANGED <<acct, ev, pg, rd, image, wired, crashes>>

\* refreshRedisWallets and refreshRedisPositions.
RefreshRedis ==
    /\ cap.at = "redis"
    /\ rd' = Upsert(rd, cap.rows.ledgers, cap.rows.positions)
    /\ cap' = NoCap
    /\ UNCHANGED <<acct, ev, dirty, pg, image, wired, faults, crashes>>

\* One of the two pipelines fails, after any part of its commands.
RefreshFails ==
    /\ cap.at = "redis" /\ faults < MaxFaults
    /\ faults' = faults + 1
    /\ \E l \in SUBSET cap.rows.ledgers, p \in SUBSET cap.rows.positions : rd' = Upsert(rd, l, p)
    /\ dirty' = RestoreDirty
    /\ cap' = NoCap
    /\ UNCHANGED <<acct, ev, pg, image, wired, crashes>>

\* recoverFromPostgres marks every row it seeds.
RecoveredRows == [ledgers |-> Wallets, positions |-> Wallets]

\* A crash, and recoverFromPostgres: SeedLedger and SeedPosition.  The events
\* after the checkpoint come again (FundsService).
Crash ==
    /\ wired /\ crashes < MaxCrashes
    /\ crashes' = crashes + 1
    /\ acct' = [w \in Wallets |-> [usdc |-> pg[w].ledger, yes |-> pg[w].position.yes,
                                   no |-> pg[w].position.no, coll |-> pg[w].position.coll]]
    /\ ev' = image.ev
    /\ dirty' = RecoveredRows
    /\ cap' = NoCap
    /\ UNCHANGED <<pg, rd, image, wired, faults>>

Project == Capture \/ FlushPostgres \/ RefreshRedis

Next ==
    \/ \E o \in Orders : Reserve(o) \/ Release(o) \/ ReleaseAgain(o)
    \/ \E b \in Batches : \/ ApplyMatchPending(b) \/ EndBatch(b)
                          \/ Settle(b, "confirmed") \/ Settle(b, "failed")
    \/ \E t \in Transfers : Transfer(t)
    \/ Project \/ FlushFails \/ RefreshFails \/ Crash

Spec == Init /\ [][Next]_vars

\* The projector's ticker, and a handler that goes on to the end of its batch.
FairSpec == Spec /\ WF_vars(Project) /\ \A b \in Batches : WF_vars(EndBatch(b))

-----------------------------------------------------------------------------
\* Types; in particular no unsigned balance of UserWallet or MarketPosition
\* ever goes below zero, whatever is released or filled twice.
Bal == [avail : Nat, locked : Nat, pending : Nat]
Accounts == [Wallets -> [usdc : Bal, yes : Bal, no : Bal, coll : Nat]]
TypeOK ==
    /\ acct \in Accounts
    /\ ev.left \in [Orders -> Nat] /\ ev.short \in [Wallets -> [Assets -> Nat]]
    /\ dirty.ledgers \subseteq Wallets /\ dirty.positions \subseteq Wallets
    /\ faults \in 0 .. MaxFaults /\ crashes \in 0 .. MaxCrashes

InFlight == {b \in Batches : ev.phase[b] \in {"filling", "applied"}}
Standing == {b \in Batches : ev.phase[b] \in {"filling", "applied", "confirmed"}}

Total(w, x) == acct[w][x].avail + acct[w][x].locked + acct[w][x].pending
Funded(w) ==
    Sum([t \in {t \in ev.moved : t.wallet = w} |->
            IF t.kind = "deposit" THEN t.amount ELSE -t.amount])

\* The USDC of a wallet is what came in, less what the batches that stand
\* cost it, more what they earned it, and more what applyFillForOrder or
\* ApplyWithdrawConfirmed did not find when it clamped an amount: reserving,
\* price improvement, releases however often, confirmation and the refund of
\* a failed batch neither make nor lose money.
MoneyAccounted ==
    \A w \in Wallets :
        Total(w, "usdc") = Start[w]["usdc"] + Funded(w) + ev.short[w]["usdc"]
           + Sum([b \in Standing |-> Earned(ev.fills[b], w) - Spent(ev.fills[b], w)])

\* The same for the shares of a wallet that was never on both sides of one
\* batch: computeBatchDeltasForWallet nets the two sides, and
\* ApplySettlementFailedByBatch gives back the sold shares without netting.
SharesAccounted ==
    \A w \in Wallets \ ev.netted, x \in {"yes", "no"} :
        Total(w, x) = Start[w][x] + ev.short[w][x]
           + Sum([b \in Standing |-> Bought(ev.fills[b], w, x) - Sold(ev.fills[b], w, x)])

\* Every unit a wallet holds has an origin, and no unsigned balance wraps.
Accounted == TypeOK /\ MoneyAccounted /\ SharesAccounted

\* What is locked is what the open orders still need, and the position's
\* collateral is the locked USDC, in a wallet whose orders were all reserved
\* before they were filled, none released twice beside another open one, and
\* none filled in parts whose reserves round up to more than the whole.
LockedBacked ==
    \A w \in Wallets \ ev.strained, x \in Assets :
        LET Open == {o \in ev.booked : Order[o].wallet = w /\ Pays(o) = x}
        IN  /\ acct[w][x].locked = Sum([o \in Open |-> Required(o, ev.left[o])])
            /\ x = "usdc" => acct[w].coll = acct[w].usdc.locked

\* The clamps of applyFillForOrder are never reached in such a wallet: every
\* fill is paid in full from what was locked for it.
PaidInFull == \A w \in Wallets \ ev.strained, x \in Assets : ev.short[w][x] = 0

\* An open order is backed: what it needs is locked, and what it owes it pays.
OrdersBacked == LockedBacked /\ PaidInFull

\* Pending is what the batches in flight will bring: a terminal phase settles
\* its own batch and no other one, for a wallet never on both sides of one.
PendingBacked ==
    \A w \in Wallets \ ev.netted :
        /\ acct[w].usdc.pending = Sum([b \in InFlight |-> Earned(ev.fills[b], w)])
        /\ \A x \in {"yes", "no"} :
              acct[w][x].pending = Sum([b \in InFlight |-> Bought(ev.fills[b], w, x)])

\* flushPostgres writes dirty rows only, and still the two tables hold the
\* whole state of one moment, the one the recovery checkpoint was taken at:
\* a flush that failed, or a change during it, leaves no row behind.
PostgresIsOneMoment == pg = Rows(image.acct)

\* A row that differs in Postgres or Redis is dirty or being written: no
\* change is forgotten by the dirty index, by a failed flush or by recovery.
DirtyCovers == wired =>
    \A w \in Wallets :
        /\ \/ w \in dirty.ledgers \/ (cap # NoCap /\ w \in cap.rows.ledgers)
           \/ pg[w].ledger = Ledger(acct[w]) /\ rd[w].ledger = Ledger(acct[w])
        /\ \/ w \in dirty.positions \/ (cap # NoCap /\ w \in cap.rows.positions)
           \/ pg[w].position = Position(acct[w]) /\ rd[w].position = Position(acct[w])

\* The projection loses no change: what Postgres holds is one moment, and what
\* differs from it is on its way.
NoChangeLost == PostgresIsOneMoment /\ DirtyCovers

\* Redis, which the gateway validates orders against, and Postgres show the
\* accounts in the end, whatever failed between.
ProjectionsConverge == wired => []<>(pg = Rows(acct) /\ rd = Rows(acct))

\* A released order gives back its own lock and nothing else: the comment of
\* handleOrderReleasedMessage says that the bounds of ReleaseOrder make a
\* second release harmless.  It does not hold for a wallet with another open
\* order of the same kind: the second release unlocks that order's money.
ReleaseIsIdempotent ==
    [][\A o \in Orders : ReleaseAgain(o) => acct' = acct]_vars

\* A wallet has nothing pending once its batches are settled.  It does not
\* hold for a wallet on both sides of a batch, whose deltas cancel out.
SettledPendingCleared ==
    InFlight = {} => \A w \in Wallets, x \in Assets : acct[w][x].pending = 0
=============================================================================
