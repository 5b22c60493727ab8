# BlinkPredict: a TLA+ verification of the trading core

BlinkPredict is a prediction market. Wallets sign orders on the YES or NO shares
of a market; a Go backend (`src/Banckend`) reserves their funds, matches them in
memory, settles the matches on Solana through an Anchor program
(`src/Contract/programs/predix-program`), and projects everything into
PostgreSQL and Redis for a Next.js frontend (`src/Frontened`). The design is
written down in `src/spec/{new,modify,old}`.

The services share no memory. They talk through NATS JetStream: `AP_CMD` (a work
queue of commands), `AP_EVT` (the event log, kept for 7 days, duplicates dropped
by MsgId within 24 hours) and `AP_WHK` (webhooks). Every consumer is durable,
pulls, acks explicitly and may be given a message again. What is hard in this
system is therefore not a data structure but the order of things: handlers on
separate goroutines, acks that are lost, events that are replayed, snapshots
taken while others write, and a crash between any two of these.

## 1. Inventory

### The path of an order

    HTTP gateway --cmd.order.submit--> funds --evt.order.reserved--> matcher
    matcher --evt.market.delta--> writer, pusher
    matcher --evt.match.execution--> funds, settlement
    matcher --evt.order.released--> funds, writer
    settlement --settle_match_batch--> chain
    settlement --evt.settlement.{submitted,confirmed,failed}--> funds, matcher, writer
    deposit/withdraw/market confirm workers --evt.*.confirmed--> funds, writer

At start the bootstrap coordinator starts the writer (which first catches up),
then funds (recovery and replay), matcher (recovery from the orders table),
pusher, the confirm workers and settlement, and opens the gate for writes.

### Components

| component | state it keeps | operations | how it interacts | hard behaviour |
|---|---|---|---|---|
| Funds service `funds/{service,inflight,projector,recovery_store}.go` | in-flight batches with phases, parked terminal events, processed signatures, balances per wallet, `evtSeq` | one handler per subject, projector capture and flush, recovery and replay | six consumers, one goroutine each; PostgreSQL | interleaved handlers, replay plus redelivery, a checkpoint over several consumers, atomic snapshots |
| Order entry `funds/{service,pending_reserve,submit_store}.go` | pending reserves and their sum per market, decided commands | decide, publish, book or drop | three goroutines over two streams | decision and booking are apart, stale reads |
| Funds accounts `funds/manager.go` | available, locked, pending USDC and shares | reserve, release, match, settle, fail | called by the handlers | rounding, netting in a batch, caps |
| Order book `matching/{book,pool,types}.go` | 99 price levels per side, best prices, orders map, recycled order objects | place, match, rest, tick, halt, restore | called by the actor, and by the tick goroutine | cached best prices, unsigned volumes, a sweep during a match |
| Order arithmetic `matching/{math,book}.go`, `http/server.go` | none | normalisation, cost, lots for spend | | rounding |
| Matcher manager `matching/{manager,actor,batcher}.go` | channel, pending batch, `LastProcessedSeq`, staged checkpoint and acks | consume, apply, publish, checkpoint, recover | JetStream in and out, cursor in PostgreSQL, the book from the orders table | duplicates, backpressure, partial publishes, recovery from two stores |
| Writer `writer/writer.go` | cursors, tables, Redis models | project deltas, releases, settlements | AP_EVT to PostgreSQL and Redis | cursor test, failed transactions, catch-up |
| Settlement `settlement/*.go` | submissions (a write-ahead log), blockhash cache | plan, prepare, send, confirm, rebroadcast, recover | RPC, chain confirmation, AP_EVT | expired blockhashes, a crash after the send, conflicting outcomes |
| On-chain program `Contract/programs/predix-program` | markets, users, positions, order states | settle, split, merge, deposit, withdraw, claim | called by settlement and users | conservation, replay of a batch |
| Chain confirmation `chainconfirm/*.go` | subscriptions, waiters | subscribe, poll, resolve | websocket and RPC | a timeout racing a late answer |
| Confirm workers `{deposit,withdraw,market}confirm/*.go` | request rows | claim, wait, verify, publish | chain confirmation, AP_EVT | a crash between verify and publish |
| Pusher `pusher/*.go` | per-market state, client queues | fold, fan out | AP_EVT, WebSocket | slow clients, gaps |
| Bootstrap `bootstrap/*.go` | readiness flags | start in order, open the gate | all services | order of start |
| Snowflake ids `matching/snowflake.go` | last time, sequence | next id | | clocks that go back |
| Gateway, auth, cache, webhooks, faucet, bus client, Solana helpers, types, frontend | little or none of the protocol | | | |

### What makes each of them correct

* **Funds**: a batch's fills and a transfer are booked once, whatever is
  redelivered or replayed; a batch is paid out once and in one way; what is
  written to PostgreSQL is never half of an event; nothing acked is lost;
  every event is handled in the end.
* **Order book**: uncrossed, price-time priority, fills within what was signed,
  caches and published depth agree with the levels, a restart rebuilds it.
* **Matcher manager**: a command is applied once by a process, executed once
  overall, acked only when its effect is durable; the recovered cursor neither
  repeats nor skips.
* **Funds accounts**: every unit has an origin; an open order has locked what it
  needs; pending is what the batches in flight will bring; PostgreSQL and Redis
  follow, through failed flushes and crashes.
* **Writer**: once it has caught up, tables and Redis are what the matcher did.
* **Settlement**: one batch of a market at a time, in order; of a batch only the
  stored transaction can still execute; the verdict is the chain's and reaches
  the stream; a failure stops the market.
* **Chain confirmation**: a transaction that landed is handed to its waiter; a
  wait ends with "ok" only for a confirmed one.
* **Confirm workers**: a decided row has its verdict on the stream, a command is
  acked only when decided, every accepted submission is decided.
* **Pusher**: a browser that has seen the hub's number has the hub's state, and
  the hub's state is the matcher's.
* **Program**: shares and collateral are conserved, no order is overfilled.

## 2. Modules and the code they model

| module | models | composes |
|---|---|---|
| `FundsService` | event side of funds, projector, recovery | instantiates `FundsLedger` |
| `FundsLedger` | what funds promises about its durable balances | |
| `FundsServiceProofs` | theorems of `FundsService` | `FundsService` |
| `FundsReserve` | order entry in funds: submit, reserved and rejected handlers, pending and submit stores | |
| `FundsReserveProofs` | its theorems | `FundsReserve`, `ArithmeticProofs` |
| `OrderMath` | integer arithmetic of prices, lots, spend | |
| `ArithmeticProofs` | theorems of `OrderMath`, sums over finite sets | `OrderMath` |
| `OrderBook` | the book of one market | `OrderMath` |
| `MatcherActor` | consumer, actor, checkpoint loop, writer cursor, recovery | |
| `MatcherProofs` | theorems of `OrderBook` and of `MatcherActor` | `OrderBook`, `MatcherActor`, `ArithmeticProofs` |
| `FundsManager` | the amounts: accounts, dirty index, projection to PostgreSQL and Redis | `OrderMath` |
| `FundsManagerProofs` | its theorems | `FundsManager`, `ArithmeticProofs` |
| `Settlement` | the settlement service and the cluster it submits to | |
| `SettlementProofs` | its theorems | `Settlement` |
| `Confirmation` | what the router and the workers share: signatures, calls that fail | |
| `ChainRouter` | websocket shards, watches, waiters | `Confirmation`, instantiates `ConfirmWait` |
| `ConfirmWait` | what a waiter promises its caller | |
| `ChainProofs` | theorems of `ChainRouter`, the refinement of `ConfirmWait`, theorems of `ConfirmWorker` | `ChainRouter`, `ConfirmWorker` |
| `ConfirmWorker` | submit endpoints, the three confirm workers, market projector | `Confirmation`; takes the wait from `ConfirmWait` |
| `Writer` | delta and released consumers, tables, Redis models, rebuild | |
| `Pusher` | the hub of one market and the browser's feed | takes the read models from `Writer` |
| `ReadModelProofs` | theorems of `Writer` and of `Pusher` | `Writer`, `Pusher`, `ArithmeticProofs` |
| `MC...` | one instance for TLC of each module that has a run | |

The modules meet at the streams. What `OrderBook` publishes is what `Writer` and
`FundsManager` take as their environment; that an event is applied once, which
`FundsManager` takes for granted, is what `FundsService` shows; the wait inside
`ConfirmWorker` is the abstract one that `ChainRouter` implements; the read
models the pusher loads are the ones `Writer` keeps. The names of `ConfirmWorker`'s
specification begin with `Worker`, those of `Pusher`'s with `Feed`, so that one
module can prove about it and about `ChainRouter`, or `Writer`.

An operator whose comment begins with "Mutant:" is a plausible wrong version of
the definition after it. No specification uses it; `PROJECT.json` pairs it with
the property that must fail when the definition is replaced by it.

### FundsService

One batch or transfer is an identifier. The stream `log` holds the events funds
subscribes to; `Publish` lets a producer append any event once (JetStream's
deduplication), lifecycle events only after the execution they belong to, both
terminal outcomes allowed. Each consumer is a goroutine; `handler[g]` says which
message it works on and where it is. A handler is cut exactly where another
goroutine can look: the in-flight store, the parking place for early terminals
and the wallet shards have a mutex each, while `stateMu` is held as a *reader*
by every handler and as a writer only by the projector's capture. So
`handleMatchBatchMessage` is `BeginExecution` (check, register), `ApplyFill`,
`TakePendingTerminal`, possibly `AdvanceTo...` and `ApplyEffect`, then `Ack`;
`applyTerminal` is `AdvanceToTerminal`, `LookupAgain`, `AddPendingTerminal` or
`ApplyEffect`. `mem` is the process, `snap` what the projector has copied, `disk`
what PostgreSQL holds; `Capture`, `Flush`, `FlushFailed` are the projector.
`Crash` loads `disk` and replays the log from the checkpoint through the same
handlers (`Replay`), then `GoLive` writes once and starts the consumers.
Balances are abstracted to the one buy leg of a batch: one unit that goes
locked, pending, then shares or refunded USDC. The caps of the code (pending is
reduced by at most what is there) are kept, because an early terminal makes
them matter.

### FundsReserve

Order entry is a protocol funds runs with itself: the submit handler decides and
publishes, and two other goroutines consume what it published and move the
money. Each access to a store with a mutex of its own is a step: `Has` of the two
stores (`CheckSubmits`, `CheckPending`), `Snapshot` (`ReadBalance`), `Apply` with
the validation (`Validate`), `Publish`, `Mark` (`MarkPending`), `Ack`, and on the
other side `CheckBooked`, `ReserveOrder`, `Mark` and `Delete` in the order of the
branch taken. `PublishFails` covers both an event that was stored and one that was
not. One wallet with buy orders; what an order needs is a constant.

### OrderBook, OrderMath

A level is a sequence of orders (the linked list), `vol` its TotalVolume, `best`
the cached best bid and ask, `orders` the map. One command is several steps:
`PlaceOrder` starts the match, `SkipLevel`/`EnterLevel` walk prices, `DropMaker`
removes expired makers and makers of the same wallet, `FillMaker` trades,
`LeaveLevel` publishes depth, `Finish` rests, cancels the remainder and rescans
the best prices. Steps are separate so that consistency can be asked for at each
of them, not only between commands. Asks and bids, two loops in the code, are one
set of actions parameterised by the side. `status` and `depth` are what the
published updates say. The scale of prices is a constant (100 in the code).
`phase` is where `handlePlaceOrder` stands: looking at a price, at a maker, or past
the last price; `target` and `maker` are the loop's two cursors. `Commands` are any
orders that `ValidatePlaceOrderCommand` lets through (`BookAssumption`), an order's
id is the order of its arrival (`created_cmd_seq`), and `RestoreBook` builds the
queues by sorting the open orders of a price by it (`ByAge`).

The design has the actor handle commands and ticks one after the other ("actor
串行处理", `spec/new/2-hotpath-wal-inflight-redesign.md:301`), but `StartTickLoop`
calls the book from a goroutine of its own, without a lock. So `Tick` may come
between any two steps of a match. It changes the time under the match, and when it
removes the maker the loop points at, that order is recycled, an object of zeroes:
`FillRecycled` is the next iteration, which fills nothing, and whose
`removeAndRecycleMaker`, finding no neighbours, empties the level while its other
orders stay in the map and the volume. The tick's own batch is published once and
apart from the actor's: `told` is whether readers end up with it. They do not when
the publish fails, or when the actor's pending batch, with older updates of the same
orders, follows it. Three variables record what came of it: `ghosts` (orders the
table has open and no level holds, which `RestoreBook` brings back), `missed`
(readers were not told of a sweep) and `spoilt` (a sweep removed orders under a
match, or a restart brought swept orders back). The properties of the book hold
until it is spoilt, which is as much as the code keeps; section 4 has them without
the exception.

A sweep is one step between two iterations of the loop. Finer interleavings (a data
race inside an iteration, two goroutines writing one map, the recycled object
reused by another market while the loop still points at it) are not modelled, nor is the
fill of 0 lots with order id 0 that the recycled maker leaves in the batch. Readers
see the updates of a sweep as a whole or not at all, and a restart before the
actor's batch is published is one at an earlier point.

### MatcherActor

A command is the stream sequence number of its reserved event; what the book
does with it is whether it takes liquidity (`Taking`), closes with something to
release (`Closing`) or rests. `Deliver` is the consumer with its bounded channel
and its nak; `Receive`/`ReceiveSeen` the actor with its two duplicate checks;
`BeginFlush`, the publishes, their failures and `EndFlush` are `flushActorBatch`
(a failed publish may or may not have reached the server). A batch may be
flushed at any time, which covers every setting of its limits. The checkpoint
loop is `TakeSnapshot`, `SaveCursor` or `SaveFails`, `CompleteCheckpoint`. The
writer fetches deltas, projects them under its cursor test or naks. `Restart`
performs writer catch-up and `RecoverFromStore` in the order of the coordinator.

### FundsManager

The amounts behind `FundsService`, with the code's integer arithmetic and its
caps: `Reserve` locks what an order needs, rounded up; `ApplyMatchPending` is one
fill (`applyFillForOrder` for maker and taker); `Release` and `ReleaseAgain` are the
two ways the end of an order arrives; `Settle` is a terminal phase with the deltas
recomputed from the raw batch (`BatchDeltas`); `Transfer` a deposit or withdrawal.
The projector is `Capture`, `FlushPostgres` or `FlushFails`, `RefreshRedis` or
`RefreshFails`; `Crash` starts again from the rows. `ev` records which wallets met
one of the cases the code does not handle exactly: `netted` (both sides of one
batch), `strained` (filled before reserved, released twice beside another open
order, or reserves that round up by parts to more than the whole) and `short`
(amounts a cap did not find). The properties say what holds for the others and,
for `Accounted`, exactly how much the caps let go. `wired` tells a service with
databases from one without (both are in the code), so that the run can take
longer event sequences where nothing is projected.

### Settlement

Rows of `settlement_submissions` with their compare-and-set updates, the lanes in
memory, and one pending step per goroutine: ingress, prepare worker, scheduler,
`submitMatch`, `watchSubmission` per batch, reconciler (and `recoverState`),
terminal poller. `after` holds what a goroutine still has to do once its update of
the row was applied: publish, mark, free or pause the lane. A signature is named
by the height of its blockhash, since signing the same payload twice under one
blockhash gives one signature. The cluster produces blocks, executes a
transaction while its blockhash is valid, and may drop a processed one with its
fork. A batch is of a size that fits, or is found too large by the estimate or
when it is encoded.

Two failures can leave a submitted row without the lane of its market.
`tryFastForwardSubmitted` reports success although its update of the row failed
(`service.go:913-924`), and `recoverState`, which tries every submitted row once
(`tried`), then goes on with neither lane nor watch task (271-275): the second branch
of `ReconcileForward`. And when `MarkSubmittedCAS` is applied and only its reply is
lost, `submitMatch` frees the lane of a row that is now submitted (579-585): the third
branch of `SubmitMark`. `strayed` records the markets this happened to. The scheduler
may there claim the next batch while the first is still on its way, so
`LaneExclusive` and `SubmittedInOrder` speak of the other markets; what concerns
signatures, verdicts and progress holds in all of them (the reconciler comes back
to such a row).

### ChainRouter, ConfirmWait

A watch per signature, shards with their connection and the requests that are
unanswered, live or refused, the subscriber's channel, and `WaitForConfirmed` as a
sequence of steps: status call, subscribe, wait, deadline, unsubscribe, poll.
`Unsubscribe` is cut between its look at the shard and the close. Subscription ids
are left out: `onNotification` looks an id up in every shard, and the model hands a
notification to the watch it is about. `ConfirmWait` leaves all this out: a wait ends "ok" only for a confirmed transaction.

### ConfirmWorker

Three packages of one shape. The gateway stores the row and publishes the command;
`HandleLoad` and `HandleStart` are `handleMessage`, cut between the row it loads
and the active set it looks at; the task marks, waits, verifies, publishes and
marks again, each a step that can fail and be retried. `Restart` runs
`recoverActive`. `ProjectMarket` and `ResolveCreator` are the markets table.

### Writer

The matcher is the environment: any command of a small set of orders is one batch.
`HandleDelta` is the transaction with the cursor test, `FinishDelta` the Redis
models and the ack, `HandleReleased` the other consumer. A crash keeps tables and
Redis; `Start` deletes and rebuilds every Redis key, then catches up. A batch
carries the second it was frozen in (`sec`), which does not go back and which several
batches may share. The rebuild orders the trades by it and by nothing else, so trades
of one second come in any order and any of them may be cut by the limit. `applied`
and `synced` are history variables for what was committed and what Redis shows.

### Pusher

An event is a number that sets levels and trades once. `LoadOrderbook` and
`LoadTrades` are the load from Redis under `loadMu`. Each read may fail, and then
gives what the fallback has, an empty book or list, and `loaded` is set for good all
the same; `blind` is the events the hub was not sent and the load has not read.
`ApplyMatchEvent`, `CopyRoom`
and `Cast` the NATS callback, the rest one websocket: register, snapshot, drain,
write pump, unregister, and the browser's `onmessage` and reconnect.

## 3. Runs

A property of a run is often a conjunction of named parts, each with a comment of
its own in the module.

| run | instance | shows |
|---|---|---|
| `funds_recovery` | 1 batch with all four events, 1 crash, 1 fault | `BatchOnce` (fills once, paid once and one way), `SnapshotSound`, `FirstTerminalWins`, `FundsService` implements `FundsLedger`, every event is handled |
| `funds_transfers` | deposit, withdrawal, release, 1 crash, 1 fault | `IndInv`, the inductive invariant of the proofs, where several consumers move one `evtSeq` |
| `funds_reserve` | 3 orders of a wallet in 2 markets, 1 deposit, 1 fault | `ReservesAgree`, `LockedOnce`, every command is decided |
| `funds_manager` | 4 orders of 2 wallets, 2 batches of up to 2 fills, a withdrawal, 4 events (2 with databases), 1 fault, 1 crash | `Accounted`, `OrdersBacked`, `PendingBacked`, `NoChangeLost`, PostgreSQL and Redis converge |
| `order_book` | 3 orders out of 11 kinds, prices 1..3, 3 times, sweeps between any two steps, their updates lost or not | `BookSound`, `FillsFair`, `BookPublished`, a restart keeps the book, every match ends |
| `matcher_actor` | 2 commands, channel of 1, 1 fault, 1 crash | `NothingUnpublished`, `CheckpointSound`, every reserved event is acked |
| `settlement_lanes` | 2 batches of a market that share an order, 1 fault (a crash, a call that fails, a reply that is lost) | `LaneExclusive`, `PreparedSoundly`, `SubmittedInOrder` |
| `settlement_expiry` | 1 batch, 3 block heights, blockhashes valid for 1 block, 2 faults | `OnlyStoredSignatureLive`, `VerdictAgrees`, `SettlementProceeds` |
| `chain_router` | 2 waiters on 1 shard, 1 fault | `RouterSound`, `LandedIsHanded`, `ChainRouter` implements `ConfirmWait` |
| `confirm_worker` | 1 signature of any kind, 3 faults | `DecisionsKept`, every accepted submission is decided, confirmed markets are projected |
| `writer` | 3 orders, 3 batches of the same second or later ones, 2 faults, a list of 1 recent trade | `RowsCaughtUp`, `RedisSound`, every delta and release is acked |
| `pusher` | 2 connections of a browser, 2 events, 1 lost, a queue of 1, reads that fail | `FeedSound`, `HubSound`, the browser catches up |

### Bounds, and why they are enough

* Crashes and faults (a lost ack, a failed flush, publish or transaction) are
  counted and bounded, mostly by 1. One of each meets every guard that tells a first
  from a second time, and section 5 removes these bounds for every model.
* One batch suffices for funds' safety, since batches share nothing but `evtSeq`
  and the snapshot; `funds_transfers` has several consumers that move the same
  `evtSeq`. Three orders, two of them in one market, are what the pending
  aggregate and the shared balance need. Two commands are what overtaking and a
  batch that grows between two publishes need.
* The orders of `funds_manager` cover a limit and a market buy in one wallet, a
  sale and a NO order in the other, with ticks that round in quarters; four events
  are reserve, fill, end and settlement, or two reserves and two fills.
* Two batches are what a lane needs to be taken twice or overtaken; they share an
  order because a batch is built with what earlier ones left on chain. Three
  heights let a signature expire and be replaced; two faults let a crash be followed
  by the failed update in `recoverState`. (That a successor expires again is left to the
  theorem, which has no bound on heights.)
* Two waiters on one shard are what closing a shard under another one needs. One
  signature is enough for the confirm workers, which keep no state across
  signatures but the message being handled. Three batches of three orders let a
  delta be overtaken, an order be filled twice, and the recent trades be trimmed. A list of one is where a tie in time
  cuts the last trade; that a longer list shows a trade once is left to the theorem.
  Two connections are what a reconnect needs; a queue of one overflows.
* Three orders of the book are two makers, behind each other or at two prices, and a
  taker that meets both, with a sweep before, between and after.
* Prices 1..3 (scale 4) give a best price, one better and one worse, with a NO
  order that maps onto them; quantities of 1 and 2 give partial fills; a scale
  other than 100 is harmless because the book and its arithmetic are proved for every scale.
* Deadlock is checked where the model can always take a step (the book, the
  accounts, the router). The other models stop when every event has been handled
  and the bounds are used up, as the services then wait for messages.
* Symmetry is used for the batches of `settlement_lanes`, which are
  interchangeable and whose properties are no liveness properties.

### Fairness

`FundsService!Fairness` is weak fairness of each fetch loop, each handler's next
step, the replay and the start: goroutines that never block for ever, fetches
that time out, mutexes held for the length of a handler. Producers, projector,
faults and crashes owe nothing. `OrderBook!FairBookSpec` is weak fairness of the
matching loop's own steps: it is one goroutine's code. `MatcherActor!FairSpec`
has weak fairness of the actor, the checkpoint loop and the ack wait; delivery
has strong fairness of "this event finds room in the channel", because the nak
delay makes JetStream offer the event again and again while the actor keeps
draining, and a model with only weak fairness would allow an event to arrive at
a full channel every single time. `FundsReserve!FairSpec` is weak fairness of the
three handlers' own steps, `FundsManager!FairSpec` of the projector's ticker and of
the end of a batch being applied. `Settlement!Fairness` is weak fairness of each
goroutine and ticker and of the restart by the supervisor, and strong fairness of
republishing: a tick that finds the publish failing is followed by others. The
cluster owes the execution of a transaction it has, while its blockhash is valid,
and no blocks. `ChainRouter` has weak fairness of a call's own steps, the shard's
goroutine, and the server's answer to a live subscription; deadlines, polling and
faults owe nothing, so that `LandedIsHanded` is about the subscription alone.
`ConfirmWorker` has weak fairness of the task, the handler, the projector, the ack
wait and the restart, and strong fairness of fetching, because a command that is
nak'd while its task runs comes back after the delay. `Writer` and `Pusher` have
weak fairness of their goroutines; the matcher, losses and faults owe nothing.

## 4. Stated, and not kept by the code

The modules state these as well, in the words of a document or a comment. TLC
finds a counterexample to each when its name is put into the module's
configuration; no run repeats it. Of the modules with two configurations,
`AckedSurvives` and `ReleasedOnce` fail under `FundsTransfers.cfg`,
`TerminalReachesBatch` and `SettledPendingCleared` under `FundsRecovery.cfg`,
`ReplacedNeverExecuted` under `SettlementExpiry.cfg`. `LaneNeverStalls` needs
fairness and two batches: `SettlementLanes.cfg` with `SPECIFICATION Spec` in place
of `INIT` and `NEXT`, without `SYMMETRY`, and `MaxFaults = 0`.

| property | what the code does | what is said |
|---|---|---|
| `FundsService!AckedSurvives` | `evtSeq` is a maximum over consumers; a deposit acked after a checkpoint that is already past it is lost in a crash (1 batch, 1 deposit, 1 crash) | `funds/service.go:118`: "从 AP_EVT 回放 checkpoint 之后的缺口" |
| `FundsService!TerminalReachesBatch` | a terminal is parked just after its batch has looked for it, and stays parked | `spec/new/4-funds-development.md:553-564`: the batch detects and applies it |
| `FundsService!SettledPendingCleared`, `ReleasedOnce` | a terminal between registration and fills; a release delivered twice | |
| `FundsReserve!ReservedIsLocked` | orders in two markets are both validated against the whole balance (2 orders, 2 markets, balance 1) | `spec/new/5-phase4-6-delivery.md:290` |
| `FundsReserve!PendingCleared` | the reserved event is published before `Mark` | |
| `FundsManager!ReleaseIsIdempotent` | a second release unlocks another open order's money | the comment of `handleOrderReleasedMessage`, `funds/service.go:958` |
| `FundsManager!SettledPendingCleared` | a wallet on both sides of a batch keeps something pending | |
| `OrderBook!AlwaysConsistent`, `AlwaysPublished` | a sweep during a match recycles the maker under the loop, and the orders behind it are in the map and in no level (2 makers, a taker, 1 tick) or the updates of a sweep are lost or overtaken; `matching/manager.go:722-746` | `spec/new/2-hotpath-wal-inflight-redesign.md:301`: "actor 串行处理" |
| `OrderBook!RestartAlwaysKeepsBook` | an order whose end was swept but not published is open in the table and comes back (1 order, 1 tick, 1 restart; `manager.go:739-741`) | |
| `OrderBook!TickClearsExpired` | a sweep looks at the head of a level only | `matching/types.go:164` |
| `MatcherActor!AckedIsHandled` | a nak'd command that a later one has passed is dropped (3 commands, no fault) | `matching/manager.go:148`: "enables backpressure control" |
| `MatcherActor!ExecutedOnce` | one execution under two event ids, after a failed publish | `spec/new/4-funds-development.md:339` relies on the id |
| `MatcherActor!NothingSkipped` | a nak'd delta that a later one has passed is never projected (channel of 2) | `spec/new/0-redesignproduct.md:38`: the cursor is there against duplicates |
| `MatcherActor!AckedIsPublished`, `BookComplete`, `ReleaseIsPublished` | a duplicate acked while its first is pending; a catch-up that ends early; a release whose publish failed | `spec/old/7-crash-recovery-perfect-startup-and-cold-boot-order.md:341` for the first |
| `Settlement!LaneNeverStalls` | the reconciler takes the lane for a row the watch task has processed meanwhile (2 batches, no fault) | `spec/modify/1-devnet-settlement-fast-send-without-matcher-change.md:25`: "不会卡死 lane" |
| `Settlement!AlwaysOneSubmitted`, `AlwaysSubmittedInOrder` | an update of `recoverState` that fails, or a reply to `MarkSubmittedCAS` that is lost, leaves a submitted row without the lane, and the next batch is submitted beside it (2 batches, 1 fault; `service.go:271-275`, `579-585`, `913-924`) | |
| `Settlement!ReplacedNeverExecuted` | the old signature is not looked at again before it is replaced | `spec/new/3-settlement-development.md:21` |
| `ChainRouter!EveryWaiterHanded` | a watch joined after its cached result expired is not subscribed | |
| `ConfirmWorker!OneVerdict` | expired, the row not marked, then confirmed on retry | |
| `ConfirmWorker!ResolvedStays` | a redelivered evt.market.confirmed saves a resolved market as open | |
| `Writer!LastTradeShown` | the rebuild orders by a time of whole seconds and cuts the last trade among those of its second (`writer.go:892-902`) | |
| `Writer!NewestFirst`, `InitialQty`, `ClosedStays` | the rebuilt list is upside down; the quantity left is stored as the initial one; a delta opens a released row for a while | |
| `Pusher!NoPanic` | a send on the channel of a connection unregistered meanwhile | `spec/old/4-writer-pusher-redis-websocket-redesign.md:893`: one slow client must not bring down the room |
| `Pusher!DepthAlwaysConverges`, `LoadReadsDepth`, `PointsOnce` | a lost hot event is noticed by nobody, nor is a read that fails (`redis_query_engine.go:36-38`, `pusher/market_state.go:65-126`); price points are appended without a test | |

## 5. Proofs

Every theorem below is about every value of the constants that meets the
assumption of its module: any sets of orders, batches, markets, signatures and
shards, any scale of prices, any bound on faults, crashes and commands. The
assumptions are the types of the constants, with four more things: no signature is
both a deposit's and a withdrawal's, `NoBatch` and `NoSig` name nothing, the orders
of `OrderBook` have the fields that validation demands (a market buy has money, any
other order has lots), and the sets that a module adds over are finite: the orders
in `FundsReserve`, `Writer` and `FundsManager`, and the batches and transfers in
`FundsManager`.

A safety property is hardly ever inductive. Each proof module states the stronger
invariant first, proves that the initial state has it and that every action keeps
it (one lemma per action), and gets the properties from it.

| theorems | module | inductive invariant |
|---|---|---|
| `BatchOnceHolds`, `SnapshotSoundHolds`, `RawUntilTerminalHolds`, `FirstTerminalWinsHolds`, `LedgerImplemented` | `FundsServiceProofs` | `IndInv` |
| `ReserveTypeCorrect`, `LockedOnceHolds`, `ReservesAgreeHolds` | `FundsReserveProofs` | `ReserveInv`, `BooksInv` |
| `LaneExclusiveHolds`, `PreparedSoundlyHolds`, `OnlyStoredSignatureLiveHolds`, `VerdictAgreesHolds`, `SubmittedInOrderHolds` | `SettlementProofs` | `SettlementInv` |
| `AccountedHolds`, `OrdersBackedHolds`, `PendingBackedHolds`, `NoChangeLostHolds` | `FundsManagerProofs` | `ManagerInv` |
| `RouterSoundHolds`, `PromiseKept` | `ChainProofs` | `RouterInv` |
| `DecisionsKeptHolds` | `ChainProofs` | `WorkerInv` |
| `BookSoundHolds`, `FillsFairHolds`, `BookPublishedHolds`, `RestartKeepsBookHolds` | `MatcherProofs` | `BookInv` |
| `NothingUnpublishedHolds`, `CheckpointSoundHolds` | `MatcherProofs` | `ActorInv` |
| `RowsCaughtUpHolds`, `RedisSoundHolds` | `ReadModelProofs` | `WriterInv` |
| `HubSoundHolds`, `FeedSoundHolds` | `ReadModelProofs` | `FeedInv` |
| `SpendBuysALot`, `SpendIsExhausted`, `AffordableIsFewer` | `ArithmeticProofs` | none: arithmetic |

**Funds, events.** `FillsOnce` needs to know that exactly the goroutine at step
"fill" owes the fills of a registered batch (`FillsInv`); `PaidOnce` that the phase
is taken before the money moves and by one goroutine only (`PayoutsInv`); the
snapshot that no handler is between its first change and its ack while the
projector copies, so that the copy is `Settled`; and the refinement of
`FundsLedger` that the process *continues* the snapshot, which continues the disk
(`Continues`), so that a write never takes money back and a crash returns to a
point on the same path. `IndInv` is the conjunction of these with `TypeOK` and
`HandlersInv`, and also a property of a run.

**Funds, order entry.** `LockedOnce` needs that `ReserveOrder` is only reached for
an order not decided yet (`MoveIsFresh`), and that a decided order is in the submit
store or its handler has still to put it there (`Decided`). For the sums,
`NotPending` is what makes `Mark` add an order that is not yet in the aggregate:
between the look at the pending store and `Mark` nobody else marks it. Then each
step changes at most one term of each sum.

**Funds, accounts.** `Good(a, e)` says that the accounts `a` are right after the
events `e`, for each wallet and asset: available, locked and pending together are
what the wallet started with, plus its transfers, plus what the batches that stand
brought it, plus what a clamp did not find (`Balanced`); pending is at least what
the batches in flight will bring, and exactly that for a wallet never on both sides
of one (`Covered`); locked is what the open orders need (`Backed`). The first half
of `Covered` also holds for the wallets `PendingBacked` leaves out; it is what
makes `Transferable` the whole delta, so that confirming or failing a batch takes
no part of another one. `OrdersBacked` rests on two arithmetic lemmas. The cost of
a fill is at most the reserve of its lots, since the fill is at the limit or
better and division is monotone (`CostMonotone`, `ReserveCovers`). And the locked
money covers that reserve, since it is one term of the sum of what the open orders
need (`NeededBounds`). Two more parts make the invariant inductive: nothing was filled of
an order before it was reserved, or the wallet is strained (`Untouched`), and a
batch without a phase has no fills (`Unstarted`). The proof has three layers: what
each method of the manager does to one account, what each event does to the
sums, and what both together do to `Good`.

`Good` is a predicate of accounts and events, not of the state, because
`ManagerInv` claims it three times: of the shards, of what the projector has
captured, and of what Postgres holds. The third is why a crash keeps it: recovery
takes the rows, and with `Projected` the rows are all of one capture. `Projected`
relates the three: only a dirty row of the shards can differ from the newest
capture, and only a row of that capture can differ from it in the databases. A
failed flush is then harmless, because it puts exactly the rows of the second kind
among those of the first (`AbandonedKeeps`).

**Settlement.** The lane is memory, the row is a table, the transaction is on a
chain, and four kinds of goroutine hold copies of the signature. `LanesHeld` says
of every market that has not `strayed` that a batch which is submitted, or about to
be, holds its lane or finds it paused, and while the reconciler runs that all it finds in a market belongs to one
batch; `SignaturesKnown` that every signature anybody knows is the stored one or
expired, from which `OnlyStoredSignatureLive` follows; `TasksBacked` and
`ConfirmedFinal` that a goroutine with work left finds its row where it left it;
`OrderKept` that a prepared row has no earlier queued one, from which the action
property `SubmittedInOrder` follows; `FailureHeld`, `DownHoldsNothing`,
`RegistryTrue`, `FetchedOnce` and `RowsShaped` carry the restart. The proof first
shows what each repository update may do to a row, then that every kind of such
steps keeps each part, and then that each of the actions is such steps.

**Chain router.** `SubscribedUpstream` needs `WatchesOwned` (a watch has a
subscriber only while its waiter is between `SubscribeSignature` and its deferred
unsubscribe). `ResultsTrue` (a cached or delivered result is the transaction's)
gives the refinement: every step of `ChainRouter` is a step of `ConfirmWait` or
leaves its variables alone.

**Confirmation workers.** `TasksBacked` says that a task about to write a row has
its verdict on the stream and one about to publish a confirmation has verified the
transaction; `EventsPublished` the same of the market projector.

**Order book.** `BookInv` is kept by every single step of a match, and by sweeps
between them, until the book is `spoilt`: the theorem is BookSpec => [](~spoilt => BookInv),
with `spoilt` never taken back (`SpoiltStays`). A sweep between two steps of a match
then removes nothing and only moves the time (`TimeMovesInv`), so the maker under the
loop is where it was (`NotRecycled`) and `FillRecycled` cannot happen. `Structure` says
that each level is `Queued` (its orders have the side and price of the level, which
are the normalized ones of what was signed; they stand in order of arrival with lots
left), that volumes are sums, that an order stands in one level only, and that the
Orders map is the set of all of them. `Matching` says how far the match has come: no
order stands at a price better than the one the loop is at (`NoneBefore`), the maker
under the loop is the head of its level (`LoopAtHead`), and when the loop has run past
the last price the whole side is empty. `BestKnown` holds of the side the match
does not touch, and of both between commands: `Finish` may scan for the
new best price from where the loop stopped because of `NoneBefore`. `Uncrossed` needs
the same fact when the taker rests, since what is left is worse than its price
(`NothingToTrade`). That the loop stands at the head is what time priority comes
from, and it needs that a fill which leaves the maker with lots fills the taker
(`MatchQtyFacts`). For a market buy that is the arithmetic: the money buys at
least a lot, fewer than the maker has, and these lots cost all of it
(`SpendBuysALot`, `AffordableIsFewer`, `SpendIsExhausted`). `WithinLimit` takes the
normalization back, so that a NO order is within what its owner signed. The restart
property is `ByAgeOfQueue`: a queue whose ids rise is the same queue when its orders
are sorted by id, position by rank. The sums of a level are `SumOver` the set of its
orders, so no induction over a sequence is needed.

**Matcher.** `AppliedIsSeen` (what is applied is covered by the duplicate tests),
`FlushShaped` (how far the flush has come with the pending batch) and
`CheckpointShaped` (everything between staging and completion is `Safe`: published
and behind the process).

**Writer.** `Final(n, o)` says that delta n is the last one about order o.
`BookIsLast` ties it to the book, `RowsFollow` and `RedisFollows` say that the row
and the entries of an order are right as soon as the final delta about it is
committed, or is in Redis. That is why a released event that comes early, and the
older deltas that open the row again after it, do no harm: the final delta is
still to come. `OneAtATime` says that the delta whose Redis update is due is the
one at the cursor, so that what is in Redis is older. `DepthIsLast` and
`DepthFollows` tie the depth to sums over the orders, `TradesFollow` and
`RecentFollows` the trades to the deltas that are committed, or in Redis. Of the
list of recent trades that is one of the last second, and it rests on times that do
not go back from batch to batch (`ProducedAt`).

**Pusher.** `HubSound` needs that hot events come in order, each later than the
last number the hub gave (`HotOrdered`). Then `DepthTracks`: a level of a loaded hub
is right, unless the last event that sets it still waits or is `blind`; and when it
is right, no waiting event touches it. The load makes this true however old the
read models are, because until the load every event waits or is blind
(`LoadSound`). A read that fails is one of event 0: every event since that is not
waiting is blind. That an event already in the read models may be handled after the
load does no harm to a level with a later event: that event waits, too.

`FeedSound` compares a browser with a hub that has moved on since, so `StreamInv(V)`
takes the hub's past as a parameter: `V[s]` is its view at number s. Every message
on its way `Says` what the hub did: a snapshot is some `V[s]`, a delta leads from
`V[s - 1]` to `V[s]`, and the browser shows one `V[s]`. What is left is that none
is skipped. `Queue(k)`, the channel with the deltas still to be sent from the
goroutine, is `Linked`: each delta is at most one ahead of the message before it, the first
at most one ahead of the browser, unless it is a snapshot. The deltas that wait in
`pending` are the last ones offered, without a hole, and what is before them is at
most what the queue reaches (`NoGap`); so the ones the snapshot does not have are
the end of `pending` (`NewerEnd`), and continue the queue. `Phase` says which of
these are empty at which step of the goroutine, and that only the browser's last
connection is open. The loop of `finishMarketBootstrap` is where this is needed:
`bootstrapping` is only cleared when `pending` is empty under its mutex. A full
queue drops a message, but closes the connection with it, so nothing after the gap
is taken. The invariant is \E V : StreamInv(V), and only `ApplyMatchEvent` and
`LoadTrades` need another V.

**Sums.** `ArithmeticProofs` also holds the facts about sums over finite sets that
the two books of the order entry and the depth of the writer need: there is one
(`SumExists`), it is unique (`SumUnique`), what one more term does (`SumOverAdd`,
`SumOverChange`), and that `MapThenSumSet` and `FoldFunction` of the community
modules compute it (`SumOfMap`, `SumOfFold`). The provers cannot instantiate an
induction theorem that takes a predicate; the proofs take a smallest set that is a
counterexample instead, which exists because the strict subset order of finite
sets is well founded.

TLC has checked every one of the inductive invariants on the instances of the
runs as well, with sums evaluated by `MapThenSumSet`, since `SumOver` is a CHOOSE
of a function that TLC cannot enumerate, without the types of sequences, and with
the past of the hub as a history variable in place of \E V.

Only model-checked:

* all liveness, `MatchEnds` of the book included: `WF_` is built on ENABLED, which
  the prover cannot reason about.

## 6. Not modelled

* Byte formats, signatures, HTTP handlers, logging, metrics, configuration.
* The registries of on-chain accounts in the matcher and the size estimate that
  limits a batch: they decide only when a batch is flushed.
* `HaltMarketCommand` has no producer in the repository; the action is kept in
  `OrderBook` because the book implements it. `expireOrdersAtRecovery` is never
  called and therefore is not part of `RestoreBook`.
* Two processes of one service at once: every service runs as one process.
* The on-chain program: Solana runs its instructions one by one, and the backend
  sees only whether a transaction executed. Its arithmetic is a component of its
  own, in Rust.
* In settlement: the encoding of transactions, address tables, the planner's size
  estimate (its verdict is a choice), the update of `failBeforeSubmit` failing, and
  lost replies to updates other than `MarkSubmittedCAS` (of `MarkFailed...` and
  `MarkProcessedCAS` they leave the lane unpaused or held, of `UpsertQueuedBatch` the
  market off the prepare list until a restart). In a strayed market two runs of
  `submitMatch` for one batch count as one.
* In the pusher: user rooms, tickets, pings, the limits of the trade and price
  lists. In the writer: the position and lock tables, which no live path writes.
* In the funds accounts: several markets (positions are per market, and
  `FundsReserve` has two).
* Bootstrap and snowflake ids: a sequence of start calls and a flag; a mutex
  around a clock. Authentication, faucet, webhooks, caches, queries: storage and
  cryptography without a protocol of their own.
* The components marked `not_modelled` in `PROJECT.json`, with their reasons.

## 7. Plan

The on-chain program's `settle_match_batch` over small integers is the one piece of
core logic without a module.
