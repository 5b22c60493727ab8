---------------------------- MODULE FundsReserve ----------------------------
(***************************************************************************)
(* Order entry in the funds service (funds/service.go, pending_reserve.go, *)
(* submit_store.go): handleSubmitMessage validates a command against the   *)
(* wallet and publishes evt.order.reserved or evt.order.reserve_rejected,  *)
(* and the service consumes these two events itself to move the money.     *)
(* The three handlers run on goroutines of their own; what they read and   *)
(* write is guarded by one mutex per store, so every access is a step.     *)
(*                                                                         *)
(* One wallet with buy orders in several markets (requiredReserveUnits is  *)
(* the constant Need).  A restart is not modelled here: FundsService has   *)
(* the recovery.  Names are the source's.                                  *)
(***************************************************************************)
EXTENDS Integers, FiniteSetsExt, Sequences

CONSTANTS Orders,      \* submitted commands
          Markets,
          MarketOf,    \* MarketOf[o]: the market of order o
          Need,        \* Need[o]: requiredReserveUnits of order o
          Balance,     \* the wallet's available USDC at the start
          MaxDeposits, \* bound on deposits of one unit
          MaxFaults    \* bound on lost acks and failed publishes

ASSUME ReserveAssumption ==
    /\ IsFiniteSet(Orders)
    /\ MarketOf \in [Orders -> Markets] /\ Need \in [Orders -> Nat \ {0}]
    /\ Balance \in Nat /\ MaxDeposits \in Nat /\ MaxFaults \in Nat

VARIABLES
    queue,     \* cmd.order.submit messages not acked
    evts,      \* the reserved and rejected events of AP_EVT
    unacked,   \* positions in evts not acked by funds' own consumers
    avail, locked,   \* AvailableUSDC and LockedUSDC of the wallet
    submits,   \* SubmitStore: the commands that are decided and booked
    pending,   \* PendingReserveStore.bySubmit
    agg,       \* PendingReserveStore.byWalletPos: the sum per market
    sub,       \* the submit handler: its order, step, and the balance it read
    own,       \* own[k]: the handler of events of kind k: its position and step
    locks,     \* locks[o]: how often order o was locked
    failed,    \* orders whose lock failed although they were reserved
    deposits, faults

stores == <<avail, locked, submits, pending, agg, locks, failed>>
vars == <<queue, evts, unacked, stores, sub, own, deposits, faults>>

Kinds == {"reserved", "rejected"}
IdleSub == [at |-> "idle", seen |-> 0]
IdleOwn == [at |-> "idle", pos |-> 0]
SubSteps == {"has", "hasPending", "read", "validate", "reserved", "rejected", "mark", "ack"}
OwnSteps == {"check", "move", "delete", "mark", "ack"}

Init ==
    /\ queue = Orders /\ evts = <<>> /\ unacked = {}
    /\ avail = Balance /\ locked = 0
    /\ submits = {} /\ pending = {} /\ agg = [m \in Markets |-> 0]
    /\ sub = IdleSub /\ own = [k \in Kinds |-> IdleOwn]
    /\ locks = [o \in Orders |-> 0] /\ failed = {}
    /\ deposits = 0 /\ faults = 0

Floor(a, b) == IF a > b THEN a - b ELSE 0

-----------------------------------------------------------------------------
(* PendingReserveStore *)

Mark(o) ==
    /\ pending' = pending \union {o}
    /\ agg' = [agg EXCEPT ![MarketOf[o]] = @ + Need[o]]

Delete(o) ==
    IF o \in pending
    THEN /\ pending' = pending \ {o}
         /\ agg' = [agg EXCEPT ![MarketOf[o]] = Floor(@, Need[o])]
    ELSE UNCHANGED <<pending, agg>>

-----------------------------------------------------------------------------
(* handleSubmitMessage *)

\* The handler goes on with its order at the given step.
Then(step) == sub' = [sub EXCEPT !.at = step]

Fetch(o) ==
    /\ sub.at = "idle" /\ o \in queue
    /\ sub' = [at |-> "has", seen |-> 0, order |-> o]
    /\ UNCHANGED <<queue, evts, unacked, stores, own, deposits, faults>>

\* Has of the two stores, one after the other.
CheckSubmits ==
    /\ sub.at = "has"
    /\ Then(IF sub.order \in submits THEN "ack" ELSE "hasPending")
    /\ UNCHANGED <<queue, evts, unacked, stores, own, deposits, faults>>

CheckPending ==
    /\ sub.at = "hasPending"
    /\ Then(IF sub.order \in pending THEN "ack" ELSE "read")
    /\ UNCHANGED <<queue, evts, unacked, stores, own, deposits, faults>>

\* Manager.Snapshot.
ReadBalance ==
    /\ sub.at = "read"
    /\ sub' = [sub EXCEPT !.at = "validate", !.seen = avail]
    /\ UNCHANGED <<queue, evts, unacked, stores, own, deposits, faults>>

\* PendingReserveStore.Apply, for the order's own market, and
\* validateReserveAgainstSnapshot.
Validate ==
    /\ sub.at = "validate"
    /\ Then(IF Floor(sub.seen, agg[MarketOf[sub.order]]) >= Need[sub.order]
            THEN "reserved" ELSE "rejected")
    /\ UNCHANGED <<queue, evts, unacked, stores, own, deposits, faults>>

\* PublishJSON with the command's idempotency key as MsgId, for either event:
\* the stream keeps the first of them.
Stored(kind) ==
    IF \E i \in DOMAIN evts : evts[i].order = sub.order
    THEN UNCHANGED <<evts, unacked>>
    ELSE /\ evts' = Append(evts, [kind |-> kind, order |-> sub.order])
         /\ unacked' = unacked \union {Len(evts) + 1}

Publish ==
    /\ sub.at \in Kinds
    /\ Stored(sub.at)
    /\ Then(IF sub.at = "reserved" THEN "mark" ELSE "ack")
    /\ UNCHANGED <<queue, stores, own, deposits, faults>>

\* Mutant: the command is acked whatever became of the event.
PublishFailsAcked ==
    /\ sub.at \in Kinds /\ faults < MaxFaults
    /\ faults' = faults + 1
    /\ Stored(sub.at) \/ UNCHANGED <<evts, unacked>>
    /\ Then("ack")
    /\ UNCHANGED <<queue, stores, own, deposits>>

\* An error, whether or not the event was stored: the command is nak'd.
PublishFails ==
    /\ sub.at \in Kinds /\ faults < MaxFaults
    /\ faults' = faults + 1
    /\ Stored(sub.at) \/ UNCHANGED <<evts, unacked>>
    /\ sub' = IdleSub
    /\ UNCHANGED <<queue, stores, own, deposits>>

MarkPending ==
    /\ sub.at = "mark"
    /\ Mark(sub.order)
    /\ Then("ack")
    /\ UNCHANGED <<queue, evts, unacked, avail, locked, submits, own, locks, failed,
                   deposits, faults>>

AckSubmit ==
    /\ sub.at = "ack"
    /\ queue' = queue \ {sub.order}
    /\ sub' = IdleSub
    /\ UNCHANGED <<evts, unacked, stores, own, deposits, faults>>

AckSubmitLost ==
    /\ sub.at = "ack" /\ faults < MaxFaults
    /\ faults' = faults + 1
    /\ sub' = IdleSub
    /\ UNCHANGED <<queue, evts, unacked, stores, own, deposits>>

-----------------------------------------------------------------------------
(* handleReservedMessage and handleReserveRejectedMessage *)

OrderOf(k) == evts[own[k].pos].order

Step(k, step) == own' = [own EXCEPT ![k].at = step]

\* Any event not acked: one whose ack was lost comes back later.
FetchOwn(k) ==
    /\ own[k].at = "idle"
    /\ \E i \in unacked :
          /\ evts[i].kind = k
          /\ own' = [own EXCEPT ![k] = [at |-> IF k = "reserved" THEN "check" ELSE "delete",
                                        pos |-> i]]
    /\ UNCHANGED <<queue, evts, unacked, stores, sub, deposits, faults>>

\* Mutant: the second delivery is not recognised.
CheckBookedNever ==
    /\ own["reserved"].at = "check"
    /\ Step("reserved", "move")
    /\ UNCHANGED <<queue, evts, unacked, stores, sub, deposits, faults>>

\* A reserved event that is booked already only clears the pending entry.
CheckBooked ==
    /\ own["reserved"].at = "check"
    /\ Step("reserved", IF OrderOf("reserved") \in submits THEN "delete" ELSE "move")
    /\ UNCHANGED <<queue, evts, unacked, stores, sub, deposits, faults>>

\* Mutant: LockedUSDC is set to the reserve, not raised by it.
ReserveOrderOverwrites ==
    LET o == OrderOf("reserved")
    IN  /\ own["reserved"].at = "move"
        /\ IF avail >= Need[o]
           THEN /\ avail' = avail - Need[o] /\ locked' = Need[o]
                /\ locks' = [locks EXCEPT ![o] = @ + 1]
                /\ Step("reserved", "mark")
                /\ UNCHANGED failed
           ELSE /\ failed' = failed \union {o}
                /\ Step("reserved", "delete")
                /\ UNCHANGED <<avail, locked, locks>>
        /\ UNCHANGED <<queue, evts, unacked, submits, pending, agg, sub, deposits, faults>>

\* Manager.ReserveOrder. A failure is logged: the event is out, and the order
\* with it.
ReserveOrder ==
    LET o == OrderOf("reserved")
    IN  /\ own["reserved"].at = "move"
        /\ IF avail >= Need[o]
           THEN /\ avail' = avail - Need[o] /\ locked' = locked + Need[o]
                /\ locks' = [locks EXCEPT ![o] = @ + 1]
                /\ Step("reserved", "mark")
                /\ UNCHANGED failed
           ELSE /\ failed' = failed \union {o}
                /\ Step("reserved", "delete")
                /\ UNCHANGED <<avail, locked, locks>>
        /\ UNCHANGED <<queue, evts, unacked, submits, pending, agg, sub, deposits, faults>>

\* The pending entry is deleted and the command marked as decided: in this
\* order, but the other way round after a successful ReserveOrder.
Booked(k) == k = "reserved" /\ OrderOf(k) \in submits

DeletePending(k) ==
    /\ own[k].at = "delete"
    /\ Delete(OrderOf(k))
    /\ Step(k, IF Booked(k) THEN "ack" ELSE "mark")
    /\ UNCHANGED <<queue, evts, unacked, avail, locked, submits, sub, locks, failed,
                   deposits, faults>>

MarkSubmit(k) ==
    LET moved == k = "reserved" /\ OrderOf(k) \notin failed
    IN  /\ own[k].at = "mark"
        /\ submits' = submits \union {OrderOf(k)}
        /\ Step(k, IF moved THEN "delete" ELSE "ack")
        /\ UNCHANGED <<queue, evts, unacked, avail, locked, pending, agg, sub, locks,
                       failed, deposits, faults>>

AckOwn(k) ==
    /\ own[k].at = "ack"
    /\ unacked' = unacked \ {own[k].pos}
    /\ own' = [own EXCEPT ![k] = IdleOwn]
    /\ UNCHANGED <<queue, evts, stores, sub, deposits, faults>>

AckOwnLost(k) ==
    /\ own[k].at = "ack" /\ faults < MaxFaults
    /\ faults' = faults + 1
    /\ own' = [own EXCEPT ![k] = IdleOwn]
    /\ UNCHANGED <<queue, evts, unacked, stores, sub, deposits>>

\* ApplyDepositConfirmed: money comes in from another consumer.
Deposit ==
    /\ deposits < MaxDeposits
    /\ deposits' = deposits + 1
    /\ avail' = avail + 1
    /\ UNCHANGED <<queue, evts, unacked, locked, submits, pending, agg, sub, own, locks,
                   failed, faults>>

-----------------------------------------------------------------------------
Submit ==
    \/ \E o \in Orders : Fetch(o)
    \/ CheckSubmits \/ CheckPending \/ ReadBalance \/ Validate \/ Publish \/ MarkPending
    \/ AckSubmit

Own(k) ==
    \/ FetchOwn(k) \/ DeletePending(k) \/ MarkSubmit(k) \/ AckOwn(k)
    \/ k = "reserved" /\ CheckBooked
    \/ k = "reserved" /\ ReserveOrder

Next ==
    \/ Submit \/ PublishFails \/ AckSubmitLost
    \/ \E k \in Kinds : Own(k) \/ AckOwnLost(k)
    \/ Deposit

Spec == Init /\ [][Next]_vars

\* Three fetch loops that never block for ever; faults are finitely many.
FairSpec == Spec /\ WF_vars(Submit) /\ \A k \in Kinds : WF_vars(Own(k))

-----------------------------------------------------------------------------
\* Types of the stores and of the three handlers' steps; the balances never
\* go below zero (they are uint64 in UserWallet).
TypeOK ==
    /\ queue \subseteq Orders
    /\ evts \in Seq([kind : Kinds, order : Orders]) /\ unacked \subseteq DOMAIN evts
    /\ avail \in Nat /\ locked \in Nat
    /\ submits \subseteq Orders /\ pending \subseteq Orders /\ agg \in [Markets -> Nat]
    /\ sub \in [at : {"idle"}, seen : Nat]
               \union [at : SubSteps, seen : Nat, order : Orders]
    /\ own \in [Kinds -> [at : OwnSteps \union {"idle"}, pos : Nat]]
    /\ locks \in [Orders -> Nat] /\ failed \subseteq Orders
    /\ deposits \in 0 .. MaxDeposits /\ faults \in 0 .. MaxFaults

NeedOf(S) == MapThenSumSet(LAMBDA o : Need[o], S)

\* Manager.ReserveOrder and ApplyDepositConfirmed together neither make nor
\* lose money: what is available and what is locked is what came in, and
\* what is locked is what the booked orders need.
Conserved ==
    /\ avail + locked = Balance + deposits
    /\ locked = MapThenSumSet(LAMBDA o : Need[o] * locks[o], Orders)

\* However often handleSubmitMessage decides a command and however often its
\* reserved event is delivered, ReserveOrder books it once, and an order
\* whose booking failed is not booked later.
LockedOnce ==
    \A o \in Orders : locks[o] + (IF o \in failed THEN 1 ELSE 0) <= 1

\* The aggregate of PendingReserveStore.byWalletPos, kept up by Mark and
\* Delete on two goroutines, is the sum over bySubmit: the floor in Delete
\* never hides a difference.
AggAgrees ==
    \A m \in Markets : agg[m] = NeedOf({o \in pending : MarketOf[o] = m})

\* The two books of the order entry agree with the orders behind them, at every
\* step of the three goroutines that write them: the account (Conserved) and
\* the pending aggregate (AggAgrees).
ReservesAgree == Conserved /\ AggAgrees

\* Every command is acked, has one event, and is marked in the SubmitStore in
\* the end, although publishes fail and acks are lost.
EveryCommandDecided ==
    []<>(queue = {} /\ unacked = {} /\ submits = Orders)

\* Every order announced as reserved is backed by locked funds: the claim
\* that a wallet that trades in two markets at once cannot overspend.  It does
\* not hold: Apply looks at the pending reserves of one market only, and
\* Snapshot and Apply are two reads between which a reserve can move.
ReservedIsLocked == failed = {}

\* Every pending entry is deleted in the end.  It does not hold: the event is
\* published before Mark, so the reserved handler can Delete first.
PendingCleared == []<>(pending = {})
=============================================================================
