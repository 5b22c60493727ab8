---------------------------- MODULE ChainRouter ----------------------------
(***************************************************************************)
(* internal/chainconfirm: the router, which watches transaction signatures *)
(* over WebSocket connections (shards) shared by the whole process and     *)
(* hands each result to its subscribers' channels, and the waiter, which   *)
(* asks the RPC node, then the router, then polls.  A waiter subscribes as *)
(* "chainconfirm:<signature>" and each signature is waited for by one task *)
(* at a time, so a watch has at most one subscriber.                       *)
(*                                                                         *)
(* Request and subscription ids are left out: what matters of a            *)
(* subscription is whether its request is unanswered (pending), live       *)
(* (bound) or was refused.  A cancelled watch whose request is still       *)
(* unanswered keeps it, as in the code.                                    *)
(***************************************************************************)
EXTENDS Confirmation

CONSTANTS
    Shards,    \* WebSocket shards
    ShardOf    \* shardIndexForSignature

ASSUME RouterAssumption == ShardOf \in [Sigs -> Shards] /\ MaxFaults \in Nat

VARIABLES
    txs,       \* the transactions at confirmed commitment: "none", "ok", "err"
    watches,   \* Router.watches
    chan,      \* the channel of the subscriber: "empty", "ok" or "err"
    shard,     \* the shards: goroutine, connection and subscriptions
    wait       \* WaitForConfirmed of each signature: next step, and how the last one ended

vars == <<txs, watches, chan, shard, wait, faults>>

-----------------------------------------------------------------------------
NoWatch == [here |-> FALSE, sub |-> FALSE, cache |-> "none"]
NoConn  == [pc |-> "wait", wake |-> FALSE, conn |-> FALSE, pending |-> {}, bound |-> {}, refused |-> {}]

TypeOK ==
    /\ txs \in [Sigs -> {"none", "ok", "err"}]
    /\ watches \in [Sigs -> [here : BOOLEAN, sub : BOOLEAN, cache : {"none", "live", "old"}]]
    /\ chan \in [Sigs -> {"empty", "ok", "err"}]
    /\ shard \in [Shards -> [pc : {"wait", "sleep", "connect", "resub", "read"}, wake : BOOLEAN,
                             conn : BOOLEAN, pending : SUBSET Sigs, bound : SUBSET Sigs,
                             refused : SUBSET Sigs]]
    /\ wait \in [Sigs -> [pc : {"off", "check", "send", "wait", "unsub", "leave", "close", "poll"},
                           next : {"ok", "poll", "expired"}, res : {"none", "ok", "expired"}]]
    /\ faults \in 0..MaxFaults

Init ==
    /\ txs = [s \in Sigs |-> "none"]
    /\ watches = [s \in Sigs |-> NoWatch]
    /\ chan = [s \in Sigs |-> "empty"]
    /\ shard = [h \in Shards |-> NoConn]
    /\ wait = [s \in Sigs |-> [pc |-> "off", next |-> "ok", res |-> "none"]]
    /\ faults = 0

\* shardSubscriptions, shardHasActiveSubscribers
Subscribed(h) == {s \in Sigs : ShardOf[s] = h /\ watches[s].sub}
HasActive(h)  == Subscribed(h) # {}

\* routerShard.close
Closed(sh) == [sh EXCEPT !.conn = FALSE, !.pending = {}, !.bound = {}]

-----------------------------------------------------------------------------
(* Waiter.WaitForConfirmed, SubscribeSignature and unsubscribe *)

Goto(s, pc) == wait' = [wait EXCEPT ![s].pc = pc]
Return(s, r) == wait' = [wait EXCEPT ![s].pc = "off", ![s].res = r, ![s].next = "ok"]

Begin(s) ==
    /\ wait[s].pc = "off"
    /\ wait' = [wait EXCEPT ![s].pc = "check", ![s].res = "none"]
    /\ UNCHANGED <<txs, watches, chan, shard, faults>>

\* The RPC node reports the transaction confirmed, ...
CheckStatus(s) ==
    /\ wait[s].pc = "check" /\ txs[s] = "ok" /\ Return(s, "ok")
    /\ UNCHANGED <<txs, watches, chan, shard, faults>>

\* ... or not, or failed on chain, or does not answer: SubscribeSignature.  The watch is
\* created, or joined: a cached result still valid is handed over at once.  Only a
\* created watch is subscribed upstream.
Subscribe(s) ==
    /\ wait[s].pc = "check"
    /\ IF txs[s] = "ok" THEN Fault ELSE UNCHANGED faults
    /\ watches' = [watches EXCEPT ![s] =
         IF @.here THEN [@ EXCEPT !.sub = TRUE] ELSE [here |-> TRUE, sub |-> TRUE, cache |-> "none"]]
    /\ chan' = [chan EXCEPT ![s] = IF watches[s].cache = "live" THEN txs[s] ELSE "empty"]
    /\ Goto(s, IF watches[s].here THEN "wait" ELSE "send")
    /\ UNCHANGED <<txs, shard>>

\* signal and sendSubscribe on the shard's present connection; without one the subscription
\* is left to resubscribeAll.
SendSubscribe(s) ==
    LET h == ShardOf[s] IN
    /\ wait[s].pc = "send" /\ Goto(s, "wait")
    /\ shard' = [shard EXCEPT ![h].wake = TRUE,
                              ![h].pending = IF shard[h].conn THEN @ \cup {s} ELSE @]
    /\ UNCHANGED <<txs, watches, chan, faults>>

\* Mutant: a result with an error is taken for a confirmation.
WaitResultUnread(s) ==
    /\ wait[s].pc = "wait" /\ chan[s] # "empty"
    /\ wait' = [wait EXCEPT ![s].pc = "unsub", ![s].next = "ok"]
    /\ UNCHANGED <<txs, watches, chan, shard, faults>>

\* waitViaRouter returns with a result; an error on chain is left to the polling.
WaitResult(s) ==
    /\ wait[s].pc = "wait" /\ chan[s] # "empty"
    /\ wait' = [wait EXCEPT ![s].pc = "unsub", ![s].next = IF chan[s] = "ok" THEN "ok" ELSE "poll"]
    /\ UNCHANGED <<txs, watches, chan, shard, faults>>

\* The caller's deadline: the polling that follows finds its context dead.
WaitDeadline(s) ==
    /\ wait[s].pc = "wait"
    /\ wait' = [wait EXCEPT ![s].pc = "unsub", ![s].next = "expired"]
    /\ UNCHANGED <<txs, watches, chan, shard, faults>>

\* The deferred unsubscribe: the subscriber goes, a watch without a valid cached result
\* with it; the upstream subscription is cancelled and the shard woken.
Unsubscribe(s) ==
    LET h == ShardOf[s] IN
    /\ wait[s].pc = "unsub" /\ Goto(s, "leave")
    /\ watches' = [watches EXCEPT ![s] =
         IF @.cache = "live" THEN [@ EXCEPT !.sub = FALSE] ELSE NoWatch]
    /\ chan' = [chan EXCEPT ![s] = "empty"]
    /\ shard' = [shard EXCEPT ![h].wake = TRUE, ![h].bound = @ \ {s}]
    /\ UNCHANGED <<txs, faults>>

Continue(s) == IF wait[s].next = "poll" THEN Goto(s, "poll") ELSE Return(s, wait[s].next)

\* Then the shard is looked at; an idle one is closed, though a new subscriber may have
\* come since.
UnsubscribeLook(s) ==
    /\ wait[s].pc = "leave"
    /\ IF HasActive(ShardOf[s]) THEN Continue(s) ELSE Goto(s, "close")
    /\ UNCHANGED <<txs, watches, chan, shard, faults>>

UnsubscribeClose(s) ==
    /\ wait[s].pc = "close" /\ Continue(s)
    /\ shard' = [shard EXCEPT ![ShardOf[s]] = Closed(@)]
    /\ UNCHANGED <<txs, watches, chan, faults>>

\* waitWithHTTPPolling, for a transaction that failed on chain: polled to the deadline.
Poll(s) ==
    /\ wait[s].pc = "poll" /\ Return(s, "expired")
    /\ UNCHANGED <<txs, watches, chan, shard, faults>>

-----------------------------------------------------------------------------
(* routerShard.run *)

\* waitUntilNeeded
ShardNeeded(h) ==
    /\ shard[h].pc = "wait" /\ HasActive(h)
    /\ shard' = [shard EXCEPT ![h].pc = "connect"]
    /\ UNCHANGED <<txs, watches, chan, wait, faults>>

ShardSleep(h) ==
    /\ shard[h].pc = "wait" /\ ~HasActive(h)
    /\ shard' = [shard EXCEPT ![h] = [Closed(@) EXCEPT !.pc = "sleep"]]
    /\ UNCHANGED <<txs, watches, chan, wait, faults>>

ShardWake(h) ==
    /\ shard[h].pc = "sleep" /\ shard[h].wake
    /\ shard' = [shard EXCEPT ![h].pc = "wait", ![h].wake = FALSE]
    /\ UNCHANGED <<txs, watches, chan, wait, faults>>

\* connect: a new connection knows no requests and no subscriptions.
ShardConnect(h) ==
    /\ shard[h].pc = "connect"
    /\ shard' = [shard EXCEPT ![h] = [@ EXCEPT !.pc = "resub", !.conn = TRUE, !.pending = {},
                                               !.bound = {}, !.refused = {}]]
    /\ UNCHANGED <<txs, watches, chan, wait, faults>>

ConnectFails(h) ==
    /\ Fault /\ shard[h].pc = "connect"
    /\ shard' = [shard EXCEPT ![h].pc = "wait"]
    /\ UNCHANGED <<txs, watches, chan, wait>>

\* Mutant: only watches created on this connection are subscribed.
ResubscribeNone(h) ==
    /\ shard[h].pc = "resub"
    /\ shard' = [shard EXCEPT ![h].pc = "read"]
    /\ UNCHANGED <<txs, watches, chan, wait, faults>>

\* resubscribeAll, unless the connection was closed meanwhile.
ResubscribeAll(h) ==
    /\ shard[h].pc = "resub"
    /\ shard' = [shard EXCEPT ![h].pc = "read",
                              ![h].pending = IF shard[h].conn THEN @ \cup Subscribed(h) ELSE @]
    /\ UNCHANGED <<txs, watches, chan, wait, faults>>

\* readLoop ends when the connection is gone or nobody is subscribed; resetShard.
ReadLoopEnds(h) ==
    /\ shard[h].pc = "read" /\ (~shard[h].conn \/ ~HasActive(h))
    /\ shard' = [shard EXCEPT ![h] = [Closed(@) EXCEPT !.pc = "wait"]]
    /\ UNCHANGED <<txs, watches, chan, wait, faults>>

\* onSubscribeAck
SubscribeAck(s) ==
    LET h == ShardOf[s] IN
    /\ shard[h].pc = "read" /\ s \in shard[h].pending
    /\ shard' = [shard EXCEPT ![h].pending = @ \ {s}, ![h].bound = @ \cup {s}]
    /\ UNCHANGED <<txs, watches, chan, wait, faults>>

\* An error response is logged and the request forgotten.
SubscribeRefused(s) ==
    LET h == ShardOf[s] IN
    /\ Fault /\ shard[h].pc = "read" /\ s \in shard[h].pending
    /\ shard' = [shard EXCEPT ![h].pending = @ \ {s}, ![h].refused = @ \cup {s}]
    /\ UNCHANGED <<txs, watches, chan, wait>>

\* Mutant: the result is cached but not handed to the subscriber.
NotifyCacheOnly(s) ==
    LET h == ShardOf[s] IN
    /\ shard[h].pc = "read" /\ s \in shard[h].bound /\ txs[s] # "none"
    /\ shard' = [shard EXCEPT ![h].bound = @ \ {s}]
    /\ watches' = [watches EXCEPT ![s].cache = IF watches[s].here THEN "live" ELSE @]
    /\ UNCHANGED <<txs, chan, wait, faults>>

\* onNotification and cacheAndDispatch: the subscription fires once.
Notification(s) ==
    LET h == ShardOf[s] IN
    /\ shard[h].pc = "read" /\ s \in shard[h].bound /\ txs[s] # "none"
    /\ shard' = [shard EXCEPT ![h].bound = @ \ {s}]
    /\ watches' = [watches EXCEPT ![s].cache = IF watches[s].here THEN "live" ELSE @]
    /\ chan' = [chan EXCEPT ![s] = IF watches[s].sub /\ @ = "empty" THEN txs[s] ELSE @]
    /\ UNCHANGED <<txs, wait, faults>>

\* The connection breaks (the peer, the network, or a missed pong).
Disconnect(h) ==
    /\ Fault /\ shard[h].pc \in {"resub", "read"} /\ shard[h].conn
    /\ shard' = [shard EXCEPT ![h] = Closed(@)]
    /\ UNCHANGED <<txs, watches, chan, wait>>

-----------------------------------------------------------------------------
(* Time and the chain *)

\* TerminalUntil passes.
CacheExpires(s) ==
    /\ watches[s].cache = "live"
    /\ watches' = [watches EXCEPT ![s].cache = "old"]
    /\ UNCHANGED <<txs, chan, shard, wait, faults>>

\* cleanupLoop
Cleanup(s) ==
    /\ watches[s].here /\ ~watches[s].sub /\ watches[s].cache # "live"
    /\ watches' = [watches EXCEPT ![s] = NoWatch]
    /\ UNCHANGED <<txs, chan, shard, wait, faults>>

\* A transaction reaches confirmed commitment (external).
Land(s) ==
    /\ txs[s] = "none"
    /\ \E r \in {"ok", "err"} : txs' = [txs EXCEPT ![s] = r]
    /\ UNCHANGED <<watches, chan, shard, wait, faults>>

ShardStep(h) == ShardNeeded(h) \/ ShardSleep(h) \/ ShardWake(h) \/ ShardConnect(h)
                \/ ResubscribeAll(h) \/ ReadLoopEnds(h)
Upstream(s) == SubscribeAck(s) \/ Notification(s)
Call(s) == CheckStatus(s) \/ Subscribe(s) \/ SendSubscribe(s) \/ WaitResult(s) \/ Unsubscribe(s)
           \/ UnsubscribeLook(s) \/ UnsubscribeClose(s) \/ Poll(s)

Next ==
    \/ \E s \in Sigs : \/ Begin(s) \/ Call(s) \/ WaitDeadline(s)
                       \/ Upstream(s) \/ SubscribeRefused(s) \/ CacheExpires(s) \/ Cleanup(s) \/ Land(s)
    \/ \E h \in Shards : ShardStep(h) \/ ConnectFails(h) \/ Disconnect(h)

\* Goroutines and timers keep running and the server answers; a caller's deadline is not
\* counted on.
Fairness ==
    /\ \A s \in Sigs : /\ WF_vars(Call(s)) /\ WF_vars(SubscribeAck(s)) /\ WF_vars(Notification(s))
    /\ \A h \in Shards : WF_vars(ShardStep(h))

Spec == Init /\ [][Next]_vars /\ Fairness

-----------------------------------------------------------------------------
(* Properties *)

\* No subscription is lost between SubscribeSignature, connect, resubscribeAll and a
\* concurrent unsubscribe: while the shard reads, every watch that has a subscriber and no
\* result is subscribed on this connection, unless the server refused it or its own
\* sendSubscribe is still to come.
SubscribedUpstream ==
    \A s \in Sigs :
        LET sh == shard[ShardOf[s]] IN
        sh.pc = "read" /\ sh.conn /\ watches[s].sub /\ watches[s].cache = "none"
        => s \in sh.pending \cup sh.bound \cup sh.refused \/ wait[s].pc = "send"

\* The router's tables have their types and lose no subscription.
RouterSound == TypeOK /\ SubscribedUpstream

\* A waiter gets the result of a transaction that landed from the router itself, through
\* lost connections, shards closed by other waiters and shards asleep: no wake-up is lost
\* (waitUntilNeeded, resubscribeAll, cacheAndDispatch).  Excepted are a subscription the
\* server refused and a watch joined after its cached result had expired, which is not
\* subscribed again (SubscribeSignature).
Waiting(s) == wait[s].pc = "wait" /\ txs[s] # "none" /\ watches[s].cache # "old"
              /\ s \notin shard[ShardOf[s]].refused
LandedIsHanded == \A s \in Sigs : Waiting(s) ~> (chan[s] # "empty" \/ ~Waiting(s))

\* What WaitForConfirmed promises its callers.
Promise == INSTANCE ConfirmWait WITH
    outcome <- [s \in Sigs |-> IF wait[s].pc # "off" THEN "waiting"
                               ELSE IF wait[s].res = "none" THEN "idle" ELSE wait[s].res]
KeepsPromise == Promise!Spec

-----------------------------------------------------------------------------
(* What the design or a comment says and the code does not keep: TLC finds a counterexample
   to each when its name is added to the configuration. *)

\* A waiter on a landed transaction is always handed the result, a joined watch included.
EveryWaiterHanded ==
    \A s \in Sigs : (wait[s].pc = "wait" /\ txs[s] # "none")
                    ~> (wait[s].pc # "wait" \/ chan[s] # "empty" \/ s \in shard[ShardOf[s]].refused)
=============================================================================
