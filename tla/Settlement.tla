----------------------------- MODULE Settlement -----------------------------
(***************************************************************************)
(* The settlement service (internal/settlement): it stores every match     *)
(* batch as a row of settlement_submissions, builds and signs one Solana   *)
(* transaction per batch, one batch of a market at a time (the market      *)
(* lane), watches the signature, signs again when the blockhash expires,   *)
(* and publishes evt.settlement.submitted / confirmed / failed.            *)
(*                                                                         *)
(* Goroutines are modelled by their pending step: `ing` (runIngress),      *)
(* `sub` (one submitMatch per batch), `watch` (one watchSubmission per     *)
(* batch), `rec` (runReconciler, and recoverState at start) and `after`    *)
(* (what a goroutine still has to do after its compare-and-set of a row    *)
(* was applied).  The prepare worker and the scheduler decide in one step: *)
(* a row they loaded is claimed by a compare-and-set and the lane is       *)
(* checked again under its lock.  The scheduler's dirty list is left out:  *)
(* the reconciler puts every market with a prepared row on it at each      *)
(* tick.  A signature of a batch is named by the block height its          *)
(* blockhash was fetched at: signing the same payload twice under one      *)
(* blockhash gives one signature.  0 means "no signature".                 *)
(***************************************************************************)
EXTENDS Integers, FiniteSetsExt

CONSTANTS
    Batches,     \* match batches (match_event_id)
    Markets,     \* market ids
    MarketOf,    \* [Batches -> Markets]
    OrdersOf,    \* [Batches -> sets of orders (market, wallet, nonce)]
    Sizes,       \* the functions [Batches -> {"fits", "estimated", "wire"}] considered
    NoBatch,     \* the empty CurrentMatchEventID
    Valid,       \* blocks a blockhash stays valid after the one it names
    MaxHeight,   \* bound: block heights
    MaxFaults    \* bound: crashes, failed calls, lost acks and dropped forks together

ASSUME SettlementAssumption ==
    /\ MarketOf \in [Batches -> Markets]
    /\ NoBatch \notin Batches
    /\ Sizes \subseteq [Batches -> {"fits", "estimated", "wire"}]
    /\ Valid \in Nat
    /\ MaxHeight \in Nat \ {0}
    /\ MaxFaults \in Nat

VARIABLES
    size,       \* whether the batch fits MaxTxBytes: by estimate, on the wire
    msgs,       \* batches on evt.match.execution not yet acknowledged
    rows,       \* settlement_submissions
    accounts,   \* order_state_accounts: batches whose orders were stored as observed
    phase,      \* the process: "down", "recover" (recoverState), "up"
    lanes,      \* Service.lanes
    prepDirty,  \* Service.prepareDirty
    registry,   \* Service.orderRegistry: batches whose orders are known to exist
    ing, sub, watch, rec, after,
    height,     \* the chain's block height at processed commitment
    chain,      \* what the cluster knows of each signature
    published,  \* events on evt.settlement.confirmed and failed (of a submitted
                \* event only the mark subPub is kept)
    faults,     \* failures so far
    tried,      \* recoverState: the rows its loop over ListSubmitted has been through
    strayed     \* history: markets in which a submitted row was left without the lane

db     == <<msgs, rows, accounts>>
lane   == <<lanes, prepDirty, registry>>
procs  == <<ing, sub, watch, rec, after>>
world  == <<height, chain, published>>
stray  == <<tried, strayed>>
vars   == <<size, db, phase, lane, procs, world, faults, stray>>

-----------------------------------------------------------------------------
Heights == 1..MaxHeight
Statuses == {"absent", "queued", "prepared", "submitted", "processed", "confirmed", "failed"}

\* One row of settlement_submissions; at orders rows by created_at (equal for
\* the rows of one UpsertQueuedBatch); warm is the part of prepared_payload
\* that says which orders go without a witness.
SubmissionRecord ==
    [status : Statuses, lane : {"active", "paused"}, sig : 0..MaxHeight,
     at : Nat, subPub : BOOLEAN, termPub : BOOLEAN,
     warm : SUBSET UNION {OrdersOf[b] : b \in Batches}]

NoRow == [status |-> "absent", lane |-> "active", sig |-> 0, at |-> 0,
          subPub |-> FALSE, termPub |-> FALSE, warm |-> {}]
Idle  == [pc |-> "off", sig |-> 0]
NoTask == [b |-> NoBatch, sig |-> 0]

TypeOK ==
    /\ size \in [Batches -> {"fits", "estimated", "wire"}]
    /\ msgs \subseteq Batches
    /\ rows \in [Batches -> SubmissionRecord]
    /\ accounts \subseteq Batches
    /\ phase \in {"down", "recover", "up"}
    /\ lanes \in [Markets -> [paused : BOOLEAN, current : Batches \cup {NoBatch}]]
    /\ prepDirty \subseteq Markets
    /\ registry \subseteq Batches
    /\ ing \subseteq [b : Batches, lane : {"active", "paused"}]
    /\ sub \in [Batches -> [pc : {"off", "load", "publish", "send", "sendBlank"}, sig : 0..MaxHeight]]
    /\ watch \in [Batches -> [pc : {"off", "run", "resend", "ending"}, sig : 0..MaxHeight]]
    /\ rec \in [b : Batches \cup {NoBatch}, sig : 0..MaxHeight]
    /\ after \subseteq [b : Batches, k : {"processed", "failed", "pause", "confirmed"},
                         by : {"prepare", "submit", "watch", "rec", "poller"},
                         lane : {"release", "pause", "releaseByMatch"}]
    /\ height \in Heights
    /\ chain \in [Batches -> [Heights -> {"unsent", "sent", "ok", "err", "okFinal"}]]
    /\ published \subseteq [t : {"confirmed", "failed"}, b : Batches, sig : 0..MaxHeight]
    /\ faults \in 0..MaxFaults
    /\ tried \subseteq Batches /\ strayed \subseteq Markets

Init ==
    /\ size \in Sizes
    /\ msgs = Batches
    /\ rows = [b \in Batches |-> NoRow]
    /\ accounts = {}
    /\ phase = "up"
    /\ lanes = [m \in Markets |-> [paused |-> FALSE, current |-> NoBatch]]
    /\ prepDirty = {} /\ registry = {}
    /\ ing = {}
    /\ sub = [b \in Batches |-> Idle]
    /\ watch = [b \in Batches |-> Idle]
    /\ rec = NoTask
    /\ after = {}
    /\ height = 1
    /\ chain = [b \in Batches |-> [h \in Heights |-> "unsent"]]
    /\ published = {}
    /\ faults = 0
    /\ tried = {} /\ strayed = {}

\* Something fails: the process, a database call, a publish, a block; the number is bounded.
Fault == faults < MaxFaults /\ faults' = faults + 1

-----------------------------------------------------------------------------
(* submissionRepo: each operator is the table after one SQL statement, equal *)
(* to `rows` when the statement's WHERE selects no row (applied = false).    *)

UpsertQueuedBatch(inserts) ==
    LET last == Max({rows[b].at : b \in Batches})
    IN [b \in Batches |->
          IF rows[b].status = "absent" /\ \E i \in inserts : i.b = b
          THEN [NoRow EXCEPT !.status = "queued", !.at = last + 1,
                             !.lane = (CHOOSE i \in inserts : i.b = b).lane]
          ELSE rows[b]]

\* Mutant: the ORDER BY is missing.
AnyActive(m, status) ==
    {b \in Batches : MarketOf[b] = m /\ rows[b].status = status /\ rows[b].lane = "active"}

\* Rows of a market in a status, the lane active, that ORDER BY created_at
\* LIMIT 1 may return; rows inserted by one batch have equal created_at.
FirstActive(m, status) ==
    LET in == {b \in Batches : MarketOf[b] = m /\ rows[b].status = status
                                               /\ rows[b].lane = "active"}
    IN {b \in in : \A c \in in : rows[b].at <= rows[c].at}

LoadNextQueuedByMarket(m) == FirstActive(m, "queued")
LoadNextPreparedByMarket(m) == FirstActive(m, "prepared")

MarkPreparedCAS(b, warm) ==
    IF rows[b].status = "queued" /\ rows[b].lane = "active"
    THEN [rows EXCEPT ![b].status = "prepared", ![b].warm = warm] ELSE rows

MarkSubmittedCAS(b, sig) ==
    IF rows[b].status = "prepared" /\ rows[b].lane = "active"
    THEN [rows EXCEPT ![b].status = "submitted", ![b].sig = sig] ELSE rows

\* Mutant: the status check is missing.
MarkProcessedAnyStatus(b, sig) ==
    IF rows[b].sig = sig THEN [rows EXCEPT ![b].status = "processed"] ELSE rows

MarkProcessedCAS(b, sig) ==
    IF rows[b].status = "submitted" /\ rows[b].sig = sig
    THEN [rows EXCEPT ![b].status = "processed"] ELSE rows

MarkConfirmedCAS(b, sig) ==
    IF rows[b].status = "processed" /\ rows[b].sig = sig
    THEN [rows EXCEPT ![b].status = "confirmed"] ELSE rows

ReplaceSignatureCAS(b, old, new) ==
    IF rows[b].status = "submitted" /\ rows[b].sig = old
    THEN [rows EXCEPT ![b].sig = new] ELSE rows

\* One transaction: the row fails and every queued or prepared row of its market is paused.
FailAndPause(b) ==
    [c \in Batches |->
       IF c = b THEN [rows[b] EXCEPT !.status = "failed", !.lane = "paused"]
       ELSE IF MarketOf[c] = MarketOf[b] /\ rows[c].status \in {"queued", "prepared"}
            THEN [rows[c] EXCEPT !.lane = "paused"] ELSE rows[c]]

MarkFailedBeforeSubmitAndPauseQueued(b) ==
    IF rows[b].status \in {"queued", "prepared"} THEN FailAndPause(b) ELSE rows

MarkFailedAndPauseQueued(b, sig) ==
    IF rows[b].status \in {"submitted", "processed"} /\ rows[b].sig = sig
    THEN FailAndPause(b) ELSE rows

MarkSubmittedEventPublished(b) == [rows EXCEPT ![b].subPub = TRUE]
MarkTerminalEventPublished(b)  == [rows EXCEPT ![b].termPub = TRUE]

ListSubmitted == {b \in Batches : rows[b].status = "submitted"}
ListUnpublishedSubmitted == {b \in Batches : rows[b].status = "submitted" /\ ~rows[b].subPub}
\* Mutant: failed rows are not listed.
ListUnpublishedConfirmed == {b \in Batches : rows[b].status = "confirmed" /\ ~rows[b].termPub}

ListUnpublishedTerminal ==
    {b \in Batches : rows[b].status \in {"confirmed", "failed"} /\ ~rows[b].termPub}
ListProcessed == {b \in Batches : rows[b].status = "processed"}
\* Mutant: the status of ListPreparedMarketIDs.
ListQueuedByPrepared ==
    {MarketOf[b] : b \in {c \in Batches : rows[c].status = "prepared" /\ rows[c].lane = "active"}}

ListQueuedMarketIDs ==
    {MarketOf[b] : b \in {c \in Batches : rows[c].status = "queued" /\ rows[c].lane = "active"}}
ListPreparedMarketIDs ==
    {MarketOf[b] : b \in {c \in Batches : rows[c].status = "prepared" /\ rows[c].lane = "active"}}

ListPausedMarketIDs ==
    {MarketOf[b] : b \in {c \in Batches : rows[c].status # "absent" /\ rows[c].lane = "paused"}}

-----------------------------------------------------------------------------
(* Lanes, events and the chain as the handlers use them. *)

ReleaseLaneByMatchEvent(b) ==
    [m \in Markets |-> IF lanes[m].current = b THEN [lanes[m] EXCEPT !.current = NoBatch] ELSE lanes[m]]

Busy(who) == \E a \in after : a.by = who
Task(b, k, who, ln) == [b |-> b, k |-> k, by |-> who, lane |-> ln]

Event(t, b) == [t |-> t, b |-> b, sig |-> rows[b].sig]

\* checkSignatureProcessed and the router: a transaction executed at any commitment.
Observed(b, sig) == chain[b][sig] \in {"ok", "err", "okFinal"}
Failed(b, sig)   == chain[b][sig] = "err"

\* The cluster accepts a transaction while its blockhash is recent.
BlockhashValid(sig) == height <= sig + Valid

\* Mutant: >= for >.
isExpiredEarly(sig) == height >= sig + Valid

isExpired(sig) == height > sig + Valid

\* broadcastRawTx: the cluster has the transaction (a transaction it already
\* executed is not executed again).
Broadcast(b, sig) == [chain EXCEPT ![b][sig] = IF @ = "unsent" THEN "sent" ELSE @]

\* processSubmission and failSubmission, up to the row's compare-and-set; what
\* follows an applied one is the caller's next step (`after`).
processSubmission(b, sig, who) ==
    /\ rows' = MarkProcessedCAS(b, sig)
    /\ after' = IF rows' = rows THEN after ELSE after \cup {Task(b, "processed", who, "release")}

failSubmission(b, sig, who, ln) ==
    /\ rows' = MarkFailedAndPauseQueued(b, sig)
    /\ after' = IF rows' = rows THEN after ELSE after \cup {Task(b, "failed", who, ln)}

failBeforeSubmit(b, who) ==
    /\ rows' = MarkFailedBeforeSubmitAndPauseQueued(b)
    /\ after' = IF rows' = rows THEN after ELSE after \cup {Task(b, "failed", who, "releaseByMatch")}

\* The verdict of an observed signature is applied to the row.
settleObserved(b, sig, who) ==
    IF Failed(b, sig) THEN failSubmission(b, sig, who, "release")
                      ELSE processSubmission(b, sig, who)

\* startWatchTask: one task per batch.
startWatchTask(b, sig) ==
    IF watch[b].pc = "off" THEN [watch EXCEPT ![b] = [pc |-> "run", sig |-> sig]] ELSE watch

\* A publish followed by the mark in the row: both, the event alone, or nothing.
PublishThenMark(t, b, marked) ==
    \/ /\ published' = published \cup {Event(t, b)}
       /\ rows' = marked
       /\ UNCHANGED faults
    \/ /\ Fault
       /\ published' \in {published, published \cup {Event(t, b)}}
       /\ UNCHANGED rows

-----------------------------------------------------------------------------
(* runIngress / handleFetchedMessages *)

\* A fetch: the lane's status is read from memory for every message.
FetchMessages(fetched) ==
    /\ phase = "up" /\ ing = {} /\ fetched # {}
    /\ ing' = {[b |-> b, lane |-> IF lanes[MarketOf[b]].paused THEN "paused" ELSE "active"] : b \in fetched}
    /\ UNCHANGED <<size, stray, db, phase, lane, sub, watch, rec, after, world, faults>>

\* The rows are inserted, their markets made dirty for the prepare worker and the
\* messages acknowledged, unless the acknowledgements are lost.
InsertQueued ==
    /\ ing # {}
    /\ rows' = UpsertQueuedBatch(ing)
    /\ prepDirty' = prepDirty \cup {MarketOf[i.b] : i \in {j \in ing : rows[j.b].status = "absent"
                                                                       /\ j.lane = "active"}}
    /\ \/ msgs' = msgs \ {i.b : i \in ing} /\ UNCHANGED faults
       \/ Fault /\ UNCHANGED msgs
    /\ ing' = {}
    /\ UNCHANGED <<size, stray, accounts, phase, lanes, registry, sub, watch, rec, after, world>>

\* The insert fails: every message is nak'd and comes back.
InsertFails ==
    /\ ing # {} /\ Fault /\ ing' = {}
    /\ UNCHANGED <<size, stray, db, phase, lane, sub, watch, rec, after, world>>

-----------------------------------------------------------------------------
(* runPrepareWorker *)

\* applyWarmOrderStates: orders the registry knows go without a witness.
WarmOrders(b) == OrdersOf[b] \cap UNION {OrdersOf[c] : c \in registry}

\* prepareDirtyMarkets finds no queued row, or fails and tries again later
\* (schedulePrepareRetry).
PrepareNothing(m) ==
    /\ phase = "up" /\ m \in prepDirty /\ ~Busy("prepare") /\ LoadNextQueuedByMarket(m) = {}
    /\ prepDirty' = prepDirty \ {m}
    /\ UNCHANGED <<size, stray, db, phase, lanes, registry, procs, world, faults>>

\* prepareSubmission of the oldest queued row, whose estimate fits: the payload is
\* stored; the market stays dirty for the next queued row.
PrepareSubmission(b) ==
    LET m == MarketOf[b] IN
    /\ phase = "up" /\ m \in prepDirty /\ ~Busy("prepare") /\ b \in LoadNextQueuedByMarket(m)
    /\ size[b] # "estimated"
    /\ rows' = MarkPreparedCAS(b, WarmOrders(b))
    /\ UNCHANGED <<size, stray, msgs, accounts, phase, lanes, prepDirty, registry, procs, world, faults>>

\* enforceEstimatedTxBytes: a batch estimated too large fails before it is
\* submitted; MarkPreparedCAS then finds it no longer queued.
PrepareTooLarge(b) ==
    LET m == MarketOf[b] IN
    /\ phase = "up" /\ m \in prepDirty /\ ~Busy("prepare") /\ b \in LoadNextQueuedByMarket(m)
    /\ size[b] = "estimated" /\ failBeforeSubmit(b, "prepare")
    /\ prepDirty' = prepDirty \ {m}
    /\ UNCHANGED <<size, stray, msgs, accounts, phase, lanes, registry, ing, sub, watch, rec, world, faults>>

-----------------------------------------------------------------------------
(* runScheduler *)

\* tryScheduleMarket: a free lane is claimed for the oldest prepared row of the
\* market and submitMatch started; between the load of the row and the claim
\* the lane is checked again.
ScheduleClaim(b) ==
    LET m == MarketOf[b] IN
    /\ phase = "up" /\ m \in ListPreparedMarketIDs /\ b \in LoadNextPreparedByMarket(m)
    /\ ~lanes[m].paused /\ lanes[m].current = NoBatch
    /\ lanes' = [lanes EXCEPT ![m].current = b]
    /\ sub' = [sub EXCEPT ![b].pc = "load"]
    /\ UNCHANGED <<size, stray, db, phase, prepDirty, registry, ing, watch, rec, after, world, faults>>

-----------------------------------------------------------------------------
(* submitMatch *)

\* Every early return gives the lane back.
SubmitReturns(b) ==
    /\ sub' = [sub EXCEPT ![b] = Idle]
    /\ lanes' = ReleaseLaneByMatchEvent(b)

\* The row is loaded, the transaction signed under the cached blockhash, and
\* signature and raw transaction stored before anything is sent; the row may
\* have been paused meanwhile, and any of the calls may fail.  When the update
\* is applied and only its reply lost, the row is submitted and the lane free.
SubmitMark(b) ==
    /\ sub[b].pc = "load" /\ size[b] # "wire"
    /\ \/ /\ rows' = MarkSubmittedCAS(b, height)
          /\ IF rows' = rows THEN SubmitReturns(b)
             ELSE sub' = [sub EXCEPT ![b] = [pc |-> "publish", sig |-> height]] /\ UNCHANGED lanes
          /\ UNCHANGED <<faults, strayed>>
       \/ Fault /\ UNCHANGED <<rows, strayed>> /\ SubmitReturns(b)
       \/ /\ Fault /\ SubmitReturns(b)
          /\ rows' = MarkSubmittedCAS(b, height) /\ rows' # rows
          /\ strayed' = strayed \cup {MarketOf[b]}
    /\ UNCHANGED <<size, msgs, accounts, phase, prepDirty, registry, ing, watch, rec, after, world, tried>>

\* The signed transaction exceeds MaxTxBytes: failBeforeSubmit.
SubmitTooLarge(b) ==
    /\ sub[b].pc = "load" /\ size[b] = "wire"
    /\ failBeforeSubmit(b, "submit")
    /\ sub' = [sub EXCEPT ![b] = Idle]
    /\ UNCHANGED <<size, stray, msgs, accounts, phase, lane, ing, watch, rec, world, faults>>

\* The row is read again and evt.settlement.submitted published; when the
\* read fails an empty record is published and no watch task will start.
SubmitPublish(b) ==
    /\ sub[b].pc = "publish"
    /\ \/ rows' = MarkSubmittedEventPublished(b) /\ sub' = [sub EXCEPT ![b].pc = "send"] /\ UNCHANGED faults
       \/ Fault /\ UNCHANGED rows /\ sub' = [sub EXCEPT ![b].pc = "send"]
       \/ Fault /\ rows' = MarkSubmittedEventPublished(b) /\ sub' = [sub EXCEPT ![b].pc = "sendBlank"]
    /\ UNCHANGED <<size, stray, msgs, accounts, phase, lane, ing, watch, rec, after, world>>

\* The raw transaction is broadcast and the watch task started; a transport
\* error leaves it unsent, a preflight error fails the row.
SubmitSend(b) ==
    LET sig == sub[b].sig IN
    /\ sub[b].pc \in {"send", "sendBlank"}
    /\ sub' = [sub EXCEPT ![b] = Idle]
    /\ \/ /\ \/ chain' = Broadcast(b, sig) /\ UNCHANGED faults
             \/ Fault /\ UNCHANGED chain
          /\ watch' = IF sub[b].pc = "send" THEN startWatchTask(b, sig) ELSE watch
          /\ UNCHANGED <<rows, after>>
       \/ failSubmission(b, sig, "submit", "release") /\ Fault /\ UNCHANGED <<chain, watch>>
    /\ UNCHANGED <<size, stray, msgs, accounts, phase, lane, ing, rec, height, published>>

-----------------------------------------------------------------------------
(* watchSubmission *)

\* The router or a status poll reports the watched signature; the task ends,
\* after its last step when the row was moved.
WatchObserve(b) ==
    LET sig == watch[b].sig IN
    /\ watch[b].pc = "run" /\ Observed(b, sig)
    /\ \/ settleObserved(b, sig, "watch") /\ UNCHANGED faults
       \/ Fault /\ UNCHANGED <<rows, after>>
    /\ watch' = [watch EXCEPT ![b] = IF after' = after THEN Idle ELSE [@ EXCEPT !.pc = "ending"]]
    /\ UNCHANGED <<size, stray, msgs, accounts, phase, lane, ing, sub, rec, world>>

\* rebroadcastTicker
WatchRebroadcast(b) ==
    /\ watch[b].pc = "run" /\ chain[b][watch[b].sig] = "unsent"
    /\ chain' = Broadcast(b, watch[b].sig)
    /\ UNCHANGED <<size, stray, db, phase, lane, procs, height, published, faults>>

\* heightTicker and resignSubmission up to ReplaceSignatureCAS: the watched
\* signature has expired, a fresh blockhash is fetched and a new signature
\* replaces it.  When the row no longer holds the watched signature, the task
\* goes on with the row's own.  A failed read after the replacement leaves the
\* task on the old signature.
WatchResign(b) ==
    LET old == watch[b].sig IN
    /\ watch[b].pc = "run" /\ isExpired(old)
    /\ rows' = ReplaceSignatureCAS(b, old, height)
    /\ \/ /\ watch' = IF rows' # rows THEN [watch EXCEPT ![b] = [pc |-> "resend", sig |-> height]]
                      ELSE IF rows[b].status = "submitted" THEN [watch EXCEPT ![b].sig = rows[b].sig]
                      ELSE watch
          /\ UNCHANGED faults
       \/ rows' # rows /\ Fault /\ UNCHANGED watch
    /\ UNCHANGED <<size, stray, msgs, accounts, phase, lane, ing, sub, rec, after, height, chain,
                   published>>

\* The rest of resignSubmission: the submitted event is published again (its
\* failure is only logged) and the new transaction broadcast.
WatchResend(b) ==
    LET sig == watch[b].sig IN
    /\ watch[b].pc = "resend" /\ watch' = [watch EXCEPT ![b].pc = "run"]
    /\ \/ chain' = Broadcast(b, sig) /\ UNCHANGED <<rows, after, faults>>
       \/ Fault /\ UNCHANGED <<chain, rows, after>>
       \/ Fault /\ failSubmission(b, sig, "watch", "release") /\ UNCHANGED chain
    /\ UNCHANGED <<size, stray, msgs, accounts, phase, lane, ing, sub, rec, height, published>>

-----------------------------------------------------------------------------
(* What follows an applied compare-and-set *)

EndTask(a) ==
    /\ after' = after \ {a}
    /\ watch' = IF a.by = "watch" /\ watch[a.b].pc = "ending" THEN [watch EXCEPT ![a.b] = Idle] ELSE watch

\* The batch's position and order accounts exist: the registries are told, and the
\* rows stored; a failure to store them is only logged.
observeProcessedEvidence(b) ==
    /\ registry' = registry \cup {b}
    /\ \/ accounts' = accounts \cup {b} /\ UNCHANGED faults
       \/ Fault /\ UNCHANGED accounts

\* processSubmission: the evidence is observed and the lane freed.
AfterProcessed(a) ==
    LET m == MarketOf[a.b] IN
    /\ a.k = "processed" /\ EndTask(a)
    /\ observeProcessedEvidence(a.b)
    /\ lanes' = [lanes EXCEPT ![m].current = NoBatch]
    /\ UNCHANGED <<size, stray, msgs, rows, phase, prepDirty, ing, sub, rec, world>>

\* failSubmission and failBeforeSubmit: evt.settlement.failed and its mark ...
AfterFailed(a) ==
    /\ a.k = "failed"
    /\ PublishThenMark("failed", a.b, MarkTerminalEventPublished(a.b))
    /\ after' = (after \ {a}) \cup {[a EXCEPT !.k = "pause"]}
    /\ UNCHANGED <<size, stray, msgs, accounts, phase, lane, ing, sub, watch, rec, height,
                   chain>>

\* ... then releaseLane(paused), pauseLane, or pauseLane and releaseLaneByMatchEvent.
AfterPause(a) ==
    LET m == MarketOf[a.b] IN
    /\ a.k = "pause" /\ EndTask(a)
    /\ lanes' = [lanes EXCEPT ![m] =
         [paused |-> TRUE,
          current |-> IF a.lane = "release" \/ (a.lane = "releaseByMatch" /\ @.current = a.b)
                      THEN NoBatch ELSE @.current]]
    /\ UNCHANGED <<size, stray, db, phase, prepDirty, registry, ing, sub, rec, world, faults>>

\* confirmSubmission: evt.settlement.confirmed and its mark.
AfterConfirmed(a) ==
    /\ a.k = "confirmed" /\ EndTask(a)
    /\ PublishThenMark("confirmed", a.b, MarkTerminalEventPublished(a.b))
    /\ UNCHANGED <<size, stray, msgs, accounts, phase, lane, ing, sub, rec, height,
                   chain>>

-----------------------------------------------------------------------------
(* runTerminalPoller: processTerminalBatch for one processed row; a            *)
(* successful transaction may be found confirmed, and can then not be dropped. *)
PollTerminal(b) ==
    LET sig == rows[b].sig IN
    /\ phase = "up" /\ ~Busy("poller") /\ b \in ListProcessed
    /\ \/ /\ chain[b][sig] = "err" /\ failSubmission(b, sig, "poller", "pause")
          /\ UNCHANGED chain
       \/ /\ chain[b][sig] = "ok" /\ chain' = [chain EXCEPT ![b][sig] = "okFinal"]
          /\ rows' = MarkConfirmedCAS(b, sig)
          /\ after' = after \cup {Task(b, "confirmed", "poller", "pause")}
    /\ UNCHANGED <<size, stray, msgs, accounts, phase, lane, ing, sub, watch, rec, height, published, faults>>

-----------------------------------------------------------------------------
(* runReconciler; recoverState runs the same steps before the goroutines start. *)

\* republishUnpublishedEvents: a publish and its mark.
Republish(b) ==
    /\ phase # "down" /\ rec = NoTask /\ ~Busy("rec")
    /\ \/ /\ b \in ListUnpublishedSubmitted
          /\ rows' = MarkSubmittedEventPublished(b)
          /\ UNCHANGED published
       \/ /\ b \in ListUnpublishedTerminal
          /\ published' = published \cup {Event(rows[b].status, b)}
          /\ rows' = MarkTerminalEventPublished(b)
    /\ UNCHANGED <<size, stray, msgs, accounts, phase, lane, procs, height, chain, faults>>

\* recoverState tries each submitted row once.
TriedOnce(b) == b \notin tried /\ tried' = IF phase = "recover" THEN tried \cup {b} ELSE tried

\* A submitted row is listed and tryFastForwardSubmitted applies the verdict of
\* its signature.  It says true also when its update fails: the reconciler will
\* try again, recoverState goes on with neither lane nor watch task; ...
ReconcileForward(b) ==
    /\ phase # "down" /\ rec = NoTask /\ ~Busy("rec") /\ b \in ListSubmitted
    /\ TriedOnce(b)
    /\ Observed(b, rows[b].sig)
    /\ \/ settleObserved(b, rows[b].sig, "rec") /\ UNCHANGED <<faults, strayed>>
       \/ /\ Fault /\ UNCHANGED <<rows, after>>
          /\ strayed' = IF phase = "recover" THEN strayed \cup {MarketOf[b]} ELSE strayed
    /\ UNCHANGED <<size, msgs, accounts, phase, lane, ing, sub, watch, rec, world>>

\* ... or it finds no verdict: not executed yet, or the RPC node does not say so; ...
ReconcileMiss(b) ==
    /\ phase # "down" /\ rec = NoTask /\ ~Busy("rec") /\ b \in ListSubmitted
    /\ TriedOnce(b)
    /\ rec' = [b |-> b, sig |-> rows[b].sig]
    /\ UNCHANGED <<size, db, phase, lane, ing, sub, watch, after, world, faults, strayed>>

\* Mutant: the lane is not taken.
ReconcileNoLane ==
    /\ rec # NoTask /\ rec' = NoTask
    /\ watch' = startWatchTask(rec.b, rec.sig)
    /\ UNCHANGED <<size, stray, db, phase, lane, ing, sub, after, world, faults>>

\* ... then it takes the lane for the row, if the lane is free (at start
\* always), and starts the watch task.
ReconcileResume ==
    LET b == rec.b  m == MarketOf[rec.b] IN
    /\ rec # NoTask /\ rec' = NoTask
    /\ lanes' = IF lanes[m].current = NoBatch \/ phase = "recover"
                THEN [lanes EXCEPT ![m].current = b] ELSE lanes
    /\ watch' = startWatchTask(b, rec.sig)
    /\ UNCHANGED <<size, stray, db, phase, prepDirty, registry, ing, sub, after, world, faults>>

\* The end of recoverState: it has been through every submitted row; markets
\* with prepared or queued rows are made dirty and the goroutines start.
RecoverDone ==
    /\ phase = "recover" /\ rec = NoTask /\ ~Busy("rec")
    /\ ListSubmitted \subseteq tried
    /\ phase' = "up" /\ tried' = {}
    /\ prepDirty' = ListQueuedMarketIDs
    /\ UNCHANGED <<size, db, lanes, registry, procs, world, faults, strayed>>

\* The process dies with everything it holds in memory.
Crash ==
    /\ phase # "down" /\ Fault /\ phase' = "down"
    /\ lanes' = [m \in Markets |-> [paused |-> FALSE, current |-> NoBatch]]
    /\ prepDirty' = {} /\ registry' = {}
    /\ ing' = {}
    /\ sub' = [b \in Batches |-> Idle] /\ watch' = [b \in Batches |-> Idle]
    /\ rec' = NoTask /\ after' = {} /\ tried' = {}
    /\ UNCHANGED <<size, db, world, strayed>>

\* Start and the first part of recoverState: the registries are loaded, paused
\* markets restored, processed rows observed again.
Restart ==
    /\ phase = "down" /\ phase' = "recover"
    /\ lanes' = [m \in Markets |-> [paused |-> m \in ListPausedMarketIDs, current |-> NoBatch]]
    /\ registry' = accounts \cup ListProcessed
    /\ accounts' = accounts \cup ListProcessed
    /\ UNCHANGED <<size, stray, msgs, rows, prepDirty, procs, world, faults>>

-----------------------------------------------------------------------------
(* The cluster and the RPC node (external). *)

BlockProduced ==
    /\ height < MaxHeight /\ height' = height + 1
    /\ UNCHANGED <<size, stray, db, phase, lane, procs, chain, published, faults>>

\* A transaction with a live blockhash is executed, with or without an error.
Execute(b, h) ==
    /\ chain[b][h] = "sent" /\ BlockhashValid(h)
    /\ \E r \in {"ok", "err"} : chain' = [chain EXCEPT ![b][h] = r]
    /\ UNCHANGED <<size, stray, db, phase, lane, procs, height, published, faults>>

\* Its block, not yet confirmed, is dropped by a fork.
Fork(b, h) ==
    /\ chain[b][h] \in {"ok", "err"} /\ Fault
    /\ chain' = [chain EXCEPT ![b][h] = "sent"]
    /\ UNCHANGED <<size, stray, db, phase, lane, procs, height, published>>

-----------------------------------------------------------------------------
Ingress == \/ \E f \in SUBSET msgs : FetchMessages(f)
           \/ InsertQueued
           \/ InsertFails
Prepare == \/ \E m \in Markets : PrepareNothing(m)
           \/ \E b \in Batches : PrepareSubmission(b) \/ PrepareTooLarge(b)
Submit(b) == SubmitMark(b) \/ SubmitTooLarge(b) \/ SubmitPublish(b) \/ SubmitSend(b)
Watch(b) == WatchObserve(b) \/ WatchRebroadcast(b) \/ WatchResign(b) \/ WatchResend(b)
Finish(a) == AfterProcessed(a) \/ AfterFailed(a) \/ AfterPause(a) \/ AfterConfirmed(a)
Reconcile == \/ \E b \in Batches : ReconcileForward(b) \/ ReconcileMiss(b)
             \/ ReconcileResume \/ RecoverDone
Cluster == \/ BlockProduced
           \/ \E b \in Batches, h \in Heights : Execute(b, h) \/ Fork(b, h)

Next == \/ Ingress \/ Prepare
        \/ \E b \in Batches : ScheduleClaim(b) \/ Submit(b) \/ Watch(b) \/ PollTerminal(b) \/ Republish(b)
        \/ \E a \in after : Finish(a)
        \/ Reconcile \/ Crash \/ Restart \/ Cluster

\* Every goroutine keeps running; the tickers keep firing; a crashed process is
\* restarted; publishing does not fail for ever; the cluster executes a
\* transaction it has before the blockhash expires.
Fairness ==
    /\ WF_vars(InsertQueued \/ InsertFails)
    /\ WF_vars(Prepare)
    /\ \A b \in Batches : /\ WF_vars(ScheduleClaim(b)) /\ WF_vars(Submit(b)) /\ SF_vars(Republish(b))
                          /\ WF_vars(WatchObserve(b)) /\ WF_vars(WatchResend(b))
                          /\ WF_vars(PollTerminal(b))
    /\ WF_vars(\E a \in after : Finish(a))
    /\ WF_vars(Reconcile) /\ WF_vars(Restart)
    /\ \A b \in Batches, h \in Heights : WF_vars(Execute(b, h))

Spec == Init /\ [][Next]_vars /\ Fairness

-----------------------------------------------------------------------------
(* Properties *)

\* The market lane: of the batches of one market at most one is submitted, whatever the
\* scheduler, the reconciler, a crash, a failed call or a late watcher did
\* (service.go:498-520), as long as no submitted row of the market was left without its
\* lane: by a failed fast-forward in recoverState (service.go:271-275) or a lost reply to
\* MarkSubmittedCAS (service.go:579-585).
OneSubmittedPerMarket ==
    \A b, c \in Batches :
        b # c /\ MarketOf[b] = MarketOf[c] /\ MarketOf[b] \notin strayed
        => ~(rows[b].status = "submitted" /\ rows[c].status = "submitted")

\* The signature is stored before the transaction is sent and replaced only after it
\* expired (submitMatch, resignSubmission): the only transaction of a batch the
\* cluster may still execute is the one its row names.
OnlyStoredSignatureLive ==
    \A b \in Batches, h \in Heights :
        chain[b][h] = "sent" /\ BlockhashValid(h) => rows[b].sig = h

\* A published verdict is the row's and the chain's: confirmed is published only for a row
\* that is confirmed with a finally successful transaction, failed only for a failed row, and
\* never both for one batch (confirmSubmission, failSubmission, republishUnpublishedEvents).
VerdictAgrees ==
    \A e \in published :
        /\ e.t = "confirmed" => /\ rows[e.b].status = "confirmed" /\ rows[e.b].sig = e.sig
                                /\ chain[e.b][e.sig] = "okFinal"
        /\ e.t = "failed" => rows[e.b].status = "failed" /\ rows[e.b].sig = e.sig

\* A failed batch stops its market, also after a restart: once the failing goroutine
\* is done the lane is paused (failSubmission, failBeforeSubmit, recoverState).
FailedPausesLane ==
    phase = "up" =>
        \A b \in Batches : rows[b].status = "failed" =>
            \/ lanes[MarketOf[b]].paused
            \/ \E a \in after : a.b = b /\ a.k \in {"failed", "pause"}

\* The lane of a market: one batch on its way unless a row strayed, and none after a failure.
LaneExclusive == TypeOK /\ OneSubmittedPerMarket /\ FailedPausesLane

\* An order goes without its witness only if a batch with that order was processed before
\* (applyWarmOrderStates reads a registry rebuilt at every start).
WarmOrdersWereProcessed ==
    \A b \in Batches : \A o \in rows[b].warm : \E c \in Batches \ {b} :
        o \in OrdersOf[c] /\ rows[c].status \in {"processed", "confirmed", "failed"} /\ rows[c].sig # 0

\* A stored batch is never forgotten by the prepare worker, which no timer drives: while a
\* queued row waits in an active lane its market is on the worker's list
\* (handleFetchedMessages, prepareSubmission, recoverState).
QueuedWillBePrepared ==
    phase = "up" =>
        \A b \in Batches : rows[b].status = "queued" /\ rows[b].lane = "active" => MarketOf[b] \in prepDirty

\* The prepare worker forgets no batch and takes for known only what was processed before.
PreparedSoundly == WarmOrdersWereProcessed /\ QueuedWillBePrepared

\* Batches of a market are first submitted in the order they were stored: none overtakes an
\* earlier one that is still queued, prepared or submitted with the lane active, as long as
\* no submitted row of the market was left without its lane.
SubmittedInOrder ==
    [][\A b, c \in Batches :
         (/\ rows[b].status = "prepared" /\ rows'[b].status = "submitted"
          /\ MarketOf[c] = MarketOf[b] /\ MarketOf[b] \notin strayed /\ rows[c].status # "absent" /\ rows[c].at < rows[b].at)
         => rows[c].lane = "paused" \/ rows[c].status \in {"processed", "confirmed", "failed"}]_vars

\* Every verdict reaches the stream, whatever crash or failed publish comes between the row
\* and the event (republishUnpublishedEvents).
VerdictPublished ==
    \A b \in Batches :
        rows[b].status \in {"confirmed", "failed"} ~> \E e \in published : e.b = b /\ e.t = rows[b].status

\* A submitted row is never forgotten: again and again some task watches it, or it moves on.
SubmittedIsWatched ==
    \A b \in Batches : rows[b].status = "submitted" ~> (watch[b].pc # "off" \/ rows[b].status # "submitted")

\* Nothing that needs a verdict is left alone, and no verdict is kept back.
SettlementProceeds == VerdictPublished /\ SubmittedIsWatched

-----------------------------------------------------------------------------
(* What the design or a comment says and the code does not keep: TLC finds a counterexample
   to each when its name is added to a configuration (README, section 4). *)

\* A submitted row always has its market's lane, so that the market submits one batch at a
\* time: not after a failed fast-forward of recoverState, nor a lost reply of MarkSubmittedCAS.
AlwaysOneSubmitted ==
    \A b, c \in Batches :
        b # c /\ MarketOf[b] = MarketOf[c] => ~(rows[b].status = "submitted" /\ rows[c].status = "submitted")

\* Nor are the batches of a market then submitted in the order they were stored.
AlwaysSubmittedInOrder ==
    [][\A b, c \in Batches :
         (/\ rows[b].status = "prepared" /\ rows'[b].status = "submitted"
          /\ MarketOf[c] = MarketOf[b] /\ rows[c].status # "absent" /\ rows[c].at < rows[b].at)
         => rows[c].lane = "paused" \/ rows[c].status \in {"processed", "confirmed", "failed"}]_vars

\* The market lane never stalls: a batch that is prepared is submitted or fails, unless
\* a failure of another batch has paused the lane.
LaneNeverStalls ==
    \A b \in Batches : (rows[b].status = "prepared")
                       ~> (rows[b].status # "prepared" \/ lanes[MarketOf[b]].paused)

\* A signature is replaced only when its transaction can have had no effect.
ReplacedNeverExecuted ==
    \A b \in Batches, h \in Heights : h < rows[b].sig => chain[b][h] \notin {"ok", "okFinal"}
=============================================================================
