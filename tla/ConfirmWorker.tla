--------------------------- MODULE ConfirmWorker ---------------------------
(***************************************************************************)
(* The confirmation of user transactions: the gateway stores a signature   *)
(* and publishes cmd.tx.confirm.*; the worker of its kind (packages        *)
(* depositconfirm, withdrawconfirm, marketconfirm, which are the same      *)
(* state machine) waits for the transaction, verifies it and publishes a   *)
(* verdict; the market projector stores confirmed markets.  The wait is    *)
(* what module ConfirmWait promises, and ChainRouter implements.           *)
(*                                                                         *)
(* task[s] is the goroutine that processes signature s, by its next step.  *)
(* msgs[s] is the command: "ready" to be fetched, "out" (delivered, not    *)
(* acknowledged), "none".  The stream keeps message ids for 24 hours, so a *)
(* command or an event is stored once.  The gateway refuses a signature    *)
(* that does not parse, so the workers' own branch for it is left out.     *)
(***************************************************************************)
EXTENDS Confirmation

CONSTANTS
    KindsOf,     \* the functions [Sigs -> Kinds] considered: where a signature was posted
    NoSig

Kinds == {"deposit", "withdraw", "market"}

ASSUME WorkerAssumption ==
    /\ KindsOf \subseteq [Sigs -> Kinds]
    /\ NoSig \notin Sigs
    /\ MaxFaults \in Nat

VARIABLES
    kind,        \* the endpoint, and so the worker, of each signature
    holds,         \* the transactions at confirmed commitment: "none", "err", or the instruction held
    rows,        \* deposit_submissions, withdraw_submissions, market_submissions: status
    stored,      \* commands the stream has stored
    accepted,    \* submissions answered with 202
    msgs,        \* the command of each signature
    up,          \* the process runs
    hand,        \* per kind: the signature handleMessage has loaded
    task,        \* watchActive and the goroutines behind it
    published,   \* verdicts on evt.<kind>.confirmed and evt.<kind>.failed
    mevents,     \* evt.market.confirmed not yet acknowledged by the projector
    markets      \* the markets table: "none", "open", "resolved"

chain  == <<kind, holds>>
worker == <<hand, task>>
store  == <<rows, markets>>
stream == <<stored, accepted, msgs, published, mevents>>
workerVars   == <<chain, store, stream, up, worker, faults>>

Steps == {"off", "mark", "wait", "verify", "pubConfirmed", "markConfirmed", "pubExpired",
          "markExpired", "pubFailed", "markFailed", "retry"}
Off == [pc |-> "off", msg |-> FALSE]
Terminal == {"confirmed", "failed", "expired"}

WorkerTypeOK ==
    /\ kind \in KindsOf
    /\ holds \in [Sigs -> {"none", "err", "other"} \cup Kinds]
    /\ rows \in [Sigs -> {"none", "submitted", "watching"} \cup Terminal]
    /\ stored \subseteq Sigs /\ accepted \subseteq stored
    /\ msgs \in [Sigs -> {"none", "ready", "out"}]
    /\ up \in BOOLEAN
    /\ hand \in [Kinds -> Sigs \cup {NoSig}]
    /\ task \in [Sigs -> [pc : Steps, msg : BOOLEAN]]
    /\ published \subseteq [t : {"confirmed", "failed"}, s : Sigs]
    /\ mevents \subseteq Sigs
    /\ markets \in [Sigs -> {"none", "open", "resolved"}]
    /\ faults \in 0..MaxFaults

WorkerInit ==
    /\ kind \in KindsOf
    /\ holds = [s \in Sigs |-> "none"]
    /\ rows = [s \in Sigs |-> "none"]
    /\ stored = {} /\ accepted = {} /\ msgs = [s \in Sigs |-> "none"]
    /\ up = TRUE
    /\ hand = [k \in Kinds |-> NoSig]
    /\ task = [s \in Sigs |-> Off]
    /\ published = {} /\ mevents = {}
    /\ markets = [s \in Sigs |-> "none"]
    /\ faults = 0

-----------------------------------------------------------------------------
(* The gateway: POST of a signature.  UpsertSubmitted leaves an existing row *)
(* as it is; the publish of the command may fail after the row is stored.    *)

UpsertSubmitted(s) == [rows EXCEPT ![s] = IF @ = "none" THEN "submitted" ELSE @]

Submit(s) ==
    /\ up /\ s \notin accepted
    /\ rows' = UpsertSubmitted(s)
    /\ \/ /\ stored' = stored \cup {s} /\ accepted' = accepted \cup {s}
          /\ msgs' = [msgs EXCEPT ![s] = IF s \in stored THEN @ ELSE "ready"]
          /\ UNCHANGED faults
       \/ Fault /\ UNCHANGED <<stored, accepted, msgs>>
    /\ UNCHANGED <<chain, markets, up, worker, published, mevents>>

SubmitDeposit(s)  == kind[s] = "deposit" /\ Submit(s)
SubmitWithdraw(s) == kind[s] = "withdraw" /\ Submit(s)
CreateMarket(s)   == kind[s] = "market" /\ Submit(s)

-----------------------------------------------------------------------------
(* run and handleMessage, one consumer per kind *)

\* The row is loaded: a decided one is acknowledged, another goes on with the loaded copy.
HandleLoad(s) ==
    /\ up /\ msgs[s] = "ready" /\ hand[kind[s]] = NoSig
    /\ IF rows[s] \in Terminal
       THEN msgs' = [msgs EXCEPT ![s] = "none"] /\ UNCHANGED hand
       ELSE msgs' = [msgs EXCEPT ![s] = "out"] /\ hand' = [hand EXCEPT ![kind[s]] = s]
    /\ UNCHANGED <<chain, store, stored, accepted, published, mevents, up, task, faults>>

\* A nak of a command that was acknowledged meanwhile has no effect.
Nak(s) == msgs' = [msgs EXCEPT ![s] = IF @ = "out" THEN "ready" ELSE @]

\* startSubmissionTask: markActive, or the command is nak'd when a task is active.
HandleStart(s) ==
    /\ up /\ hand[kind[s]] = s /\ hand' = [hand EXCEPT ![kind[s]] = NoSig]
    /\ IF task[s].pc = "off"
       THEN task' = [task EXCEPT ![s] = [pc |-> "mark", msg |-> TRUE]] /\ UNCHANGED msgs
       ELSE Nak(s) /\ UNCHANGED task
    /\ UNCHANGED <<chain, store, stored, accepted, published, mevents, up, faults>>

\* The ack wait of a delivered command ends.
AckWaitExpires(s) ==
    /\ msgs[s] = "out" /\ msgs' = [msgs EXCEPT ![s] = "ready"]
    /\ UNCHANGED <<chain, store, stored, accepted, published, mevents, up, worker, faults>>

-----------------------------------------------------------------------------
(* processSubmission *)

GoOn(s, pc) == task' = [task EXCEPT ![s].pc = pc]

\* retry = true: the command is nak'd, a recovery task sleeps and loads the row again.
Retry(s) ==
    IF task[s].msg THEN task' = [task EXCEPT ![s] = Off] /\ Nak(s)
                   ELSE GoOn(s, "retry") /\ UNCHANGED msgs

FaultRetry(s) == Fault /\ Retry(s)

\* terminal = true: clearActive, and the command is acknowledged.
Finish(s) ==
    /\ task' = [task EXCEPT ![s] = Off]
    /\ \/ msgs' = [msgs EXCEPT ![s] = IF task[s].msg THEN "none" ELSE @] /\ UNCHANGED faults
       \/ task[s].msg /\ Fault /\ UNCHANGED msgs

MarkWatching(s) ==
    /\ task[s].pc = "mark"
    /\ \/ /\ rows' = [rows EXCEPT ![s] = IF @ = "submitted" THEN "watching" ELSE @]
          /\ GoOn(s, "wait") /\ UNCHANGED <<msgs, faults>>
       \/ FaultRetry(s) /\ UNCHANGED rows
    /\ UNCHANGED <<chain, markets, stored, accepted, published, mevents, up, hand>>

Landed(s) == holds[s] \notin {"none", "err"}

\* WaitForConfirmed: the transaction is confirmed without an error, ...
WaitConfirmed(s) ==
    /\ task[s].pc = "wait" /\ Landed(s) /\ GoOn(s, "verify")
    /\ UNCHANGED <<chain, store, stream, up, hand, faults>>

\* ... or the 90 seconds pass, a transaction that failed on chain included.
WaitExpired(s) ==
    /\ task[s].pc = "wait" /\ GoOn(s, "pubExpired")
    /\ UNCHANGED <<chain, store, stream, up, hand, faults>>

\* The transaction holds the instruction of its kind with the submitted fields.
VerifyDepositTransaction(s)      == holds[s] = "deposit"
VerifyWithdrawTransaction(s)     == holds[s] = "withdraw"
VerifyMarketCreateTransaction(s) == holds[s] = "market"

Verified(s) ==
    \/ kind[s] = "deposit"  /\ VerifyDepositTransaction(s)
    \/ kind[s] = "withdraw" /\ VerifyWithdrawTransaction(s)
    \/ kind[s] = "market"   /\ VerifyMarketCreateTransaction(s)

\* A retryable error (RPC, metadata) sends the task back.
Verify(s) ==
    /\ task[s].pc = "verify"
    /\ \/ GoOn(s, IF Verified(s) THEN "pubConfirmed" ELSE "pubFailed") /\ UNCHANGED <<msgs, faults>>
       \/ FaultRetry(s)
    /\ UNCHANGED <<chain, store, stored, accepted, published, mevents, up, hand>>

\* A verdict is published before the row says so.
PublishVerdict(s, t) ==
    /\ published' = published \cup {[t |-> t, s |-> s]}
    /\ mevents' = IF t = "confirmed" /\ kind[s] = "market" /\ [t |-> t, s |-> s] \notin published
                  THEN mevents \cup {s} ELSE mevents

Publish(s, pc, t, then) ==
    /\ task[s].pc = pc
    /\ \/ PublishVerdict(s, t) /\ GoOn(s, then) /\ UNCHANGED <<msgs, faults>>
       \/ FaultRetry(s) /\ UNCHANGED <<published, mevents>>
       \/ FaultRetry(s) /\ PublishVerdict(s, t)
    /\ UNCHANGED <<chain, store, stored, accepted, up, hand>>

\* Mutant: the error of the publish is only logged.
PublishConfirmedLogged(s) ==
    /\ task[s].pc = "pubConfirmed" /\ GoOn(s, "markConfirmed")
    /\ \/ PublishVerdict(s, "confirmed") /\ UNCHANGED faults
       \/ Fault /\ UNCHANGED <<published, mevents>>
    /\ UNCHANGED <<chain, store, stored, accepted, msgs, up, hand>>

PublishConfirmed(s) == Publish(s, "pubConfirmed", "confirmed", "markConfirmed")

PublishFailed(s) == \/ Publish(s, "pubFailed", "failed", "markFailed")
                    \/ Publish(s, "pubExpired", "failed", "markExpired")

\* MarkConfirmed, MarkFailed and MarkExpired do not look at the present status.
Mark(s, pc, status) ==
    /\ task[s].pc = pc
    /\ \/ rows' = [rows EXCEPT ![s] = status] /\ Finish(s)
       \/ FaultRetry(s) /\ UNCHANGED rows
    /\ UNCHANGED <<chain, markets, stored, accepted, published, mevents, up, hand>>

MarkConfirmed(s) == Mark(s, "markConfirmed", "confirmed")
MarkFailed(s) == Mark(s, "markFailed", "failed")
MarkExpired(s) == Mark(s, "markExpired", "expired")

\* Mutant: the recovery task waits for the row to be decided by somebody else.
RecoveryWaits(s) ==
    /\ task[s].pc = "retry" /\ rows[s] \in Terminal
    /\ task' = [task EXCEPT ![s] = Off]
    /\ UNCHANGED <<chain, store, stream, up, hand, faults>>

\* runRecoveryTask after its delay: the row is loaded again; a decided one ends the task.
RecoveryReload(s) ==
    /\ task[s].pc = "retry"
    /\ task' = [task EXCEPT ![s] = IF rows[s] \in Terminal THEN Off ELSE [@ EXCEPT !.pc = "mark"]]
    /\ UNCHANGED <<chain, store, stream, up, hand, faults>>

ProcessSubmission(s) ==
    \/ MarkWatching(s) \/ WaitConfirmed(s) \/ WaitExpired(s) \/ Verify(s)
    \/ PublishConfirmed(s) \/ PublishFailed(s) \/ MarkConfirmed(s) \/ MarkFailed(s) \/ MarkExpired(s)
    \/ RecoveryReload(s)
Consume(s) == HandleLoad(s) \/ HandleStart(s)

\* The three packages: the consumer of each, and its tasks.
DepositConsume(s)  == kind[s] = "deposit" /\ Consume(s)
WithdrawConsume(s) == kind[s] = "withdraw" /\ Consume(s)
MarketConsume(s)   == kind[s] = "market" /\ Consume(s)
DepositTask(s)     == kind[s] = "deposit" /\ ProcessSubmission(s)
WithdrawTask(s)    == kind[s] = "withdraw" /\ ProcessSubmission(s)
MarketTask(s)      == kind[s] = "market" /\ ProcessSubmission(s)

-----------------------------------------------------------------------------
(* The market projector and the resolution by the creator *)

\* Mutant: the event is acknowledged although Save failed.
ProjectMarketAcks(s) ==
    /\ up /\ s \in mevents /\ mevents' = mevents \ {s}
    /\ \/ markets' = [markets EXCEPT ![s] = "open"] /\ rows' = [rows EXCEPT ![s] = "confirmed"]
          /\ UNCHANGED faults
       \/ Fault /\ UNCHANGED <<markets, rows>>
    /\ UNCHANGED <<chain, stored, accepted, msgs, published, up, worker>>

\* Save (an upsert that sets status and outcome), the row of the submission, the cache, ack.
ProjectMarket(s) ==
    /\ up /\ s \in mevents
    /\ markets' = [markets EXCEPT ![s] = "open"]
    /\ \/ rows' = [rows EXCEPT ![s] = "confirmed"] /\ mevents' = mevents \ {s} /\ UNCHANGED faults
       \/ Fault /\ rows' \in {rows, [rows EXCEPT ![s] = "confirmed"]} /\ UNCHANGED mevents
    /\ UNCHANGED <<chain, stored, accepted, msgs, published, up, worker>>

\* handleResolveCreator
ResolveCreator(s) ==
    /\ up /\ markets[s] = "open" /\ markets' = [markets EXCEPT ![s] = "resolved"]
    /\ UNCHANGED <<chain, rows, stream, up, worker, faults>>

-----------------------------------------------------------------------------
Crash ==
    /\ up /\ Fault /\ up' = FALSE
    /\ hand' = [k \in Kinds |-> NoSig] /\ task' = [s \in Sigs |-> Off]
    /\ UNCHANGED <<chain, store, stream>>

\* Start: recoverActive starts a task for every row that is not decided (ListActive).
Restart ==
    /\ ~up /\ up' = TRUE
    /\ task' = [s \in Sigs |-> IF rows[s] \in {"submitted", "watching"}
                               THEN [pc |-> "mark", msg |-> FALSE] ELSE Off]
    /\ UNCHANGED <<chain, store, stream, hand, faults>>

\* A transaction reaches confirmed commitment (external): it failed, or holds the posted
\* instruction, or another one or other fields.
LandTx(s) ==
    /\ holds[s] = "none"
    /\ \E r \in {"err", "other", kind[s]} : holds' = [holds EXCEPT ![s] = r]
    /\ UNCHANGED <<kind, store, stream, up, worker, faults>>

WorkerNext ==
    \/ \E s \in Sigs : \/ SubmitDeposit(s) \/ SubmitWithdraw(s) \/ CreateMarket(s)
                       \/ DepositConsume(s) \/ WithdrawConsume(s) \/ MarketConsume(s)
                       \/ DepositTask(s) \/ WithdrawTask(s) \/ MarketTask(s)
                       \/ ProjectMarket(s) \/ ResolveCreator(s) \/ AckWaitExpires(s) \/ LandTx(s)
    \/ Crash \/ Restart

\* Goroutines run, deadlines pass, commands come back, a process that died is started again.
WorkerFairness ==
    /\ \A s \in Sigs :
         /\ WF_workerVars(ProcessSubmission(s)) /\ SF_workerVars(HandleLoad(s)) /\ WF_workerVars(HandleStart(s))
         /\ WF_workerVars(ProjectMarket(s)) /\ WF_workerVars(AckWaitExpires(s))
    /\ WF_workerVars(Restart)

WorkerSpec == WorkerInit /\ [][WorkerNext]_workerVars /\ WorkerFairness

-----------------------------------------------------------------------------
(* Properties *)

\* A decided row has its verdict on the stream, whatever failed or crashed in between
\* (processSubmission publishes first), and a confirmed verdict is about a transaction that is
\* confirmed on chain and holds what was submitted.
RowHasVerdict ==
    /\ \A s \in Sigs : /\ rows[s] = "confirmed" => [t |-> "confirmed", s |-> s] \in published
                       /\ rows[s] \in {"failed", "expired"} => [t |-> "failed", s |-> s] \in published
    /\ \A e \in published : e.t = "confirmed" => Verified(e.s)

\* An accepted command leaves the stream only when its row is decided: acks by a task, by
\* handleMessage and by a task that outlived the ack wait included.
AckedIsDecided ==
    \A s \in accepted : msgs[s] = "none" => rows[s] \in Terminal

\* No decision without its verdict on the stream, no acknowledgement without a decision.
DecisionsKept == WorkerTypeOK /\ RowHasVerdict /\ AckedIsDecided

\* Every accepted submission is decided in the end (handleMessage, runRecoveryTask,
\* recoverActive).
EveryAcceptedDecided == \A s \in Sigs : s \in accepted ~> rows[s] \in Terminal

\* A confirmed market reaches the markets table.
MarketProjected ==
    \A s \in Sigs : (kind[s] = "market" /\ [t |-> "confirmed", s |-> s] \in published)
                    ~> markets[s] # "none"

-----------------------------------------------------------------------------
(* What the design or a comment says and the code does not keep: TLC finds a counterexample
   to each when its name is added to the configuration. *)

\* One submission, one verdict: a failed submission is not confirmed later, nor the reverse.
OneVerdict ==
    \A s \in Sigs : ~({[t |-> "confirmed", s |-> s], [t |-> "failed", s |-> s]} \subseteq published)

\* A resolved market stays resolved (a second delivery of evt.market.confirmed saves it as open).
ResolvedStays ==
    [][\A s \in Sigs : markets[s] = "resolved" => markets'[s] = "resolved"]_workerVars
=============================================================================
