---------------------------- MODULE FundsService ----------------------------
(***************************************************************************)
(* The event side of the funds service (internal/funds): the durable       *)
(* JetStream consumers that drive one in-memory state machine, the         *)
(* in-flight window of match batches, the projector that writes Postgres   *)
(* and the recovery after a crash.                                         *)
(*                                                                         *)
(* Each consumer is a goroutine of its own (Service.Start), so handlers of *)
(* different subjects interleave.  A handler is split where another        *)
(* goroutine can observe it: InflightStore, PendingTerminal and the wallet *)
(* shards have separate mutexes, and Service.stateMu is taken as a READER  *)
(* by every handler, so it only excludes the projector's capture.          *)
(*                                                                         *)
(* The money of a batch is the one buy leg that matters here: one unit     *)
(* that is locked before the match, becomes a pending share when the fill  *)
(* is applied, and becomes an available share (confirmed) or available     *)
(* USDC again (failed).                                                    *)
(***************************************************************************)
EXTENDS Integers, Sequences, FiniteSets

CONSTANTS
    Batches,        \* match_event_ids
    Deposits,       \* deposit signatures
    Withdrawals,    \* withdrawal signatures
    Releases,       \* evt.order.released messages
    MaxCrashes,     \* bound on crashes
    MaxFaults       \* bound on lost or failed acks and failed Postgres flushes

ASSUME ConstantsAssumption ==
    /\ MaxCrashes \in Nat
    /\ MaxFaults \in Nat
    /\ Deposits \cap Withdrawals = {}

Transfers == Deposits \cup Withdrawals

Lifecycle == {"submitted", "confirmed", "failed"}
Terminal  == {"confirmed", "failed"}
Phases    == {"none", "pending_applied"} \cup Lifecycle

\* The AP_EVT messages funds subscribes to.  JetStream drops a second message
\* with the same MsgId, so an event is in the log at most once.
Event == [kind : {"execution"} \cup Lifecycle, id : Batches]
         \cup [kind : {"deposit"}, id : Deposits]
         \cup [kind : {"withdraw"}, id : Withdrawals]
         \cup [kind : {"released"}, id : Releases]

\* One durable pull consumer, and one goroutine, per subject.
Consumers == {"execution", "settlement", "deposit", "withdraw", "released"}

Subject(c) == IF c = "settlement" THEN Lifecycle ELSE {c}

\* The live consumers and the goroutine that replays the log during recovery.
Goroutines == Consumers \cup {"replay"}

VARIABLES
    log,        \* the AP_EVT stream
    acked,      \* acked[c]: sequence numbers JetStream has an ack of c for
    handler,    \* handler[g]: the message goroutine g works on, and where it is
    mem,        \* the state of the service's process
    snap,       \* what the projector captured and has not yet written
    disk,       \* wallet_accounts, positions and funds_recovery_state
    mode,       \* "replay" during recovery, then "live"
    replayEnd,  \* the last sequence number recovery replays
    crashes, faults

vars == <<log, acked, handler, mem, snap, disk, mode, replayEnd, crashes, faults>>

-----------------------------------------------------------------------------
(* Values *)

Account == [locked : Nat, usdc : Nat, pending : Nat, shares : Nat]

\* Everything a recovery snapshot holds: the balances together with the
\* idempotency state and the event checkpoint.
State == [inflight : [Batches -> Phases],
          raw      : SUBSET Batches,
          pendTerm : [Batches -> {"none"} \cup Lifecycle],
          acct     : [Batches -> Account],
          fills    : [Batches -> Nat],
          done     : SUBSET Transfers,
          credited : [Transfers -> Nat],
          released : [Releases -> Nat],
          evtSeq   : Nat]

InitState == [inflight |-> [b \in Batches |-> "none"],
              raw      |-> {},
              pendTerm |-> [b \in Batches |-> "none"],
              acct     |-> [b \in Batches |->
                              [locked |-> 1, usdc |-> 0, pending |-> 0, shares |-> 0]],
              fills    |-> [b \in Batches |-> 0],
              done     |-> {},
              credited |-> [t \in Transfers |-> 0],
              released |-> [r \in Releases |-> 0],
              evtSeq   |-> 0]

\* No snapshot is waiting to be written.
NoSnap == [evtSeq |-> -1]

\* Where a handler stands between two calls another goroutine can interleave with.
Steps == {"idle", "fill", "take", "advance", "lookup", "park", "effect", "ack", "dup"}

\* A handler holds stateMu as a reader in every step but these: "dup" is the
\* early return of a message that was already processed.
Unlocked == {"idle", "dup"}

IdleHandler == [at |-> "idle", seq |-> 0, phase |-> "none"]

MsgOf(g) == log[handler[g].seq]

Least(x, y) == IF x < y THEN x ELSE y

-----------------------------------------------------------------------------
Init ==
    /\ log = <<>>
    /\ acked = [c \in Consumers |-> {}]
    /\ handler = [g \in Goroutines |-> IdleHandler]
    /\ mem = InitState
    /\ snap = NoSnap
    /\ disk = InitState
    /\ mode = "live"
    /\ replayEnd = 0
    /\ crashes = 0
    /\ faults = 0

\* The matcher, the settlement service and the confirm workers publish.  A
\* batch's lifecycle events follow its execution; both terminals may appear.
Publish(e) ==
    /\ \A i \in DOMAIN log : log[i] # e
    /\ e.kind \in Lifecycle =>
           \E i \in DOMAIN log : log[i] = [kind |-> "execution", id |-> e.id]
    /\ log' = Append(log, e)
    /\ UNCHANGED <<acked, handler, mem, snap, disk, mode, replayEnd, crashes, faults>>

\* Goroutine g goes to a step, about to apply a phase if the step needs one.
Goto(g, step, phase) ==
    handler' = [handler EXCEPT ![g].at = step, ![g].phase = phase]

Work(g, i, step, phase) ==
    handler' = [handler EXCEPT ![g] = [at |-> step, seq |-> i, phase |-> phase]]

\* Mutant: the batch is registered again although it is in flight.
BeginExecutionUnguarded(g, i) ==
    LET b == log[i].id IN
    /\ log[i].kind = "execution"
    /\ mem' = [mem EXCEPT !.inflight[b] = "pending_applied", !.raw = @ \cup {b}]
    /\ Work(g, i, "fill", "none")

\* handleMatchBatchMessage up to InflightStore.Register: the check and the
\* registration only compete with this goroutine.
BeginExecution(g, i) ==
    LET b == log[i].id IN
    /\ log[i].kind = "execution"
    /\ \/ /\ mem.inflight[b] # "none"
          /\ Work(g, i, "dup", "none")
          /\ UNCHANGED mem
       \/ /\ mem.inflight[b] = "none"
          /\ mem' = [mem EXCEPT !.inflight[b] = "pending_applied", !.raw = @ \cup {b}]
          /\ Work(g, i, "fill", "none")

\* handleSettlementSubmittedMessage: a batch that is not in flight yet is
\* parked as a pending terminal.
BeginSubmitted(g, i) ==
    /\ log[i].kind = "submitted"
    /\ Work(g, i, IF mem.inflight[log[i].id] = "none" THEN "park" ELSE "advance", "submitted")
    /\ UNCHANGED mem

\* handleSettlementConfirmedMessage and handleSettlementFailedMessage.
BeginTerminal(g, i) ==
    /\ log[i].kind \in Terminal
    /\ Work(g, i, "advance", log[i].kind)
    /\ UNCHANGED mem

\* Mutant: the signature is not marked as processed.
BeginTransferUnmarked(g, i) ==
    LET t == log[i].id IN
    /\ log[i].kind \in {"deposit", "withdraw"}
    /\ t \notin mem.done
    /\ mem' = [mem EXCEPT !.credited[t] = @ + 1]
    /\ Work(g, i, "ack", "none")

\* handleDepositConfirmedMessage and handleWithdrawConfirmedMessage: the
\* balance and the processed-signature store change under one reader lock.
BeginTransfer(g, i) ==
    LET t == log[i].id IN
    /\ log[i].kind \in {"deposit", "withdraw"}
    /\ \/ /\ t \in mem.done
          /\ Work(g, i, "dup", "none")
          /\ UNCHANGED mem
       \/ /\ t \notin mem.done
          /\ mem' = [mem EXCEPT !.credited[t] = @ + 1, !.done = @ \cup {t}]
          /\ Work(g, i, "ack", "none")

\* handleOrderReleasedMessage has no idempotency check.
BeginReleased(g, i) ==
    /\ log[i].kind = "released"
    /\ mem' = [mem EXCEPT !.released[log[i].id] = @ + 1]
    /\ Work(g, i, "ack", "none")

\* dispatchMessage.
Dispatch(g, i) ==
    \/ BeginExecution(g, i)
    \/ BeginSubmitted(g, i)
    \/ BeginTerminal(g, i)
    \/ BeginTransfer(g, i)
    \/ BeginReleased(g, i)

Unacked(c) == {i \in DOMAIN log : log[i].kind \in Subject(c) /\ i \notin acked[c]}

\* runFetchLoop of a live consumer takes its oldest unacked message.
Fetch(c) ==
    /\ mode = "live"
    /\ handler[c].at = "idle"
    /\ \E i \in Unacked(c) :
          /\ \A j \in Unacked(c) : i <= j
          /\ Dispatch(c, i)
    /\ UNCHANGED <<log, acked, snap, disk, mode, replayEnd, crashes, faults>>

\* The delivery of an older message was lost: it waits for its redelivery
\* while the loop fetches a younger one.
FetchAhead(c) ==
    /\ mode = "live"
    /\ handler[c].at = "idle"
    /\ faults < MaxFaults
    /\ faults' = faults + 1
    /\ \E i, j \in Unacked(c) : j < i /\ Dispatch(c, i)
    /\ UNCHANGED <<log, acked, snap, disk, mode, replayEnd, crashes>>

\* replayEventLog: the same handlers, one message after the other.
Replay ==
    /\ mode = "replay"
    /\ handler["replay"].at = "idle"
    /\ handler["replay"].seq < replayEnd
    /\ Dispatch("replay", handler["replay"].seq + 1)
    /\ UNCHANGED <<log, acked, snap, disk, mode, replayEnd, crashes, faults>>

\* ApplyMatchPending for the batch's buy leg (Manager.applyFillForOrder).
ApplyFill(g) ==
    LET b == MsgOf(g).id
        a == mem.acct[b] IN
    /\ handler[g].at = "fill"
    /\ mem' = [mem EXCEPT !.fills[b] = @ + 1,
                          !.acct[b] = [a EXCEPT !.locked = @ - Least(1, @),
                                                !.pending = @ + 1]]
    /\ Goto(g, "take", "none")

\* TakePendingTerminal, and applyPendingLifecycle if one was parked.
TakePendingTerminal(g) ==
    LET b == MsgOf(g).id IN
    /\ handler[g].at = "take"
    /\ mem' = [mem EXCEPT !.pendTerm[b] = "none"]
    /\ IF mem.pendTerm[b] = "none" THEN Goto(g, "ack", "none")
                                   ELSE Goto(g, "advance", mem.pendTerm[b])

\* Mutant: a late submitted overwrites whatever phase the batch has.
AdvanceToSubmittedAlways(g) ==
    /\ handler[g].at = "advance"
    /\ handler[g].phase = "submitted"
    /\ mem' = [mem EXCEPT !.inflight[MsgOf(g).id] = "submitted"]
    /\ Goto(g, "ack", "none")

\* AdvanceToSubmitted: anything but pending_applied stays as it is.
AdvanceToSubmitted(g) ==
    LET b == MsgOf(g).id IN
    /\ handler[g].at = "advance"
    /\ handler[g].phase = "submitted"
    /\ mem' = IF mem.inflight[b] = "pending_applied"
              THEN [mem EXCEPT !.inflight[b] = "submitted"] ELSE mem
    /\ Goto(g, "ack", "none")

\* AdvanceToTerminal and the branches applyTerminal takes on its result: an
\* unknown batch is looked up again, a terminal one keeps its phase.
AdvanceToTerminal(g) ==
    LET b == MsgOf(g).id
        p == handler[g].phase IN
    /\ handler[g].at = "advance"
    /\ p \in Terminal
    /\ \/ /\ mem.inflight[b] = "none"
          /\ Goto(g, "lookup", p)
          /\ UNCHANGED mem
       \/ /\ mem.inflight[b] \in Terminal
          /\ Goto(g, "ack", "none")
          /\ UNCHANGED mem
       \/ /\ mem.inflight[b] \in {"pending_applied", "submitted"}
          /\ mem' = [mem EXCEPT !.inflight[b] = p]
          /\ IF b \in mem.raw THEN Goto(g, "effect", p) ELSE Goto(g, "ack", "none")

\* applyTerminal's second InflightStore.Get: only a batch still unknown is parked.
LookupAgain(g) ==
    /\ handler[g].at = "lookup"
    /\ IF mem.inflight[MsgOf(g).id] = "none" THEN Goto(g, "park", handler[g].phase)
                                             ELSE Goto(g, "ack", "none")
    /\ UNCHANGED mem

pendingPhasePriority(p) ==
    CASE p = "confirmed" -> 3 [] p = "failed" -> 2 [] p = "submitted" -> 1 [] OTHER -> 0

AddPendingTerminal(g) ==
    LET b == MsgOf(g).id
        p == handler[g].phase IN
    /\ handler[g].at = "park"
    /\ mem' = IF pendingPhasePriority(mem.pendTerm[b]) >= pendingPhasePriority(p)
              THEN mem ELSE [mem EXCEPT !.pendTerm[b] = p]
    /\ Goto(g, "ack", "none")

\* ApplySettlementConfirmedByBatch moves pending to available, as far as there
\* is pending; ApplySettlementFailedByBatch refunds the cost unconditionally.
ApplyEffect(g) ==
    LET b == MsgOf(g).id
        a == mem.acct[b] IN
    /\ handler[g].at = "effect"
    /\ mem' = [mem EXCEPT !.acct[b] =
                 IF handler[g].phase = "confirmed"
                 THEN [a EXCEPT !.pending = @ - Least(1, @),
                                !.shares  = @ + Least(1, a.pending)]
                 ELSE [a EXCEPT !.pending = @ - Least(1, @),
                                !.usdc    = @ + 1]]
    /\ Goto(g, "ack", "none")

\* One step of the handler goroutine g is in.
HandlerStep(g) ==
    /\ \/ ApplyFill(g)
       \/ TakePendingTerminal(g)
       \/ AdvanceToSubmitted(g)
       \/ AdvanceToTerminal(g)
       \/ LookupAgain(g)
       \/ AddPendingTerminal(g)
       \/ ApplyEffect(g)
    /\ UNCHANGED <<log, acked, snap, disk, mode, replayEnd, crashes, faults>>

Finish(g) ==
    handler' = [handler EXCEPT ![g] =
        [at |-> "idle", seq |-> IF g = "replay" THEN handler[g].seq ELSE 0,
         phase |-> "none"]]

\* Mutant: the early return of a processed message forgets to ack it.
AckingFirstOnly(g) == handler[g].at = "ack"

Acking(g) == handler[g].at \in {"ack", "dup"}

\* Service.ack: evtSeq becomes the LARGEST sequence number any consumer acked.
\* The replay consumer is not durable, so its acks are not remembered.
RaiseEvtSeq(g) ==
    mem' = [mem EXCEPT !.evtSeq = IF handler[g].seq > @ THEN handler[g].seq ELSE @]

Ack(g) ==
    /\ Acking(g)
    /\ RaiseEvtSeq(g)
    /\ acked' = IF g = "replay" THEN acked
                ELSE [acked EXCEPT ![g] = @ \cup {handler[g].seq}]
    /\ Finish(g)
    /\ UNCHANGED <<log, snap, disk, mode, replayEnd, crashes, faults>>

\* The ack is sent and never reaches the server, or msg.Ack returns an error:
\* either way the message will be delivered again.
AckLost(g) ==
    /\ Acking(g)
    /\ faults < MaxFaults
    /\ faults' = faults + 1
    /\ \/ RaiseEvtSeq(g)
       \/ UNCHANGED mem
    /\ Finish(g)
    /\ UNCHANGED <<log, acked, snap, disk, mode, replayEnd, crashes>>

-----------------------------------------------------------------------------
(* The projector *)

\* captureFlushState: stateMu is held as the writer, so no handler is between
\* its first change and its ack.
Capture ==
    /\ mode = "live"
    /\ snap = NoSnap
    /\ \A g \in Goroutines : handler[g].at \in Unlocked
    /\ mem # disk
    /\ snap' = mem
    /\ UNCHANGED <<log, acked, handler, mem, disk, mode, replayEnd, crashes, faults>>

ExecSeq(b) == CHOOSE i \in DOMAIN log : log[i] = [kind |-> "execution", id |-> b]

\* EvictTerminal: the raw batch is dropped once its terminal phase is durable.
EvictTerminal(m, seq) ==
    [m EXCEPT !.raw = {b \in @ : ~(m.inflight[b] \in Terminal /\ ExecSeq(b) <= seq)}]

\* Mutant: the balances are left to a later transaction.
FlushWithoutBalances ==
    /\ snap # NoSnap
    /\ disk' = [snap EXCEPT !.acct = disk.acct]
    /\ mem' = EvictTerminal(mem, snap.evtSeq)
    /\ snap' = NoSnap
    /\ UNCHANGED <<log, acked, handler, mode, replayEnd, crashes, faults>>

\* flushPostgres writes balances, in-flight window, idempotency state and
\* checkpoint in one transaction.
Flush ==
    /\ snap # NoSnap
    /\ disk' = snap
    /\ mem' = EvictTerminal(mem, snap.evtSeq)
    /\ snap' = NoSnap
    /\ UNCHANGED <<log, acked, handler, mode, replayEnd, crashes, faults>>

\* The transaction fails: RestoreDirty and MarkRecoveryDirty make it run again.
FlushFailed ==
    /\ snap # NoSnap
    /\ faults < MaxFaults
    /\ faults' = faults + 1
    /\ snap' = NoSnap
    /\ UNCHANGED <<log, acked, handler, mem, disk, mode, replayEnd, crashes>>

-----------------------------------------------------------------------------
(* Crash and recovery *)

\* Mutant: recovery takes the checkpoint from Postgres and not the balances.
CrashWithoutBalances ==
    /\ crashes < MaxCrashes
    /\ crashes' = crashes + 1
    /\ mem' = [InitState EXCEPT !.evtSeq = disk.evtSeq]
    /\ snap' = NoSnap
    /\ handler' = [g \in Goroutines |->
                     IF g = "replay" THEN [IdleHandler EXCEPT !.seq = disk.evtSeq]
                                     ELSE IdleHandler]
    /\ mode' = "replay"
    /\ replayEnd' = Len(log)
    /\ UNCHANGED <<log, acked, disk, faults>>

\* The process dies; recover loads Postgres and replays from the checkpoint.
Crash ==
    /\ crashes < MaxCrashes
    /\ crashes' = crashes + 1
    /\ mem' = disk
    /\ snap' = NoSnap
    /\ handler' = [g \in Goroutines |->
                     IF g = "replay" THEN [IdleHandler EXCEPT !.seq = disk.evtSeq]
                                     ELSE IdleHandler]
    /\ mode' = "replay"
    /\ replayEnd' = Len(log)
    /\ UNCHANGED <<log, acked, disk, faults>>

\* Start: the replay has reached the end, the state is flushed once, and the
\* live consumers begin.
GoLive ==
    /\ mode = "replay"
    /\ handler["replay"].at = "idle"
    /\ handler["replay"].seq >= replayEnd
    /\ disk' = mem
    /\ mem' = EvictTerminal(mem, mem.evtSeq)
    /\ mode' = "live"
    /\ UNCHANGED <<log, acked, handler, snap, replayEnd, crashes, faults>>

Next ==
    \/ \E e \in Event : Publish(e)
    \/ \E c \in Consumers : Fetch(c) \/ FetchAhead(c)
    \/ Replay
    \/ \E g \in Goroutines : HandlerStep(g) \/ Ack(g) \/ AckLost(g)
    \/ Capture \/ Flush \/ FlushFailed
    \/ Crash \/ GoLive

Spec == Init /\ [][Next]_vars

\* Start and the fetch loops it launches are goroutines that never block for
\* ever: fetches time out and the mutexes are held for a handler's length.
\* Producers, the projector, faults and crashes owe nothing.
Fairness ==
    /\ \A c \in Consumers : WF_vars(Fetch(c))
    /\ \A g \in Goroutines : WF_vars(HandlerStep(g)) /\ WF_vars(Ack(g))
    /\ WF_vars(Replay) /\ WF_vars(GoLive)

FairSpec == Spec /\ Fairness

-----------------------------------------------------------------------------
(* Properties *)

\* The type invariant of the service's variables.
TypeOK ==
    /\ log \in Seq(Event)
    /\ acked \in [Consumers -> SUBSET Nat]
    /\ handler \in [Goroutines -> [at : Steps, seq : Nat,
                                   phase : {"none"} \cup Lifecycle]]
    /\ mem \in State
    /\ snap \in State \cup {NoSnap}
    /\ disk \in State
    /\ mode \in {"replay", "live"}
    /\ replayEnd \in 0..Len(log)
    /\ crashes \in 0..MaxCrashes
    /\ faults \in 0..MaxFaults

\* A batch's fills reach the balances at most once, although the execution
\* event is redelivered, replayed from the log and delivered live again:
\* InflightStore.Register is the idempotency guard of ApplyMatchPending.
FillsOnce == \A b \in Batches : mem.fills[b] <= 1

\* A state that was written, or is about to be, has the balances and the
\* idempotency state that belong together: no half-applied batch, no deposit
\* booked without its signature (captureFlushState under the writer lock).
Atomic(s) ==
    /\ \A b \in Batches : s.fills[b] = IF s.inflight[b] = "none" THEN 0 ELSE 1
    /\ \A t \in Transfers : s.credited[t] = IF t \in s.done THEN 1 ELSE 0

SnapshotAtomic == Atomic(disk) /\ (snap # NoSnap => Atomic(snap))

\* No batch is both settled into shares and refunded, nor either of them
\* twice, even when the settlement service reports both outcomes.
PaidOnce == \A b \in Batches : mem.acct[b].shares + mem.acct[b].usdc <= 1

\* In Postgres the money agrees with the phase: a batch is refunded exactly
\* when its durable phase is failed, and has its shares only when confirmed.
PayoutMatchesPhase ==
    \A b \in Batches :
        /\ disk.acct[b].usdc = 1 <=> disk.inflight[b] = "failed"
        /\ disk.acct[b].shares = 1 => disk.inflight[b] = "confirmed"

\* A batch moves money once in each direction, whatever is redelivered,
\* replayed or parked: its fills once, and one payout of one kind.
BatchOnce == FillsOnce /\ PaidOnce

\* What Postgres holds is a state a restart can go on from: balances,
\* idempotency state and phases of one moment (captureFlushState, flushPostgres).
SnapshotSound == SnapshotAtomic /\ PayoutMatchesPhase

\* EvictTerminal never drops the raw batch that a later confirmed or failed
\* needs: without it applyTerminal changes the phase and moves no money.
RawUntilTerminal ==
    \A s \in {mem, disk} : \A b \in Batches :
        s.inflight[b] \in {"pending_applied", "submitted"} => b \in s.raw

\* The first terminal phase of a batch stands: AdvanceToTerminal reports a
\* conflict and no later, reordered or replayed event of the same life of the
\* process changes it.
FirstTerminalWins ==
    [][\A b \in Batches :
         mem.inflight[b] \in Terminal /\ crashes' = crashes
            => mem'.inflight[b] = mem.inflight[b]]_vars

\* The durable balances implement the ledger a customer sees.
LedgerEntry(s, b) ==
    IF s.acct[b].usdc = 1 THEN "refunded"
    ELSE IF s.acct[b].shares = 1 THEN "paid"
    ELSE IF s.fills[b] = 1 THEN "pending" ELSE "open"

Ledger == INSTANCE FundsLedger WITH
    entry <- [b \in Batches |-> LedgerEntry(disk, b)], booked <- disk.credited

LedgerSpec == Ledger!Spec

\* Every published event is eventually handled and acked by its consumer,
\* across lost acks, failed flushes and recoveries. (Events and acks are
\* never taken back, and each event is published once.)
EveryEventHandled ==
    []<>(\A i \in DOMAIN log : \E c \in Consumers : i \in acked[c])

\* Start: recovery replays "the gap after the checkpoint", so that a deposit
\* the service has acked is in its balances whenever it is live.
AckedSurvives ==
    mode = "live" => \A i \in acked["deposit"] : mem.credited[log[i].id] >= 1

\* No handler is at work and no message waits for one.
Quiescent ==
    /\ mode = "live"
    /\ \A g \in Goroutines : handler[g].at = "idle"
    /\ \A c \in Consumers : Unacked(c) = {}

Logged(k, b) == \E i \in DOMAIN log : log[i] = [kind |-> k, id |-> b]

\* Whatever order a batch and its terminal event are handled in, the batch
\* ends in a terminal phase (PendingTerminal is there for that).
TerminalReachesBatch ==
    Quiescent => \A b \in Batches :
        (\E k \in Terminal : Logged(k, b)) => mem.inflight[b] \in Terminal

\* Once a batch is terminal and everything is handled, none of its money is
\* left in pending.
SettledPendingCleared ==
    Quiescent => \A b \in Batches :
        mem.inflight[b] \in Terminal => mem.acct[b].pending = 0

\* A released order's lock is given back once per evt.order.released.
ReleasedOnce == \A r \in Releases : mem.released[r] <= 1

-----------------------------------------------------------------------------
(* The inductive invariant behind the safety properties *)

\* Goroutine g works on batch b and is at one of the steps.
Busy(g, b, steps) == handler[g].at \in steps /\ MsgOf(g).id = b

Filling(b) == \E g \in Goroutines : Busy(g, b, {"fill"})

Paying(b) == \E g \in Goroutines : Busy(g, b, {"effect"})

\* A working handler has a message of its subject and a phase to apply.
HandlersInv ==
    \A g \in Goroutines :
        /\ handler[g].at # "idle" =>
              /\ handler[g].seq \in DOMAIN log
              /\ mode = IF g = "replay" THEN "replay" ELSE "live"
              /\ g \in Consumers => MsgOf(g).kind \in Subject(g)
        /\ handler[g].at \in {"fill", "take"} => MsgOf(g).kind = "execution"
        /\ handler[g].at \in {"advance", "lookup", "park", "effect"} =>
              MsgOf(g).kind \in {"execution"} \cup Lifecycle
        /\ handler[g].at \in {"advance", "park"} => handler[g].phase \in Lifecycle
        /\ handler[g].at \in {"lookup", "effect"} => handler[g].phase \in Terminal

\* Registration precedes the fills, and exactly one goroutine applies them.
FillsInv ==
    \A b \in Batches :
        /\ Filling(b) => mem.inflight[b] # "none"
        /\ mem.fills[b] = IF mem.inflight[b] = "none" \/ Filling(b) THEN 0 ELSE 1

TransfersInv ==
    \A t \in Transfers : mem.credited[t] = IF t \in mem.done THEN 1 ELSE 0

\* The phase is taken before the money moves, and by one goroutine only.
PayoutsInv ==
    \A b \in Batches :
        /\ \A g \in Goroutines : Busy(g, b, {"effect"}) =>
              /\ mem.inflight[b] = handler[g].phase
              /\ \A h \in Goroutines : Busy(h, b, {"effect"}) => h = g
        /\ mem.acct[b].usdc = IF mem.inflight[b] = "failed" /\ ~Paying(b) THEN 1 ELSE 0
        /\ mem.acct[b].shares \in 0..1
        /\ mem.acct[b].shares = 1 => mem.inflight[b] = "confirmed" /\ ~Paying(b)

\* What a written or captured state satisfies: nothing of it is half done.
Settled(s) ==
    /\ Atomic(s)
    /\ \A b \in Batches :
        /\ s.acct[b].usdc = IF s.inflight[b] = "failed" THEN 1 ELSE 0
        /\ s.acct[b].shares \in 0..1
        /\ s.acct[b].shares = 1 => s.inflight[b] = "confirmed"

RawInv(s) ==
    \A b \in Batches : s.inflight[b] \in {"pending_applied", "submitted"} => b \in s.raw

\* State s continues state d: no money has gone back.
Continues(s, d) ==
    /\ \A b \in Batches : Ledger!Forward(LedgerEntry(d, b), LedgerEntry(s, b))
    /\ \A t \in Transfers : d.credited[t] <= s.credited[t]

IndInv ==
    /\ TypeOK
    /\ HandlersInv
    /\ FillsInv
    /\ TransfersInv
    /\ PayoutsInv
    /\ RawInv(mem)
    /\ Settled(disk) /\ RawInv(disk) /\ Continues(mem, disk)
    /\ snap # NoSnap => mode = "live"
    /\ snap # NoSnap =>
         Settled(snap) /\ RawInv(snap) /\ Continues(mem, snap) /\ Continues(snap, disk)

=============================================================================
