---------------------------- MODULE MatcherActor ----------------------------
(***************************************************************************)
(* The concurrent shell around one market's book (matching/manager.go,     *)
(* actor.go, batcher.go): the pull consumer of evt.order.reserved with its *)
(* bounded channel, the actor that applies commands and publishes batches, *)
(* the checkpoint loop that saves the cursor and acks, the writer's        *)
(* projection of the published deltas, and the recovery of all of it.      *)
(*                                                                         *)
(* A command is the stream sequence number of its reserved event.  What    *)
(* the book does with it (module OrderBook) is abstracted to whether it    *)
(* takes, that is executes with fills, whether it closes with something to *)
(* release (a rejected order, a market order's remainder), and else rests. *)
(***************************************************************************)
EXTENDS Integers, FiniteSets, FiniteSetsExt, Sequences

CONSTANTS MaxCmds,    \* number of reserved events
          Taking,     \* the commands that execute with fills
          Closing,    \* the commands that end canceled, expired or rejected
          ChanCap,    \* capacity of CmdChan (2048 in the code)
          MaxFaults,  \* bound on failed publishes and failed cursor writes
          MaxCrashes  \* bound on restarts

Cmds == 1 .. MaxCmds

ASSUME ActorAssumption ==
    /\ MaxCmds \in Nat /\ ChanCap \in Nat \ {0}
    /\ MaxFaults \in Nat /\ MaxCrashes \in Nat
    /\ Taking \subseteq Cmds /\ Closing \subseteq Cmds

VARIABLES
    sent,      \* reserved events in the stream: 1 .. sent
    next,      \* the first event the consumer has not delivered yet
    redo,      \* events to be delivered again (nak, or ack wait expired)
    unacked,   \* events delivered and waiting for an ack
    acked,     \* events acked
    chan,      \* CmdChan
    book,      \* the open orders of the in-memory book
    applied,   \* how often this process has applied a command
    pending,   \* the commands of the pending batch
    pc,        \* the actor: idle, or what flushActorBatch publishes next, or done
    lps,       \* LastProcessedSeq
    log,       \* the batches published to AP_EVT, duplicates dropped by MsgId
    staged,    \* pendingSourceSeq
    acks,      \* pendingAcks
    flushed,   \* flushedSourceSeq
    snap,      \* the checkpoint being written: 0, or its sequence number
    saved,     \* whether that checkpoint is in the database
    cursor,    \* consumer_cursors.last_source_cmd_seq
    settled,   \* the commands acked because a checkpoint covered them
    wheld,     \* entries of log the writer has fetched and not handled yet
    wredo,     \* entries to be delivered to the writer again
    wseen,     \* entries the writer has fetched at least once
    wlast,     \* the writer's last_evt_seq
    db,        \* the entries projected into the orders table
    faults, crashes

streamVars == <<sent, next, redo, unacked, acked>>
actorVars == <<book, applied, pending, pc, lps>>
writerVars == <<wheld, wredo, wseen, wlast, db>>
checkpointVars == <<staged, acks, flushed, snap, saved, cursor, settled>>
vars == <<streamVars, chan, actorVars, log, checkpointVars, writerVars, faults, crashes>>

\* The commands that stay in the book.
Resting == Cmds \ (Taking \union Closing)

Larger(a, b) == IF a >= b THEN a ELSE b

\* The commands of the published batches of a kind.
Published(kind) == UNION {log[i].cmds : i \in {j \in DOMAIN log : log[j].kind = kind}}

\* JetStream drops a message whose MsgId it has seen: the id is made of the
\* batch's set of sequence numbers and the kind.
Stored(entry) ==
    IF \E i \in DOMAIN log : log[i] = entry THEN log ELSE Append(log, entry)

Init ==
    /\ sent = 0 /\ next = 1 /\ redo = {} /\ unacked = {} /\ acked = {}
    /\ chan = <<>>
    /\ book = {} /\ applied = [c \in Cmds |-> 0] /\ pending = {} /\ pc = "idle"
    /\ lps = 0
    /\ log = <<>>
    /\ staged = 0 /\ acks = {} /\ flushed = 0 /\ snap = 0 /\ saved = FALSE
    /\ cursor = 0 /\ settled = {}
    /\ wheld = {} /\ wredo = {} /\ wseen = {} /\ wlast = 0 /\ db = {}
    /\ faults = 0 /\ crashes = 0

-----------------------------------------------------------------------------
(* The stream and the consumer. *)

\* Funds publishes a reserved event.
Reserve ==
    /\ sent < MaxCmds
    /\ sent' = sent + 1
    /\ UNCHANGED <<next, redo, unacked, acked, chan, actorVars, log,
                   checkpointVars, writerVars, faults, crashes>>

\* An event reaches the consumer, which hands it to the actor or, when the
\* channel is full, naks it.
Deliver(c) ==
    /\ c \in redo \/ (c = next /\ c <= sent)
    /\ next' = Larger(next, c + 1)
    /\ IF Len(chan) < ChanCap
       THEN /\ chan' = Append(chan, c)
            /\ unacked' = unacked \union {c}
            /\ redo' = redo \ {c}
       ELSE /\ redo' = redo \union {c}
            /\ UNCHANGED <<chan, unacked>>
    /\ UNCHANGED <<sent, acked, actorVars, log, checkpointVars, writerVars, faults, crashes>>

\* The ack wait of a delivered event runs out.
AckWaitExpires(c) ==
    /\ c \in unacked
    /\ unacked' = unacked \ {c}
    /\ redo' = redo \union {c}
    /\ UNCHANGED <<sent, next, acked, chan, actorVars, log, checkpointVars, writerVars,
                   faults, crashes>>

Ack(cs) ==
    /\ acked' = acked \union cs
    /\ unacked' = unacked \ cs
    /\ redo' = redo \ cs
    /\ UNCHANGED <<sent, next>>

-----------------------------------------------------------------------------
(* The actor. *)

Seen(c) == c <= lps \/ c \in pending

\* Mutant: the duplicate is dropped without an ack.
DropSeen ==
    /\ pc = "idle" /\ chan # <<>> /\ Seen(Head(chan))
    /\ chan' = Tail(chan)
    /\ UNCHANGED <<streamVars, actorVars, log, checkpointVars, writerVars, faults, crashes>>

\* A command that this process has handled before is acked and dropped.
ReceiveSeen ==
    /\ pc = "idle" /\ chan # <<>> /\ Seen(Head(chan))
    /\ chan' = Tail(chan)
    /\ Ack({Head(chan)})
    /\ UNCHANGED <<actorVars, log, checkpointVars, writerVars, faults, crashes>>

includeWrapper(c) == pending \union {c}

\* Any other command is applied to the book and joins the pending batch.
Receive ==
    LET c == Head(chan)
    IN  /\ pc = "idle" /\ chan # <<>> /\ ~Seen(c)
        /\ chan' = Tail(chan)
        /\ pending' = includeWrapper(c)
        /\ applied' = [applied EXCEPT ![c] = @ + 1]
        /\ book' = book \union ({c} \intersect Resting)
        /\ UNCHANGED <<streamVars, pc, lps, log, checkpointVars, writerVars, faults, crashes>>

\* A batch with a payload is flushed at a limit of fills, orders, bytes or age,
\* or when idle: at any time, whatever the limits are.
shouldFlush == pending # {}

\* flushActorBatch
BeginFlush ==
    /\ pc = "idle" /\ shouldFlush
    /\ pc' = "delta"
    /\ UNCHANGED <<streamVars, chan, book, applied, pending, lps, log,
                   checkpointVars, writerVars, faults, crashes>>

\* After the delta comes the execution, only for fills, and then the released
\* events of the orders that closed.
Release == IF pending \intersect Closing = {} THEN "done" ELSE "released"

PublishDelta ==
    /\ pc = "delta"
    /\ log' = Stored([kind |-> "delta", cmds |-> pending])
    /\ pc' = IF pending \intersect Taking = {} THEN Release ELSE "exec"
    /\ UNCHANGED <<streamVars, chan, book, applied, pending, lps, checkpointVars,
                   writerVars, faults, crashes>>

PublishExec ==
    /\ pc = "exec"
    /\ log' = Stored([kind |-> "exec", cmds |-> pending])
    /\ pc' = Release
    /\ UNCHANGED <<streamVars, chan, book, applied, pending, lps, checkpointVars,
                   writerVars, faults, crashes>>

PublishReleased ==
    /\ pc = "released"
    /\ log' = Stored([kind |-> "released", cmds |-> pending])
    /\ pc' = "done"
    /\ UNCHANGED <<streamVars, chan, book, applied, pending, lps, checkpointVars,
                   writerVars, faults, crashes>>

\* An error of the released publish is logged and the flush goes on.
ReleaseFails ==
    /\ pc = "released" /\ faults < MaxFaults
    /\ pc' = "done"
    /\ faults' = faults + 1
    /\ UNCHANGED <<streamVars, chan, book, applied, pending, lps, log, checkpointVars,
                   writerVars, crashes>>

\* Mutant: a new batch is started after a failed publish too.
PublishFailsAndClears ==
    /\ pc \in {"delta", "exec"} /\ faults < MaxFaults
    /\ log' \in {log, Stored([kind |-> pc, cmds |-> pending])}
    /\ pc' = "idle"
    /\ pending' = {}
    /\ faults' = faults + 1
    /\ UNCHANGED <<streamVars, chan, book, applied, lps, checkpointVars, writerVars, crashes>>

\* A publish that returns an error, whether or not the server has stored the
\* message: flushActorBatch returns and the batch stays pending.
PublishFails ==
    /\ pc \in {"delta", "exec"} /\ faults < MaxFaults
    /\ log' \in {log, Stored([kind |-> pc, cmds |-> pending])}
    /\ pc' = "idle"
    /\ faults' = faults + 1
    /\ UNCHANGED <<streamVars, chan, book, applied, pending, lps, checkpointVars,
                   writerVars, crashes>>

\* The rest of flushActorBatch: LastProcessedSeq, stageCheckpoint, new batch.
EndFlush ==
    /\ pc = "done"
    /\ lps' = Larger(lps, Max(pending))
    /\ staged' = Larger(staged, Max(pending))
    /\ acks' = acks \union pending
    /\ pending' = {}
    /\ pc' = "idle"
    /\ UNCHANGED <<streamVars, chan, book, applied, log, flushed, snap, saved,
                   cursor, settled, writerVars, faults, crashes>>

-----------------------------------------------------------------------------
(* The checkpoint loop, a goroutine of its own. *)

TakeSnapshot ==
    /\ snap = 0 /\ staged > flushed
    /\ snap' = staged
    /\ UNCHANGED <<streamVars, chan, actorVars, log, staged, acks, flushed, saved,
                   cursor, settled, writerVars, faults, crashes>>

SaveCursor ==
    /\ snap # 0 /\ ~saved
    /\ cursor' = Larger(cursor, snap)
    /\ saved' = TRUE
    /\ UNCHANGED <<streamVars, chan, actorVars, log, staged, acks, flushed, snap,
                   settled, writerVars, faults, crashes>>

SaveFails ==
    /\ snap # 0 /\ ~saved /\ faults < MaxFaults
    /\ cursor' \in {cursor, Larger(cursor, snap)}
    /\ snap' = 0
    /\ faults' = faults + 1
    /\ UNCHANGED <<streamVars, chan, actorVars, log, staged, acks, flushed, saved,
                   settled, writerVars, crashes>>

\* Mutant: every pending ack is sent, whatever was staged since the snapshot.
CoveredAll(upTo) == acks

Covered(upTo) == {c \in acks : c <= upTo}

\* completeCheckpoint: the commands the checkpoint covers are acked.
CompleteCheckpoint ==
    LET upTo == Larger(flushed, snap)
        covered == Covered(upTo)
    IN  /\ saved
        /\ flushed' = upTo
        /\ acks' = acks \ covered
        /\ settled' = settled \union covered
        /\ Ack(covered)
        /\ snap' = 0 /\ saved' = FALSE
        /\ UNCHANGED <<chan, actorVars, log, staged, cursor, writerVars, faults, crashes>>

-----------------------------------------------------------------------------
(* The writer, and a restart. *)

Deltas == {i \in DOMAIN log : log[i].kind = "delta"}

WriterFetch ==
    /\ Deltas \ wseen # {}
    /\ wheld' = wheld \union {Min(Deltas \ wseen)}
    /\ wseen' = wseen \union {Min(Deltas \ wseen)}
    /\ UNCHANGED <<streamVars, chan, actorVars, log, checkpointVars, wredo, wlast,
                   db, faults, crashes>>

WriterRefetch ==
    /\ wredo # {}
    /\ wheld' = wheld \union {Min(wredo)}
    /\ wredo' = wredo \ {Min(wredo)}
    /\ UNCHANGED <<streamVars, chan, actorVars, log, checkpointVars, wseen, wlast,
                   db, faults, crashes>>

\* handleMessage: an entry that is not newer than the writer's cursor is
\* acked; any other is projected and moves the cursor, in one transaction.
WriterProject ==
    LET i == Min(wheld)
    IN  /\ wheld # {}
        /\ wheld' = wheld \ {i}
        /\ IF i <= wlast THEN UNCHANGED <<wlast, db>>
           ELSE wlast' = i /\ db' = db \union {i}
        /\ UNCHANGED <<streamVars, chan, actorVars, log, checkpointVars, wredo, wseen,
                       faults, crashes>>

\* The transaction fails and the entry is nak'd with a delay.
WriterFails ==
    /\ wheld # {} /\ faults < MaxFaults
    /\ wheld' = wheld \ {Min(wheld)}
    /\ wredo' = wredo \union {Min(wheld)}
    /\ faults' = faults + 1
    /\ UNCHANGED <<streamVars, chan, actorVars, log, checkpointVars, wseen, wlast, db,
                   crashes>>

\* The commands of the open orders in the database, given its entries.
OpenOrders(entries) == Resting \intersect UNION {log[i].cmds : i \in entries}

\* LastProcessedSeq after a recovery.
RecoveredSeq(open) == Max({cursor} \union open)

\* A restart. The writer catches up first: it projects what it has never
\* fetched and stops when a fetch times out, while entries delivered to the
\* dead process come back only when their ack wait has run out. Then
\* RecoverFromStore: the book is the open orders, LastProcessedSeq the larger
\* of the saved cursor and the newest open order; the consumer starts over
\* with the events nobody has acked.
Restart ==
  LET fresh == Deltas \ wseen
      open == OpenOrders(db \union fresh)
  IN
    /\ crashes < MaxCrashes
    /\ crashes' = crashes + 1
    /\ chan' = <<>>
    /\ book' = open
    /\ applied' = [c \in Cmds |-> 0]
    /\ pending' = {}
    /\ pc' = "idle"
    /\ lps' = RecoveredSeq(open)
    /\ redo' = redo \union unacked
    /\ unacked' = {}
    /\ staged' = 0 /\ acks' = {} /\ flushed' = 0 /\ snap' = 0 /\ saved' = FALSE
    /\ db' = db \union fresh
    /\ wlast' = IF fresh = {} THEN wlast ELSE Max(fresh)
    /\ wseen' = wseen \union fresh
    /\ wredo' = wredo \union wheld
    /\ wheld' = {}
    /\ UNCHANGED <<sent, next, acked, log, cursor, settled, faults>>

-----------------------------------------------------------------------------
Consumer == \E c \in Cmds : Deliver(c)
Publish == PublishDelta \/ PublishExec \/ PublishReleased
Actor == ReceiveSeen \/ Receive \/ BeginFlush \/ Publish \/ EndFlush
Checkpointer == TakeSnapshot \/ SaveCursor \/ CompleteCheckpoint

Writer == WriterFetch \/ WriterRefetch \/ WriterProject

Next ==
    \/ Reserve
    \/ Consumer
    \/ \E c \in Cmds : AckWaitExpires(c)
    \/ Actor \/ PublishFails \/ ReleaseFails
    \/ Checkpointer \/ SaveFails
    \/ Writer \/ WriterFails
    \/ Restart

Spec == Init /\ [][Next]_vars

\* The goroutines keep running, publishes and cursor writes fail only finitely
\* often, and JetStream delivers an event until it is acked. A delivery that
\* finds the channel full counts for nothing, so the consumer's pull loop is
\* asked to meet a channel with room again and again.
FairSpec ==
    /\ Spec
    /\ \A c \in Cmds : SF_vars(Deliver(c) /\ chan' # chan) /\ WF_vars(AckWaitExpires(c))
    /\ WF_vars(Receive \/ ReceiveSeen) /\ WF_vars(BeginFlush)
    /\ WF_vars(Publish \/ EndFlush)
    /\ WF_vars(Checkpointer)

-----------------------------------------------------------------------------
TypeOK ==
    /\ sent \in 0 .. MaxCmds /\ next \in 1 .. MaxCmds + 1
    /\ redo \subseteq Cmds /\ unacked \subseteq Cmds /\ acked \subseteq Cmds
    /\ chan \in Seq(Cmds) /\ Len(chan) <= ChanCap
    /\ book \subseteq Cmds /\ applied \in [Cmds -> Nat] /\ pending \subseteq Cmds
    /\ pc \in {"idle", "delta", "exec", "released", "done"}
    /\ lps \in 0 .. MaxCmds
    /\ log \in Seq([kind : {"delta", "exec", "released"}, cmds : SUBSET Cmds])
    /\ staged \in 0 .. MaxCmds /\ acks \subseteq Cmds /\ flushed \in 0 .. MaxCmds
    /\ snap \in 0 .. MaxCmds /\ saved \in {TRUE, FALSE} /\ cursor \in 0 .. MaxCmds
    /\ settled \subseteq Cmds
    /\ wheld \union wredo \union db \subseteq wseen /\ wseen \subseteq DOMAIN log
    /\ wlast \in 0 .. Len(log)
    /\ faults \in 0 .. MaxFaults /\ crashes \in 0 .. MaxCrashes

\* One process applies a command to its book at most once, however often the
\* event is delivered: LastProcessedSeq and the pending batch's hasSeq cover
\* what it has handled between them, through failed flushes too.
AppliedOnce == \A c \in Cmds : applied[c] <= 1

\* What a process has applied to its book is in the pending batch or in the
\* stream, where writer, funds and settlement find it: no failed or partial
\* flush drops a fill or an order.
AppliedIsPublished ==
    \A c \in Cmds : applied[c] > 0 /\ c \notin pending =>
        /\ c \in Published("delta")
        /\ c \in Taking => c \in Published("exec")

\* A process applies a command once and leaves no effect of it unpublished.
NothingUnpublished == TypeOK /\ AppliedOnce /\ AppliedIsPublished

\* A command the checkpoint loop acks is in the stream and covered by the saved
\* cursor, although the actor stages new batches between the snapshot, the
\* write and the acks.
SettledIsDurable ==
    \A c \in settled : c <= cursor /\ c \in Published("delta")

\* The saved cursor never runs ahead of what is published, nor of the process.
CursorBehind == cursor <= lps /\ (cursor # 0 => cursor \in Published("delta"))

\* A checkpoint says no more than what is durable.
CheckpointSound == SettledIsDurable /\ CursorBehind

\* Every reserved event is acked in the end, across naks, redeliveries, failed
\* publishes and restarts.
EveryCommandAcked == []<>(1 .. sent \subseteq acked)

-----------------------------------------------------------------------------
(* What the design says and the code does not keep. *)

\* "Only when the batch has been published to NATS may its commands be acked"
\* (spec/old/7-crash-recovery-perfect-startup-and-cold-boot-order.md).
AckedIsPublished == acked \subseteq Published("delta")

\* Backpressure: a command that was nak'd because the channel was full is
\* handled when it comes back, not dropped.
AckedIsHandled == acked \subseteq pending \union Published("delta")

\* No command is executed twice: its fills are in one published batch.
ExecutedOnce ==
    \A i, j \in DOMAIN log :
        log[i].kind = "exec" /\ log[j].kind = "exec" /\ i # j =>
            log[i].cmds \intersect log[j].cmds \intersect Taking = {}

\* Every delta the writer is done with is in the database: the cursor check
\* drops duplicates and nothing else.
NothingSkipped == wseen \ (wheld \union wredo) \subseteq db

\* After a restart the book holds every open order it takes for processed.
BookComplete ==
    \A c \in Published("delta") \intersect Resting : c <= lps => c \in book

\* The funds of an order that closed are released: the event for it is in the
\* stream once its batch is done.
ReleaseIsPublished ==
    \A c \in Closing : applied[c] > 0 /\ c \notin pending => c \in Published("released")
=============================================================================
