------------------------- MODULE FundsServiceProofs -------------------------
(***************************************************************************)
(* Proofs about FundsService for every set of batches, transfers and       *)
(* releases and every number of crashes and faults.                        *)
(***************************************************************************)
EXTENDS FundsService, TLAPS

HandlerType == [Goroutines -> [at : Steps, seq : Nat, phase : {"none"} \cup Lifecycle]]

-----------------------------------------------------------------------------
(* The operations on a State keep it a State *)

\* The state of a process that has recovered nothing is well typed.
LEMMA InitStateType == InitState \in State
  BY DEF InitState, State, Account, Phases, Transfers

\* Register.
LEMMA RegisterType ==
  ASSUME NEW m \in State, NEW b \in Batches
  PROVE  [m EXCEPT !.inflight[b] = "pending_applied", !.raw = @ \cup {b}] \in State
  BY DEF State, Phases

\* AdvanceToSubmitted and AdvanceToTerminal.
LEMMA PhaseType ==
  ASSUME NEW m \in State, NEW b \in Batches, NEW p \in Lifecycle
  PROVE  [m EXCEPT !.inflight[b] = p] \in State
  BY DEF State, Phases

\* AddPendingTerminal and TakePendingTerminal.
LEMMA PendTermType ==
  ASSUME NEW m \in State, NEW b \in Batches, NEW p \in {"none"} \cup Lifecycle
  PROVE  [m EXCEPT !.pendTerm[b] = p] \in State
  BY DEF State

\* The three ways the money of a batch moves.
LEMMA AccountType ==
  ASSUME NEW a \in Account
  PROVE  /\ [a EXCEPT !.locked = @ - Least(1, @), !.pending = @ + 1] \in Account
         /\ [a EXCEPT !.pending = @ - Least(1, @),
                      !.shares = @ + Least(1, a.pending)] \in Account
         /\ [a EXCEPT !.pending = @ - Least(1, @), !.usdc = @ + 1] \in Account
<1>1. a.locked \in Nat /\ a.pending \in Nat /\ a.shares \in Nat /\ a.usdc \in Nat
  BY DEF Account
<1>2. /\ a.locked - Least(1, a.locked) \in Nat
      /\ a.pending - Least(1, a.pending) \in Nat
      /\ a.pending + 1 \in Nat
      /\ a.shares + Least(1, a.pending) \in Nat
      /\ a.usdc + 1 \in Nat
  BY <1>1 DEF Least
<1>3. [a EXCEPT !.locked = @ - Least(1, @), !.pending = @ + 1] \in Account
  BY <1>2 DEF Account
<1>4. [a EXCEPT !.pending = @ - Least(1, @),
                !.shares = @ + Least(1, a.pending)] \in Account
  BY <1>2 DEF Account
<1>5. [a EXCEPT !.pending = @ - Least(1, @), !.usdc = @ + 1] \in Account
  BY <1>2 DEF Account
<1> QED
  BY <1>3, <1>4, <1>5

LEMMA FillType ==
  ASSUME NEW m \in State, NEW b \in Batches, NEW n \in Account
  PROVE  [m EXCEPT !.fills[b] = @ + 1, !.acct[b] = n] \in State
<1>1. m.fills[b] + 1 \in Nat
  BY DEF State
<1>2. \A k \in Nat : [m EXCEPT !.fills[b] = k, !.acct[b] = n] \in State
  BY DEF State
<1> QED
  BY <1>1, <1>2

LEMMA CreditType ==
  ASSUME NEW m \in State, NEW t \in Transfers
  PROVE  [m EXCEPT !.credited[t] = @ + 1, !.done = @ \cup {t}] \in State
<1>1. m.credited[t] + 1 \in Nat
  BY DEF State
<1>2. \A k \in Nat : [m EXCEPT !.credited[t] = k, !.done = @ \cup {t}] \in State
  BY DEF State
<1> QED
  BY <1>1, <1>2

LEMMA ReleaseType ==
  ASSUME NEW m \in State, NEW r
  PROVE  [m EXCEPT !.released[r] = @ + 1] \in State
  BY DEF State

LEMMA EvictType ==
  ASSUME NEW m \in State, NEW s
  PROVE  EvictTerminal(m, s) \in State
  BY DEF State, EvictTerminal

LEMMA EvtSeqType ==
  ASSUME NEW m \in State, NEW s \in Nat
  PROVE  [m EXCEPT !.evtSeq = IF s > @ THEN s ELSE @] \in State
  BY DEF State

-----------------------------------------------------------------------------
(* Type correctness, together with what a handler at each step works on *)

TypedHandlers == TypeOK /\ HandlersInv

\* Goroutine g starts on message i.
LEMMA WorkInv ==
  ASSUME TypedHandlers, NEW g \in Goroutines, NEW i \in DOMAIN log,
         NEW s \in Steps, NEW p \in {"none"} \cup Lifecycle, Work(g, i, s, p),
         mode = IF g = "replay" THEN "replay" ELSE "live",
         g \in Consumers => log[i].kind \in Subject(g),
         s \in {"fill", "take"} => log[i].kind = "execution",
         s \in {"advance", "lookup", "park", "effect"} =>
             log[i].kind \in {"execution"} \cup Lifecycle,
         s \in {"advance", "park"} => p \in Lifecycle,
         s \in {"lookup", "effect"} => p \in Terminal,
         UNCHANGED <<log, mode>>
  PROVE  handler' \in HandlerType /\ HandlersInv'
<1>1. i \in Nat
  BY DEF TypedHandlers, TypeOK
<1>2. handler' \in HandlerType
  BY <1>1 DEF TypedHandlers, TypeOK, Work, HandlerType
<1>3. handler'[g] = [at |-> s, seq |-> i, phase |-> p]
  BY DEF TypedHandlers, TypeOK, Work
<1>4. \A h \in Goroutines : h # g => handler'[h] = handler[h]
  BY DEF TypedHandlers, TypeOK, Work
<1>5. HandlersInv'
  BY <1>3, <1>4 DEF TypedHandlers, HandlersInv, MsgOf
<1> QED
  BY <1>2, <1>5

\* Goroutine g goes on to its next step with the same message.
LEMMA GotoInv ==
  ASSUME TypedHandlers, NEW g \in Goroutines, handler[g].at # "idle",
         NEW s \in Steps, NEW p \in {"none"} \cup Lifecycle, Goto(g, s, p),
         s \in {"fill", "take"} => MsgOf(g).kind = "execution",
         s \in {"advance", "lookup", "park", "effect"} =>
             MsgOf(g).kind \in {"execution"} \cup Lifecycle,
         s \in {"advance", "park"} => p \in Lifecycle,
         s \in {"lookup", "effect"} => p \in Terminal,
         UNCHANGED <<log, mode>>
  PROVE  handler' \in HandlerType /\ HandlersInv'
<1>1. handler' \in HandlerType
  BY DEF TypedHandlers, TypeOK, Goto, HandlerType
<1>2. /\ handler'[g].at = s
      /\ handler'[g].seq = handler[g].seq
      /\ handler'[g].phase = p
  BY DEF TypedHandlers, TypeOK, Goto
<1>3. \A h \in Goroutines : h # g => handler'[h] = handler[h]
  BY DEF TypedHandlers, TypeOK, Goto
<1>4. HandlersInv'
  BY <1>2, <1>3 DEF TypedHandlers, HandlersInv, MsgOf
<1> QED
  BY <1>1, <1>4

\* The message of a handler that works on a batch names a batch.
LEMMA BatchOfHandler ==
  ASSUME TypedHandlers, NEW g \in Goroutines,
         handler[g].at \in {"fill", "take", "advance", "lookup", "park", "effect"}
  PROVE  MsgOf(g).id \in Batches
<1>1. handler[g].seq \in DOMAIN log /\ MsgOf(g).kind \in {"execution"} \cup Lifecycle
  BY DEF TypedHandlers, HandlersInv
<1>2. MsgOf(g) \in Event
  BY <1>1 DEF TypedHandlers, TypeOK, MsgOf
<1> QED
  BY <1>1, <1>2 DEF Event, Lifecycle

\* dispatchMessage and each handler up to its first interleaving point.
LEMMA DispatchInv ==
  ASSUME TypedHandlers, NEW g \in Goroutines, NEW i \in DOMAIN log, Dispatch(g, i),
         mode = IF g = "replay" THEN "replay" ELSE "live",
         g \in Consumers => log[i].kind \in Subject(g),
         UNCHANGED <<log, mode>>
  PROVE  mem' \in State /\ handler' \in HandlerType /\ HandlersInv'
<1>1. log[i] \in Event /\ mem \in State
  BY DEF TypedHandlers, TypeOK
<1>2. CASE BeginExecution(g, i)
  <2>1. log[i].kind = "execution" /\ log[i].id \in Batches
    BY <1>1, <1>2 DEF BeginExecution, Event, Lifecycle
  <2>2. CASE mem.inflight[log[i].id] # "none"
    <3>1. Work(g, i, "dup", "none") /\ mem' = mem
      BY <1>2, <2>2 DEF BeginExecution
    <3> QED
      BY <1>1, <3>1, WorkInv DEF Steps
  <2>3. CASE mem.inflight[log[i].id] = "none"
    <3>1. /\ Work(g, i, "fill", "none")
          /\ mem' = [mem EXCEPT !.inflight[log[i].id] = "pending_applied",
                                !.raw = @ \cup {log[i].id}]
      BY <1>2, <2>3 DEF BeginExecution
    <3>2. mem' \in State
      BY <1>1, <2>1, <3>1, RegisterType
    <3> QED
      BY <2>1, <3>1, <3>2, WorkInv DEF Steps
  <2> QED
    BY <2>2, <2>3
<1>3. CASE BeginSubmitted(g, i)
  <2>1. PICK s \in {"park", "advance"} : Work(g, i, s, "submitted")
    BY <1>3 DEF BeginSubmitted
  <2> QED
    BY <1>1, <1>3, <2>1, WorkInv DEF BeginSubmitted, Steps, Lifecycle
<1>4. CASE BeginTerminal(g, i)
  BY <1>1, <1>4, WorkInv DEF BeginTerminal, Steps, Lifecycle, Terminal
<1>5. CASE BeginTransfer(g, i)
  <2>1. log[i].id \in Transfers
    BY <1>1, <1>5 DEF BeginTransfer, Event, Transfers, Lifecycle
  <2>2. CASE log[i].id \in mem.done
    <3>1. Work(g, i, "dup", "none") /\ mem' = mem
      BY <1>5, <2>2 DEF BeginTransfer
    <3> QED
      BY <1>1, <3>1, WorkInv DEF Steps
  <2>3. CASE log[i].id \notin mem.done
    <3>1. /\ Work(g, i, "ack", "none")
          /\ mem' = [mem EXCEPT !.credited[log[i].id] = @ + 1,
                                !.done = @ \cup {log[i].id}]
      BY <1>5, <2>3 DEF BeginTransfer
    <3>2. mem' \in State
      BY <1>1, <2>1, <3>1, CreditType
    <3> QED
      BY <3>1, <3>2, WorkInv DEF Steps
  <2> QED
    BY <2>2, <2>3
<1>6. CASE BeginReleased(g, i)
  <2>1. mem' \in State
    BY <1>1, <1>6, ReleaseType DEF BeginReleased
  <2> QED
    BY <1>6, <2>1, WorkInv DEF BeginReleased, Steps
<1> QED
  BY <1>2, <1>3, <1>4, <1>5, <1>6, Dispatch(g, i) DEF Dispatch

\* One more step of a handler.
LEMMA HandlerStepInv ==
  ASSUME TypedHandlers, NEW g \in Goroutines, HandlerStep(g)
  PROVE  mem' \in State /\ handler' \in HandlerType /\ HandlersInv'
<1> DEFINE b == MsgOf(g).id
           a == mem.acct[b]
           h == handler[g]
<1>1. mem \in State /\ UNCHANGED <<log, mode>>
  BY DEF TypedHandlers, TypeOK, HandlerStep
<1>2. h.phase \in {"none"} \cup Lifecycle
  BY DEF TypedHandlers, TypeOK
<1>3. h.at \in {"advance", "lookup", "park", "effect", "fill", "take"}
  BY DEF HandlerStep, ApplyFill, TakePendingTerminal, AdvanceToSubmitted,
         AdvanceToTerminal, LookupAgain, AddPendingTerminal, ApplyEffect
<1>4. b \in Batches /\ h.at # "idle"
  BY <1>3, BatchOfHandler
<1>5. a \in Account
  BY <1>1, <1>4 DEF State
<1>6. MsgOf(g).kind \in {"execution"} \cup Lifecycle
  BY <1>3 DEF TypedHandlers, HandlersInv
<1>7. Goto(g, "ack", "none") => handler' \in HandlerType /\ HandlersInv'
  BY <1>1, <1>4, GotoInv DEF Steps
<1>8. CASE ApplyFill(g)
  <2> DEFINE n == [a EXCEPT !.locked = @ - Least(1, @), !.pending = @ + 1]
  <2>1. n \in Account
    BY <1>5, AccountType
  <2>2. mem' = [mem EXCEPT !.fills[b] = @ + 1, !.acct[b] = n]
    BY <1>8 DEF ApplyFill
  <2> HIDE DEF n
  <2>3. mem' \in State
    BY <1>1, <1>4, <2>1, <2>2, FillType
  <2>4. h.at = "fill" /\ Goto(g, "take", "none")
    BY <1>8 DEF ApplyFill
  <2>5. MsgOf(g).kind = "execution"
    BY <2>4 DEF TypedHandlers, HandlersInv
  <2> QED
    BY <1>1, <1>4, <2>3, <2>4, <2>5, GotoInv DEF Steps
<1>9. CASE TakePendingTerminal(g)
  <2>1. mem' \in State
    BY <1>1, <1>4, <1>9, PendTermType DEF TakePendingTerminal
  <2>2. CASE mem.pendTerm[b] = "none"
    BY <1>7, <1>9, <2>1, <2>2 DEF TakePendingTerminal
  <2>3. CASE mem.pendTerm[b] # "none"
    <3>1. mem.pendTerm[b] \in Lifecycle
      BY <1>1, <1>4, <2>3 DEF State
    <3>2. Goto(g, "advance", mem.pendTerm[b])
      BY <1>9, <2>3 DEF TakePendingTerminal
    <3> QED
      BY <1>1, <1>4, <1>6, <2>1, <3>1, <3>2, GotoInv DEF Steps
  <2> QED
    BY <2>2, <2>3
<1>10. CASE AdvanceToSubmitted(g)
  <2>1. mem' = mem \/ mem' = [mem EXCEPT !.inflight[b] = "submitted"]
    BY <1>10 DEF AdvanceToSubmitted
  <2>2. mem' \in State
    BY <1>1, <1>4, <2>1, PhaseType DEF Lifecycle
  <2> QED
    BY <1>7, <1>10, <2>2 DEF AdvanceToSubmitted
<1>11. CASE AdvanceToTerminal(g)
  <2>1. h.phase \in Terminal /\ h.phase \in Lifecycle
    BY <1>11 DEF AdvanceToTerminal, Terminal, Lifecycle
  <2>2. mem' = mem \/ mem' = [mem EXCEPT !.inflight[b] = h.phase]
    BY <1>11 DEF AdvanceToTerminal
  <2>3. mem' \in State
    BY <1>1, <1>4, <2>1, <2>2, PhaseType
  <2>4. Goto(g, "ack", "none") \/ Goto(g, "lookup", h.phase) \/ Goto(g, "effect", h.phase)
    BY <1>11 DEF AdvanceToTerminal
  <2>5. CASE Goto(g, "lookup", h.phase)
    BY <1>1, <1>2, <1>4, <1>6, <2>1, <2>3, <2>5, GotoInv DEF Steps
  <2>6. CASE Goto(g, "effect", h.phase)
    BY <1>1, <1>2, <1>4, <1>6, <2>1, <2>3, <2>6, GotoInv DEF Steps
  <2> QED
    BY <1>7, <2>3, <2>4, <2>5, <2>6
<1>12. CASE LookupAgain(g)
  <2>1. h.phase \in Terminal
    BY <1>12 DEF LookupAgain, TypedHandlers, HandlersInv
  <2>2. h.phase \in Lifecycle
    BY <2>1 DEF Terminal, Lifecycle
  <2>3. Goto(g, "ack", "none") \/ Goto(g, "park", h.phase)
    BY <1>12 DEF LookupAgain
  <2>4. CASE Goto(g, "park", h.phase)
    BY <1>1, <1>4, <1>6, <1>12, <2>2, <2>4, GotoInv DEF Steps, LookupAgain
  <2> QED
    BY <1>1, <1>7, <1>12, <2>3, <2>4 DEF LookupAgain
<1>13. CASE AddPendingTerminal(g)
  <2>1. mem' = mem \/ mem' = [mem EXCEPT !.pendTerm[b] = h.phase]
    BY <1>13 DEF AddPendingTerminal
  <2>2. mem' \in State
    BY <1>1, <1>2, <1>4, <2>1, PendTermType
  <2> QED
    BY <1>7, <1>13, <2>2 DEF AddPendingTerminal
<1>14. CASE ApplyEffect(g)
  <2> DEFINE n == IF h.phase = "confirmed"
                  THEN [a EXCEPT !.pending = @ - Least(1, @),
                                 !.shares  = @ + Least(1, a.pending)]
                  ELSE [a EXCEPT !.pending = @ - Least(1, @), !.usdc = @ + 1]
  <2>1. n \in Account
    BY <1>5, AccountType
  <2>2. mem' = [mem EXCEPT !.acct[b] = n]
    BY <1>14 DEF ApplyEffect
  <2> HIDE DEF n
  <2>3. mem' \in State
    BY <1>1, <1>4, <2>1, <2>2 DEF State
  <2> QED
    BY <1>7, <1>14, <2>3 DEF ApplyEffect
<1> QED
  BY <1>8, <1>9, <1>10, <1>11, <1>12, <1>13, <1>14 DEF HandlerStep

\* A handler that has acked, or lost its ack, leaves its message.
LEMMA FinishInv ==
  ASSUME TypedHandlers, NEW g \in Goroutines, Finish(g), UNCHANGED <<log, mode>>
  PROVE  handler' \in HandlerType /\ HandlersInv'
<1>1. handler' \in HandlerType
  BY DEF TypedHandlers, TypeOK, Finish, HandlerType, Steps
<1>2. handler'[g].at = "idle"
  BY DEF TypedHandlers, TypeOK, Finish
<1>3. \A h \in Goroutines : h # g => handler'[h] = handler[h]
  BY DEF TypedHandlers, TypeOK, Finish
<1> QED
  BY <1>1, <1>2, <1>3 DEF TypedHandlers, HandlersInv, MsgOf

LEMMA InitTyped == Init => TypedHandlers
<1> SUFFICES ASSUME Init PROVE TypedHandlers
  OBVIOUS
<1>1. TypeOK
  BY InitStateType, ConstantsAssumption DEF Init, TypeOK, IdleHandler, Steps
<1>2. HandlersInv
  BY DEF Init, HandlersInv, IdleHandler
<1> QED
  BY <1>1, <1>2 DEF TypedHandlers

\* Every step keeps the types and what each handler works on.
LEMMA NextTyped == TypedHandlers /\ [Next]_vars => TypedHandlers'
<1> SUFFICES ASSUME TypedHandlers, [Next]_vars PROVE TypeOK' /\ HandlersInv'
  BY DEF TypedHandlers
<1>1. /\ TypeOK
      /\ HandlersInv
      /\ mem \in State /\ disk \in State /\ Len(log) \in Nat
  BY DEF TypedHandlers, TypeOK
<1>2. handler' \in HandlerType <=>
        handler' \in [Goroutines -> [at : Steps, seq : Nat, phase : {"none"} \cup Lifecycle]]
  BY DEF HandlerType
<1>3. CASE UNCHANGED vars
  <2>1. TypeOK'
    BY <1>1, <1>3 DEF TypeOK, vars
  <2>2. HandlersInv'
    BY <1>1, <1>3 DEF HandlersInv, MsgOf, vars
  <2> QED
    BY <2>1, <2>2
<1>4. ASSUME NEW e \in Event, Publish(e) PROVE TypeOK' /\ HandlersInv'
  <2>1. /\ log' \in Seq(Event)
        /\ Len(log') = Len(log) + 1
        /\ \A i \in DOMAIN log : i \in DOMAIN log' /\ log'[i] = log[i]
    BY <1>1, <1>4 DEF Publish, TypeOK
  <2>2. TypeOK'
    BY <1>1, <1>4, <2>1 DEF Publish, TypeOK
  <2>3. HandlersInv'
    BY <1>1, <1>4, <2>1 DEF Publish, HandlersInv, MsgOf
  <2> QED
    BY <2>2, <2>3
<1>5. ASSUME NEW c \in Consumers, Fetch(c) \/ FetchAhead(c) PROVE TypeOK' /\ HandlersInv'
  <2>1. PICK i \in Unacked(c) : Dispatch(c, i)
    BY <1>5 DEF Fetch, FetchAhead
  <2>2. /\ UNCHANGED <<log, acked, snap, disk, mode, replayEnd, crashes>>
        /\ faults' = faults \/ (faults < MaxFaults /\ faults' = faults + 1)
        /\ mode = "live"
    BY <1>5 DEF Fetch, FetchAhead
  <2>3. i \in DOMAIN log /\ log[i].kind \in Subject(c) /\ c \in Goroutines /\ c # "replay"
    BY DEF Unacked, Goroutines, Consumers
  <2>4. mem' \in State /\ handler' \in HandlerType /\ HandlersInv'
    BY <2>1, <2>2, <2>3, DispatchInv
  <2>5. faults' \in 0..MaxFaults
    BY <1>1, <2>2, ConstantsAssumption DEF TypeOK
  <2> QED
    BY <1>1, <1>2, <2>2, <2>4, <2>5 DEF TypeOK
<1>6. CASE Replay
  <2> DEFINE i == handler["replay"].seq + 1
  <2>1. "replay" \in Goroutines /\ "replay" \notin Consumers
    BY DEF Goroutines, Consumers
  <2>2. i \in DOMAIN log
    BY <1>1, <1>6, <2>1 DEF Replay, TypeOK
  <2>3. /\ Dispatch("replay", i)
        /\ UNCHANGED <<log, acked, snap, disk, mode, replayEnd, crashes, faults>>
        /\ mode = "replay"
    BY <1>6 DEF Replay
  <2> HIDE DEF i
  <2>4. mem' \in State /\ handler' \in HandlerType /\ HandlersInv'
    BY <2>1, <2>2, <2>3, DispatchInv
  <2> QED
    BY <1>1, <1>2, <2>3, <2>4 DEF TypeOK
<1>7. ASSUME NEW g \in Goroutines, HandlerStep(g) PROVE TypeOK' /\ HandlersInv'
  <2>1. mem' \in State /\ handler' \in HandlerType /\ HandlersInv'
    BY <1>7, HandlerStepInv
  <2>2. UNCHANGED <<log, acked, snap, disk, mode, replayEnd, crashes, faults>>
    BY <1>7 DEF HandlerStep
  <2> QED
    BY <1>1, <1>2, <2>1, <2>2 DEF TypeOK
<1>8. ASSUME NEW g \in Goroutines, Ack(g) \/ AckLost(g) PROVE TypeOK' /\ HandlersInv'
  <2>1. /\ Finish(g)
        /\ UNCHANGED <<log, snap, disk, mode, replayEnd, crashes>>
        /\ RaiseEvtSeq(g) \/ UNCHANGED mem
    BY <1>8 DEF Ack, AckLost
  <2>2. handler' \in HandlerType /\ HandlersInv'
    BY <2>1, FinishInv
  <2>3. handler[g].seq \in Nat
    BY <1>1 DEF TypeOK
  <2>4. mem' \in State
    BY <1>1, <2>1, <2>3, EvtSeqType DEF RaiseEvtSeq
  <2>5. faults' \in 0..MaxFaults
    BY <1>1, <1>8, ConstantsAssumption DEF Ack, AckLost, TypeOK
  <2>6. acked' \in [Consumers -> SUBSET Nat]
    <3>1. acked' = acked \/ acked' = [acked EXCEPT ![g] = @ \cup {handler[g].seq}]
      BY <1>8 DEF Ack, AckLost
    <3> QED
      BY <1>1, <2>3, <3>1 DEF TypeOK
  <2> QED
    BY <1>1, <1>2, <2>1, <2>2, <2>4, <2>5, <2>6 DEF TypeOK
<1>9. CASE Capture \/ Flush \/ FlushFailed
  <2>1. /\ UNCHANGED <<log, acked, handler, mode, replayEnd, crashes>>
        /\ faults' = faults \/ (faults < MaxFaults /\ faults' = faults + 1)
    BY <1>9 DEF Capture, Flush, FlushFailed
  <2>2. mem' \in State /\ disk' \in State /\ snap' \in State \cup {NoSnap}
    BY <1>1, <1>9, EvictType DEF Capture, Flush, FlushFailed, TypeOK
  <2>3. faults' \in 0..MaxFaults
    BY <1>1, <2>1, ConstantsAssumption DEF TypeOK
  <2>4. HandlersInv'
    BY <1>1, <2>1 DEF HandlersInv, MsgOf
  <2> QED
    BY <1>1, <2>1, <2>2, <2>3, <2>4 DEF TypeOK
<1>10. CASE Crash
  <2>1. \A g \in Goroutines : handler'[g].at = "idle"
    BY <1>10 DEF Crash, IdleHandler
  <2>2. disk.evtSeq \in Nat
    BY <1>1 DEF State
  <2>3. handler' \in HandlerType
    BY <1>10, <2>2 DEF Crash, IdleHandler, HandlerType, Steps
  <2>4. crashes' \in 0..MaxCrashes
    BY <1>1, <1>10, ConstantsAssumption DEF Crash, TypeOK
  <2>5. HandlersInv'
    BY <2>1 DEF HandlersInv
  <2> QED
    BY <1>1, <1>2, <1>10, <2>3, <2>4, <2>5 DEF Crash, TypeOK
<1>11. CASE GoLive
  <2>1. mem' \in State
    BY <1>1, <1>11, EvictType DEF GoLive
  <2>2. TypeOK'
    BY <1>1, <1>11, <2>1 DEF GoLive, TypeOK
  <2>3. \A g \in Goroutines : handler[g].at = "idle"
    BY <1>1, <1>11 DEF GoLive, HandlersInv
  <2>4. HandlersInv'
    BY <1>11, <2>3 DEF GoLive, HandlersInv
  <2> QED
    BY <2>2, <2>4
<1> QED
  BY <1>3, <1>4, <1>5, <1>6, <1>7, <1>8, <1>9, <1>10, <1>11 DEF Next

\* Every reachable state of the service is well typed: in particular the
\* bounds on crashes and faults hold and recovery never replays past the
\* end of the event log it read at its start.
THEOREM TypeCorrect == Spec => []TypeOK
<1>1. Spec => []TypedHandlers
  BY InitTyped, NextTyped, PTL DEF Spec
<1>2. TypedHandlers => TypeOK
  BY DEF TypedHandlers
<1> QED
  BY <1>1, <1>2, PTL

-----------------------------------------------------------------------------
(* The invariant of the process: fills, transfers, payouts, raw batches *)

MemInv == FillsInv /\ TransfersInv /\ PayoutsInv /\ RawInv(mem)

\* A step changes the state of the process as the ledger allows, and leaves
\* every terminal phase alone.
Progress ==
    /\ Continues(mem', mem)
    /\ \A b \in Batches :
          mem.inflight[b] \in Terminal => mem'.inflight[b] = mem.inflight[b]

\* Only goroutine g moves, and stays with messages of the same log.
OnlyMoves(g) ==
    /\ log' = log
    /\ \A h \in Goroutines \ {g} : handler'[h] = handler[h]

\* The money and the transfers are as they were.
LEMMA SameMoney ==
  ASSUME mem \in State, mem'.acct = mem.acct, mem'.fills = mem.fills,
         mem'.credited = mem.credited
  PROVE  Continues(mem', mem)
  BY DEF Continues, LedgerEntry, Ledger!Forward, State

\* A move of g that neither enters nor leaves the fill or payout steps, and
\* changes no balance, phase or raw batch, keeps the invariant.
LEMMA QuietMove ==
  ASSUME TypedHandlers, MemInv, NEW g \in Goroutines, OnlyMoves(g),
         handler[g].at \notin {"fill", "effect"},
         handler'[g].at \notin {"fill", "effect"},
         mem'.inflight = mem.inflight, mem'.raw = mem.raw, mem'.fills = mem.fills,
         mem'.acct = mem.acct, mem'.done = mem.done, mem'.credited = mem.credited
  PROVE  MemInv' /\ Progress
<1>1. \A h \in Goroutines, b \in Batches, s \in {"fill", "effect"} :
        Busy(h, b, {s})' <=> Busy(h, b, {s})
  BY DEF OnlyMoves, Busy, MsgOf
<1>2. \A h \in Goroutines, b \in Batches :
        Busy(h, b, {"effect"})' => handler'[h].phase = handler[h].phase
  BY DEF OnlyMoves, Busy
<1>3. \A b \in Batches : (Filling(b)' <=> Filling(b)) /\ (Paying(b)' <=> Paying(b))
  BY <1>1 DEF Filling, Paying
<1>4. FillsInv'
  BY <1>3 DEF MemInv, FillsInv
<1>5. TransfersInv'
  BY DEF MemInv, TransfersInv
<1>6. PayoutsInv'
  BY <1>1, <1>2, <1>3 DEF MemInv, PayoutsInv
<1>7. RawInv(mem)'
  BY DEF MemInv, RawInv
<1>8. Progress
  BY SameMoney DEF Progress, TypedHandlers, TypeOK
<1> QED
  BY <1>4, <1>5, <1>6, <1>7, <1>8 DEF MemInv

\* Handlers that start on a message.
LEMMA DispatchMem ==
  ASSUME TypedHandlers, MemInv, NEW g \in Goroutines, NEW i \in DOMAIN log,
         handler[g].at = "idle", Dispatch(g, i), log' = log
  PROVE  MemInv' /\ Progress
<1>1. log[i] \in Event /\ mem \in State /\ handler \in HandlerType
  BY DEF TypedHandlers, TypeOK, HandlerType
<1>2. \A s \in Steps, p \in {"none"} \cup Lifecycle : Work(g, i, s, p) =>
        /\ OnlyMoves(g)
        /\ handler'[g].at = s /\ handler'[g].seq = i
  BY <1>1 DEF Work, OnlyMoves, HandlerType
<1>3. CASE BeginExecution(g, i) /\ mem.inflight[log[i].id] # "none"
  <2>1. Work(g, i, "dup", "none") /\ mem' = mem
    BY <1>3 DEF BeginExecution
  <2> QED
    BY <1>2, <2>1, QuietMove DEF Steps
<1>4. CASE BeginExecution(g, i) /\ mem.inflight[log[i].id] = "none"
  <2> DEFINE r == log[i].id
  <2>1. r \in Batches
    BY <1>1, <1>4 DEF BeginExecution, Event, Lifecycle
  <2>2. /\ mem.inflight[r] = "none"
        /\ mem' = [mem EXCEPT !.inflight[r] = "pending_applied", !.raw = @ \cup {r}]
        /\ Work(g, i, "fill", "none")
    BY <1>4 DEF BeginExecution
  <2>3. /\ mem'.inflight = [mem.inflight EXCEPT ![r] = "pending_applied"]
        /\ mem'.raw = mem.raw \cup {r}
        /\ mem'.fills = mem.fills /\ mem'.acct = mem.acct
        /\ mem'.done = mem.done /\ mem'.credited = mem.credited
        /\ mem.inflight \in [Batches -> Phases]
    BY <1>1, <2>2 DEF State
  <2>4. /\ OnlyMoves(g)
        /\ handler'[g].at = "fill" /\ handler'[g].seq = i
    BY <1>2, <2>2 DEF Steps
  <2> HIDE DEF r
  <2>5. \A b \in Batches : Filling(b)' <=> (Filling(b) \/ b = r)
    BY <2>4 DEF OnlyMoves, Filling, Busy, MsgOf, r
  <2>6. \A h \in Goroutines, b \in Batches :
          /\ Busy(h, b, {"effect"})' <=> Busy(h, b, {"effect"})
          /\ Busy(h, b, {"effect"}) => handler'[h].phase = handler[h].phase
    BY <2>4 DEF OnlyMoves, Busy, MsgOf
  <2>7. \A b \in Batches : Paying(b)' <=> Paying(b)
    BY <2>6 DEF Paying
  <2>8. \A h \in Goroutines : ~Busy(h, r, {"effect"})
    BY <2>1, <2>2 DEF MemInv, PayoutsInv, TypedHandlers, HandlersInv, Busy, Terminal
  <2>9. FillsInv'
    BY <2>1, <2>2, <2>3, <2>5 DEF MemInv, FillsInv
  <2>10. TransfersInv'
    BY <2>3 DEF MemInv, TransfersInv
  <2>11. PayoutsInv'
    <3>1. ASSUME NEW b \in Batches, b # r PROVE mem'.inflight[b] = mem.inflight[b]
      BY <2>3, <3>1
    <3>2. mem'.inflight[r] = "pending_applied"
      BY <2>1, <2>3
    <3> QED
      BY <2>2, <2>3, <2>6, <2>7, <2>8, <3>1, <3>2 DEF MemInv, PayoutsInv
  <2>12. RawInv(mem)'
    BY <2>1, <2>3 DEF MemInv, RawInv
  <2>13. Progress
    <3>1. Continues(mem', mem)
      BY <1>1, <2>3, SameMoney
    <3> QED
      BY <2>1, <2>2, <2>3, <3>1 DEF Progress, Terminal
  <2> QED
    BY <2>9, <2>10, <2>11, <2>12, <2>13 DEF MemInv
<1>5. CASE BeginSubmitted(g, i)
  <2>1. PICK s \in {"park", "advance"} : Work(g, i, s, "submitted")
    BY <1>5 DEF BeginSubmitted
  <2> QED
    BY <1>2, <1>5, <2>1, QuietMove DEF BeginSubmitted, Steps, Lifecycle
<1>6. CASE BeginTerminal(g, i)
  BY <1>2, <1>6, QuietMove DEF BeginTerminal, Steps, Lifecycle, Terminal
<1>7. CASE BeginTransfer(g, i) /\ log[i].id \in mem.done
  <2>1. Work(g, i, "dup", "none") /\ mem' = mem
    BY <1>7 DEF BeginTransfer
  <2> QED
    BY <1>2, <2>1, QuietMove DEF Steps
<1>8. CASE BeginTransfer(g, i) /\ log[i].id \notin mem.done
  <2> DEFINE t == log[i].id
  <2>1. t \in Transfers
    BY <1>1, <1>8 DEF BeginTransfer, Event, Transfers, Lifecycle
  <2>2. /\ Work(g, i, "ack", "none")
        /\ mem' = [mem EXCEPT !.credited[t] = @ + 1, !.done = @ \cup {t}]
    BY <1>8 DEF BeginTransfer
  <2>3. /\ mem'.inflight = mem.inflight /\ mem'.raw = mem.raw
        /\ mem'.fills = mem.fills /\ mem'.acct = mem.acct
        /\ mem'.done = mem.done \cup {t}
        /\ mem'.credited = [mem.credited EXCEPT ![t] = @ + 1]
        /\ mem.credited \in [Transfers -> Nat]
    BY <1>1, <2>2 DEF State
  <2>4. /\ OnlyMoves(g)
        /\ handler'[g].at = "ack"
    BY <1>2, <2>2 DEF Steps
  <2>5. \A h \in Goroutines, b \in Batches, s \in {"fill", "effect"} :
          Busy(h, b, {s})' <=> Busy(h, b, {s})
    BY <2>4 DEF OnlyMoves, Busy, MsgOf
  <2>6. \A h \in Goroutines, b \in Batches :
          Busy(h, b, {"effect"})' => handler'[h].phase = handler[h].phase
    BY <2>4 DEF OnlyMoves, Busy
  <2>7. \A b \in Batches : (Filling(b)' <=> Filling(b)) /\ (Paying(b)' <=> Paying(b))
    BY <2>5 DEF Filling, Paying
  <2>8. FillsInv' /\ RawInv(mem)'
    BY <2>3, <2>7 DEF MemInv, FillsInv, RawInv
  <2>9. TransfersInv'
    BY <1>8, <2>1, <2>3 DEF MemInv, TransfersInv
  <2>10. PayoutsInv'
    BY <2>3, <2>5, <2>6, <2>7 DEF MemInv, PayoutsInv
  <2>11. Progress
    BY <2>3 DEF Progress, Continues, LedgerEntry, Ledger!Forward
  <2> QED
    BY <2>8, <2>9, <2>10, <2>11 DEF MemInv
<1>9. CASE BeginReleased(g, i)
  <2>1. /\ mem'.inflight = mem.inflight /\ mem'.raw = mem.raw
        /\ mem'.fills = mem.fills /\ mem'.acct = mem.acct
        /\ mem'.done = mem.done /\ mem'.credited = mem.credited
    BY <1>1, <1>9 DEF BeginReleased, State
  <2> QED
    BY <1>2, <1>9, <2>1, QuietMove DEF BeginReleased, Steps
<1> QED
  BY <1>3, <1>4, <1>5, <1>6, <1>7, <1>8, <1>9, Dispatch(g, i) DEF Dispatch

\* At most one goroutine applies the fills of a batch: only the execution
\* consumer and the replay do, and they never run together.
LEMMA OneFiller ==
  ASSUME TypedHandlers, NEW g \in Goroutines, NEW h \in Goroutines,
         handler[g].at = "fill", handler[h].at = "fill"
  PROVE  g = h
<1>1. \A k \in {g, h} : k = "execution" \/ k = "replay"
  BY DEF TypedHandlers, HandlersInv, Goroutines, Subject, Lifecycle
<1>2. \A k \in {g, h} : mode = IF k = "replay" THEN "replay" ELSE "live"
  BY DEF TypedHandlers, HandlersInv
<1> QED
  BY <1>1, <1>2

\* The later steps of a handler.
LEMMA HandlerStepMem ==
  ASSUME TypedHandlers, MemInv, NEW g \in Goroutines, HandlerStep(g)
  PROVE  MemInv' /\ Progress
<1>1. mem \in State /\ handler \in HandlerType /\ log' = log
  BY DEF TypedHandlers, TypeOK, HandlerType, HandlerStep
<1>2. \A s \in Steps, p \in {"none"} \cup Lifecycle : Goto(g, s, p) =>
        /\ OnlyMoves(g)
        /\ handler'[g].at = s /\ handler'[g].seq = handler[g].seq
        /\ handler'[g].phase = p
  BY <1>1 DEF Goto, OnlyMoves, HandlerType
<1>3. PICK r \in Batches : r = MsgOf(g).id
  BY BatchOfHandler DEF HandlerStep, ApplyFill, TakePendingTerminal,
     AdvanceToSubmitted, AdvanceToTerminal, LookupAgain, AddPendingTerminal, ApplyEffect
<1>4. /\ mem.inflight \in [Batches -> Phases]
      /\ mem.fills \in [Batches -> Nat]
      /\ mem.acct \in [Batches -> Account]
      /\ mem.pendTerm \in [Batches -> {"none"} \cup Lifecycle]
      /\ handler[g].phase \in {"none"} \cup Lifecycle
  BY <1>1 DEF State, HandlerType
<1>5. CASE ApplyFill(g)
  <2>1. handler[g].at = "fill" /\ Goto(g, "take", "none")
    BY <1>5 DEF ApplyFill
  <2>2. OnlyMoves(g) /\ handler'[g].at = "take"
    BY <1>2, <2>1 DEF Steps
  <2> DEFINE a == mem.acct[r]
             n == [a EXCEPT !.locked = @ - Least(1, @), !.pending = @ + 1]
  <2>3. mem' = [mem EXCEPT !.fills[r] = @ + 1, !.acct[r] = n]
    BY <1>3, <1>5 DEF ApplyFill
  <2>4. n.usdc = a.usdc /\ n.shares = a.shares
    BY <1>3, <1>4 DEF Account
  <2> HIDE DEF n
  <2>5. /\ mem'.inflight = mem.inflight /\ mem'.raw = mem.raw
        /\ mem'.done = mem.done /\ mem'.credited = mem.credited
        /\ mem'.fills = [mem.fills EXCEPT ![r] = @ + 1]
        /\ mem'.acct = [mem.acct EXCEPT ![r] = n]
    BY <1>1, <2>3 DEF State
  <2>6. \A b \in Batches : /\ mem'.acct[b].usdc = mem.acct[b].usdc
                           /\ mem'.acct[b].shares = mem.acct[b].shares
    BY <1>3, <1>4, <2>4, <2>5
  <2>7. Busy(g, r, {"fill"})
    BY <1>3, <2>1 DEF Busy
  <2>8. \A b \in Batches : Filling(b)' <=> (Filling(b) /\ b # r)
    <3>1. ASSUME NEW b \in Batches, Filling(b)' PROVE Filling(b) /\ b # r
      <4>1. PICK h \in Goroutines : Busy(h, b, {"fill"})'
        BY <3>1 DEF Filling
      <4>2. h # g /\ Busy(h, b, {"fill"})
        BY <2>2, <4>1 DEF OnlyMoves, Busy, MsgOf
      <4>3. FALSE
        BY <2>1, <4>2, OneFiller DEF Busy
      <4> QED
        BY <4>3
    <3>2. ASSUME NEW b \in Batches, Filling(b), b # r PROVE Filling(b)'
      <4>1. PICK h \in Goroutines : Busy(h, b, {"fill"})
        BY <3>2 DEF Filling
      <4>2. h # g
        BY <1>3, <3>2, <4>1 DEF Busy
      <4>3. FALSE
        BY <2>1, <4>1, <4>2, OneFiller DEF Busy
      <4> QED
        BY <4>3
    <3> QED
      BY <3>1, <3>2
  <2>9. \A h \in Goroutines, b \in Batches :
          /\ Busy(h, b, {"effect"})' <=> Busy(h, b, {"effect"})
          /\ Busy(h, b, {"effect"}) => handler'[h].phase = handler[h].phase
    BY <2>1, <2>2 DEF OnlyMoves, Busy, MsgOf
  <2>10. \A b \in Batches : Paying(b)' <=> Paying(b)
    BY <2>9 DEF Paying
  <2>11. FillsInv'
    <3>1. Filling(r)
      BY <2>7 DEF Filling
    <3> QED
      BY <1>3, <1>4, <2>5, <2>8, <3>1 DEF MemInv, FillsInv
  <2>12. TransfersInv' /\ RawInv(mem)'
    BY <2>5 DEF MemInv, TransfersInv, RawInv
  <2>13. PayoutsInv'
    BY <2>5, <2>6, <2>9, <2>10 DEF MemInv, PayoutsInv
  <2>14. Progress
    <3>1. mem.fills[r] = 0
      BY <1>3, <2>7 DEF MemInv, FillsInv, Filling
    <3>2. \A b \in Batches : Ledger!Forward(LedgerEntry(mem, b), LedgerEntry(mem', b))
      BY <1>3, <1>4, <2>5, <2>6, <3>1 DEF LedgerEntry, Ledger!Forward
    <3>3. \A t \in Transfers : mem.credited[t] <= mem'.credited[t]
      BY <1>1, <2>5 DEF State
    <3> QED
      BY <2>5, <3>2, <3>3 DEF Progress, Continues
  <2> QED
    BY <2>11, <2>12, <2>13, <2>14 DEF MemInv
<1>6. CASE TakePendingTerminal(g)
  <2>1. /\ mem'.inflight = mem.inflight /\ mem'.raw = mem.raw
        /\ mem'.fills = mem.fills /\ mem'.acct = mem.acct
        /\ mem'.done = mem.done /\ mem'.credited = mem.credited
    BY <1>1, <1>6 DEF TakePendingTerminal, State
  <2>2. handler[g].at = "take"
    BY <1>6 DEF TakePendingTerminal
  <2>3. \E s \in {"ack", "advance"}, p \in {"none"} \cup Lifecycle : Goto(g, s, p)
    BY <1>3, <1>4, <1>6 DEF TakePendingTerminal
  <2> QED
    BY <1>2, <2>1, <2>2, <2>3, QuietMove DEF Steps
<1>7. CASE LookupAgain(g)
  <2>1. \E s \in {"ack", "park"}, p \in {"none"} \cup Lifecycle : Goto(g, s, p)
    BY <1>4, <1>7 DEF LookupAgain
  <2> QED
    BY <1>2, <1>7, <2>1, QuietMove DEF LookupAgain, Steps
<1>8. CASE AddPendingTerminal(g)
  <2>1. /\ mem'.inflight = mem.inflight /\ mem'.raw = mem.raw
        /\ mem'.fills = mem.fills /\ mem'.acct = mem.acct
        /\ mem'.done = mem.done /\ mem'.credited = mem.credited
    BY <1>1, <1>8 DEF AddPendingTerminal, State
  <2>2. handler[g].at = "park" /\ Goto(g, "ack", "none")
    BY <1>8 DEF AddPendingTerminal
  <2> QED
    BY <1>2, <2>1, <2>2, QuietMove DEF Steps
<1>9. CASE AdvanceToSubmitted(g) \/ AdvanceToTerminal(g)
  <2>1. handler[g].at = "advance"
    BY <1>9 DEF AdvanceToSubmitted, AdvanceToTerminal
  <2>2. CASE mem' = mem
    <3>1. \E s \in {"ack", "lookup"}, p \in {"none"} \cup Lifecycle : Goto(g, s, p)
      <4>1. CASE AdvanceToSubmitted(g)
        BY <4>1 DEF AdvanceToSubmitted
      <4>2. CASE AdvanceToTerminal(g)
        <5>1. CASE mem.inflight[r] \in {"pending_applied", "submitted"}
          <6>1. mem' = [mem EXCEPT !.inflight[r] = handler[g].phase]
            BY <1>3, <4>2, <5>1 DEF AdvanceToTerminal, Terminal
          <6>2. mem'.inflight[r] = handler[g].phase
            BY <1>1, <1>3, <6>1 DEF State
          <6> QED
            BY <2>2, <4>2, <5>1, <6>2 DEF AdvanceToTerminal, Terminal
        <5>2. CASE mem.inflight[r] \notin {"pending_applied", "submitted"}
          BY <1>3, <1>4, <4>2, <5>2 DEF AdvanceToTerminal
        <5> QED
          BY <5>1, <5>2
      <4> QED
        BY <1>9, <4>1, <4>2
    <3> QED
      BY <1>2, <2>1, <2>2, <3>1, QuietMove DEF Steps
  <2>3. CASE mem' # mem
    <3>1. PICK p \in Lifecycle :
            /\ mem.inflight[r] \in {"pending_applied", "submitted"}
            /\ mem' = [mem EXCEPT !.inflight[r] = p]
            /\ \/ p = "submitted" /\ Goto(g, "ack", "none")
               \/ p \in Terminal /\ r \in mem.raw /\ Goto(g, "effect", p)
               \/ p \in Terminal /\ r \notin mem.raw
      BY <1>3, <1>9, <2>3 DEF AdvanceToSubmitted, AdvanceToTerminal, Lifecycle, Terminal
    <3>2. /\ mem'.inflight = [mem.inflight EXCEPT ![r] = p] /\ mem'.raw = mem.raw
          /\ mem'.fills = mem.fills /\ mem'.acct = mem.acct
          /\ mem'.done = mem.done /\ mem'.credited = mem.credited
      BY <1>1, <3>1 DEF State
    <3>3. \/ p = "submitted" /\ Goto(g, "ack", "none")
          \/ p \in Terminal /\ Goto(g, "effect", p)
      BY <1>3, <3>1 DEF MemInv, RawInv
    <3>4. /\ OnlyMoves(g)
          /\ \/ p = "submitted" /\ handler'[g].at = "ack"
             \/ p \in Terminal /\ handler'[g].at = "effect" /\ handler'[g].phase = p
          /\ handler'[g].seq = handler[g].seq
      BY <1>2, <3>3 DEF Steps
    <3>5. \A h \in Goroutines : ~Busy(h, r, {"effect"})
      BY <1>3, <3>1 DEF MemInv, PayoutsInv, TypedHandlers, HandlersInv, Busy, Terminal
    <3>6. \A b \in Batches : Filling(b)' <=> Filling(b)
      BY <2>1, <3>4 DEF OnlyMoves, Filling, Busy, MsgOf, Terminal
    <3>7. \A h \in Goroutines, b \in Batches :
            Busy(h, b, {"effect"})' <=>
                (Busy(h, b, {"effect"}) \/ (h = g /\ b = r /\ p \in Terminal))
      <4>1. ASSUME NEW h \in Goroutines \ {g}, NEW b \in Batches
            PROVE  Busy(h, b, {"effect"})' <=> Busy(h, b, {"effect"})
        BY <3>4 DEF OnlyMoves, Busy, MsgOf
      <4>2. ASSUME NEW b \in Batches
            PROVE  /\ ~Busy(g, b, {"effect"})
                   /\ Busy(g, b, {"effect"})' <=> (b = r /\ p \in Terminal)
        <5>1. MsgOf(g)' = MsgOf(g)
          BY <3>4 DEF OnlyMoves, MsgOf
        <5>2. handler'[g].at = "effect" <=> p \in Terminal
          BY <3>4 DEF Terminal
        <5> QED
          BY <1>3, <2>1, <5>1, <5>2 DEF Busy
      <4> QED
        BY <4>1, <4>2
    <3>8. \A h \in Goroutines, b \in Batches :
            Busy(h, b, {"effect"}) => handler'[h].phase = handler[h].phase
      BY <2>1, <3>4 DEF OnlyMoves, Busy
    <3>9. FillsInv'
      BY <1>3, <1>4, <3>1, <3>2, <3>6 DEF MemInv, FillsInv, Lifecycle
    <3>10. TransfersInv' /\ RawInv(mem)'
      BY <1>3, <1>4, <3>1, <3>2 DEF MemInv, TransfersInv, RawInv
    <3>11. PayoutsInv'
      <4>1. ASSUME NEW b \in Batches, b # r
            PROVE  mem'.inflight[b] = mem.inflight[b] /\ (Paying(b)' <=> Paying(b))
        <5>1. \A h \in Goroutines : Busy(h, b, {"effect"})' <=> Busy(h, b, {"effect"})
          BY <3>7, <4>1
        <5> QED
          BY <1>4, <3>2, <4>1, <5>1 DEF Paying
      <4>2. /\ mem'.inflight[r] = p
            /\ Paying(r)' <=> p \in Terminal
            /\ ~Paying(r)
        BY <1>3, <1>4, <3>2, <3>5, <3>7 DEF Paying
      <4>3. mem.acct[r].usdc = 0 /\ mem.acct[r].shares = 0
        BY <1>3, <3>1 DEF MemInv, PayoutsInv
      <4>4. ASSUME NEW b \in Batches, NEW h \in Goroutines, Busy(h, b, {"effect"})'
            PROVE  /\ mem'.inflight[b] = handler'[h].phase
                   /\ \A k \in Goroutines : Busy(k, b, {"effect"})' => k = h
        <5>1. CASE b = r
          <6>1. h = g /\ p \in Terminal
            BY <3>5, <3>7, <4>4, <5>1
          <6>2. handler'[g].phase = p
            BY <3>4, <6>1 DEF Terminal
          <6> QED
            BY <3>5, <3>7, <4>2, <5>1, <6>1, <6>2
        <5>2. CASE b # r
          BY <3>7, <3>8, <4>1, <4>4, <5>2 DEF MemInv, PayoutsInv
        <5> QED
          BY <5>1, <5>2
      <4>5. ASSUME NEW b \in Batches
            PROVE  /\ mem'.acct[b].usdc =
                        IF mem'.inflight[b] = "failed" /\ ~Paying(b)' THEN 1 ELSE 0
                   /\ mem'.acct[b].shares \in 0..1
                   /\ mem'.acct[b].shares = 1 => mem'.inflight[b] = "confirmed" /\ ~Paying(b)'
        <5>1. CASE b = r
          BY <3>2, <4>2, <4>3, <5>1 DEF Terminal
        <5>2. CASE b # r
          BY <3>2, <4>1, <5>2 DEF MemInv, PayoutsInv
        <5> QED
          BY <5>1, <5>2
      <4> QED
        BY <4>4, <4>5 DEF PayoutsInv
    <3>12. Progress
      <4>1. Continues(mem', mem)
        BY <1>1, <3>2, SameMoney
      <4> QED
        BY <1>3, <1>4, <3>1, <3>2, <4>1 DEF Progress, Terminal
    <3> QED
      BY <3>9, <3>10, <3>11, <3>12 DEF MemInv
  <2> QED
    BY <2>2, <2>3
<1>10. CASE ApplyEffect(g)
  <2>1. handler[g].at = "effect" /\ Goto(g, "ack", "none")
    BY <1>10 DEF ApplyEffect
  <2>2. OnlyMoves(g) /\ handler'[g].at = "ack"
    BY <1>2, <2>1 DEF Steps
  <2> DEFINE a == mem.acct[r]
             n == IF handler[g].phase = "confirmed"
                  THEN [a EXCEPT !.pending = @ - Least(1, @),
                                 !.shares  = @ + Least(1, a.pending)]
                  ELSE [a EXCEPT !.pending = @ - Least(1, @), !.usdc = @ + 1]
  <2>3. mem' = [mem EXCEPT !.acct[r] = n]
    BY <1>3, <1>10 DEF ApplyEffect
  <2>4. Busy(g, r, {"effect"}) /\ Paying(r)
    BY <1>3, <2>1 DEF Busy, Paying
  <2>5. /\ mem.inflight[r] = handler[g].phase
        /\ handler[g].phase \in Terminal
        /\ mem.acct[r].usdc = 0 /\ mem.acct[r].shares = 0
    BY <1>3, <2>1, <2>4 DEF MemInv, PayoutsInv, TypedHandlers, HandlersInv
  <2>6. /\ n.shares \in 0..1
        /\ n.shares = 1 => handler[g].phase = "confirmed"
        /\ n.usdc = IF handler[g].phase = "failed" THEN 1 ELSE 0
    <3>1. a \in Account /\ a.pending \in Nat /\ a.usdc = 0 /\ a.shares = 0
      BY <1>3, <1>4, <2>5 DEF Account
    <3>2. CASE handler[g].phase = "confirmed"
      <4>1. n.shares = Least(1, a.pending) /\ n.usdc = 0
        BY <3>1, <3>2 DEF Account, Least
      <4> QED
        BY <3>1, <3>2, <4>1 DEF Least
    <3>3. CASE handler[g].phase = "failed"
      BY <3>1, <3>3 DEF Account
    <3> QED
      BY <2>5, <3>2, <3>3 DEF Terminal
  <2> HIDE DEF n
  <2>7. /\ mem'.inflight = mem.inflight /\ mem'.raw = mem.raw
        /\ mem'.fills = mem.fills /\ mem'.acct = [mem.acct EXCEPT ![r] = n]
        /\ mem'.done = mem.done /\ mem'.credited = mem.credited
    BY <1>1, <2>3 DEF State
  <2>8. \A b \in Batches : Filling(b)' <=> Filling(b)
    BY <2>1, <2>2 DEF OnlyMoves, Filling, Busy, MsgOf
  <2>9. \A h \in Goroutines, b \in Batches :
          /\ Busy(h, b, {"effect"})' <=> Busy(h, b, {"effect"}) /\ h # g
          /\ h # g => handler'[h].phase = handler[h].phase
    BY <2>1, <2>2 DEF OnlyMoves, Busy, MsgOf
  <2>10. \A h \in Goroutines : ~Busy(h, r, {"effect"})'
    BY <1>3, <2>4, <2>9 DEF MemInv, PayoutsInv
  <2>11. \A b \in Batches : b # r => (Paying(b)' <=> Paying(b))
    <3>1. \A b \in Batches : b # r => ~Busy(g, b, {"effect"})
      BY <1>3 DEF Busy
    <3> QED
      BY <2>9, <3>1 DEF Paying
  <2>12. ~Paying(r)'
    BY <2>10 DEF Paying
  <2>13. FillsInv' /\ TransfersInv' /\ RawInv(mem)'
    BY <2>7, <2>8 DEF MemInv, FillsInv, TransfersInv, RawInv
  <2>14. PayoutsInv'
    <3>1. ASSUME NEW b \in Batches, NEW h \in Goroutines, Busy(h, b, {"effect"})'
          PROVE  /\ mem'.inflight[b] = handler'[h].phase
                 /\ \A k \in Goroutines : Busy(k, b, {"effect"})' => k = h
      BY <2>7, <2>9, <3>1 DEF MemInv, PayoutsInv
    <3>2. ASSUME NEW b \in Batches
          PROVE  /\ mem'.acct[b].usdc =
                      IF mem'.inflight[b] = "failed" /\ ~Paying(b)' THEN 1 ELSE 0
                 /\ mem'.acct[b].shares \in 0..1
                 /\ mem'.acct[b].shares = 1 => mem'.inflight[b] = "confirmed" /\ ~Paying(b)'
      <4>1. CASE b = r
        BY <1>3, <1>4, <2>5, <2>6, <2>7, <2>12, <4>1
      <4>2. CASE b # r
        BY <1>4, <2>7, <2>11, <4>2 DEF MemInv, PayoutsInv
      <4> QED
        BY <4>1, <4>2
    <3> QED
      BY <3>1, <3>2 DEF PayoutsInv
  <2>15. Progress
    <3>1. \A b \in Batches : Ledger!Forward(LedgerEntry(mem, b), LedgerEntry(mem', b))
      BY <1>3, <1>4, <2>5, <2>7 DEF LedgerEntry, Ledger!Forward
    <3>2. \A t \in Transfers : mem.credited[t] <= mem'.credited[t]
      BY <1>1, <2>7 DEF State
    <3> QED
      BY <2>7, <3>1, <3>2 DEF Progress, Continues
  <2> QED
    BY <2>13, <2>14, <2>15 DEF MemInv
<1> QED
  BY <1>5, <1>6, <1>7, <1>8, <1>9, <1>10 DEF HandlerStep

-----------------------------------------------------------------------------
(* Captured and written states, crashes and recovery *)

LEMMA ContinuesRefl ==
  ASSUME NEW m \in State
  PROVE  Continues(m, m)
  BY DEF Continues, Ledger!Forward, State

LEMMA ContinuesTrans ==
  ASSUME NEW l \in State, NEW m \in State, NEW n \in State,
         Continues(l, m), Continues(m, n)
  PROVE  Continues(l, n)
<1>1. \A b \in Batches : Ledger!Forward(LedgerEntry(n, b), LedgerEntry(l, b))
  BY DEF Continues, Ledger!Forward
<1>2. \A t \in Transfers : n.credited[t] <= l.credited[t]
  BY DEF Continues, State
<1> QED
  BY <1>1, <1>2 DEF Continues

\* Between handlers the state of the process is fit to be written.
LEMMA SettledBetweenHandlers ==
  ASSUME MemInv, \A g \in Goroutines : handler[g].at \notin {"fill", "effect"}
  PROVE  Settled(mem)
<1>1. \A b \in Batches : ~Filling(b) /\ ~Paying(b)
  BY DEF Filling, Paying, Busy
<1> QED
  BY <1>1 DEF MemInv, FillsInv, TransfersInv, PayoutsInv, Settled, Atomic

\* A process that starts from a written state satisfies the invariant.
LEMMA RestartMem ==
  ASSUME Settled(disk), RawInv(disk), mem' = disk,
         \A g \in Goroutines : handler'[g].at = "idle"
  PROVE  MemInv'
<1>1. \A b \in Batches, g \in Goroutines :
        ~Busy(g, b, {"fill"})' /\ ~Busy(g, b, {"effect"})'
  BY DEF Busy
<1>2. \A b \in Batches : ~Filling(b)' /\ ~Paying(b)'
  BY <1>1 DEF Filling, Paying
<1>3. FillsInv' /\ TransfersInv' /\ RawInv(mem)'
  BY <1>2 DEF FillsInv, TransfersInv, RawInv, Settled, Atomic
<1>4. PayoutsInv'
  BY <1>1, <1>2 DEF PayoutsInv, Settled
<1> QED
  BY <1>3, <1>4 DEF MemInv

\* Steps that move no handler and at most drop raw batches of terminal ones.
LEMMA StillMem ==
  ASSUME TypedHandlers, MemInv, handler' = handler,
         \A i \in DOMAIN log : log'[i] = log[i],
         mem'.inflight = mem.inflight, mem'.fills = mem.fills, mem'.acct = mem.acct,
         mem'.done = mem.done, mem'.credited = mem.credited,
         \A b \in Batches :
             b \in mem.raw /\ mem.inflight[b] \notin Terminal => b \in mem'.raw
  PROVE  MemInv' /\ Progress
<1>1. \A h \in Goroutines, b \in Batches, s \in {"fill", "effect"} :
        Busy(h, b, {s})' <=> Busy(h, b, {s})
  BY DEF Busy, MsgOf, TypedHandlers, HandlersInv
<1>2. \A b \in Batches : (Filling(b)' <=> Filling(b)) /\ (Paying(b)' <=> Paying(b))
  BY <1>1 DEF Filling, Paying
<1>3. FillsInv' /\ TransfersInv'
  BY <1>2 DEF MemInv, FillsInv, TransfersInv
<1>4. PayoutsInv'
  BY <1>1, <1>2 DEF MemInv, PayoutsInv
<1>5. RawInv(mem)'
  BY DEF MemInv, RawInv, Terminal
<1>6. Progress
  BY SameMoney DEF Progress, TypedHandlers, TypeOK
<1> QED
  BY <1>3, <1>4, <1>5, <1>6 DEF MemInv

LEMMA EvictMem ==
  ASSUME TypedHandlers, MemInv, handler' = handler, log' = log,
         NEW s, mem' = EvictTerminal(mem, s)
  PROVE  MemInv' /\ Progress
<1>1. mem \in State
  BY DEF TypedHandlers, TypeOK
<1>2. /\ mem'.inflight = mem.inflight /\ mem'.fills = mem.fills
      /\ mem'.acct = mem.acct /\ mem'.done = mem.done
      /\ mem'.credited = mem.credited
  BY <1>1 DEF EvictTerminal, State
<1>3. mem'.raw = {b \in mem.raw : ~(mem.inflight[b] \in Terminal /\ ExecSeq(b) <= s)}
  BY <1>1 DEF EvictTerminal, State
<1> QED
  BY <1>2, <1>3, StillMem

DiskInv ==
    /\ Settled(disk) /\ RawInv(disk) /\ Continues(mem, disk)
    /\ snap # NoSnap => mode = "live"
    /\ snap # NoSnap =>
         Settled(snap) /\ RawInv(snap) /\ Continues(mem, snap) /\ Continues(snap, disk)

\* A step of the process that writes nothing.
LEMMA DiskKept ==
  ASSUME TypedHandlers, mem' \in State, DiskInv, Continues(mem', mem),
         UNCHANGED <<snap, disk, mode>>
  PROVE  DiskInv'
<1>1. mem \in State /\ disk \in State /\ (snap # NoSnap => snap \in State)
  BY DEF TypedHandlers, TypeOK
<1>2. Continues(mem', disk)
  BY <1>1, ContinuesTrans DEF DiskInv
<1>3. snap # NoSnap => Continues(mem', snap)
  BY <1>1, ContinuesTrans DEF DiskInv
<1>4. snap' = snap /\ disk' = disk /\ mode' = mode
  OBVIOUS
<1> QED
  BY <1>2, <1>3, <1>4 DEF DiskInv, Settled, Atomic, RawInv, Continues

LEMMA IndInvParts == IndInv <=> TypedHandlers /\ MemInv /\ DiskInv
  BY DEF IndInv, TypedHandlers, MemInv, DiskInv

LEMMA InitInd == Init => IndInv
<1> SUFFICES ASSUME Init PROVE IndInv
  OBVIOUS
<1>1. TypedHandlers
  BY InitTyped
<1>2. /\ disk = InitState /\ mem = InitState /\ snap = NoSnap
      /\ \A g \in Goroutines : handler[g].at = "idle"
  BY DEF Init, IdleHandler
<1>3. \A b \in Batches : ~Filling(b) /\ ~Paying(b)
  BY <1>2 DEF Filling, Paying, Busy
<1>4. FillsInv /\ TransfersInv /\ RawInv(mem) /\ RawInv(disk)
  BY <1>2, <1>3 DEF FillsInv, TransfersInv, RawInv, InitState
<1>5. PayoutsInv
  BY <1>2, <1>3 DEF PayoutsInv, InitState, Busy
<1>6. Settled(disk)
  BY <1>2 DEF Settled, Atomic, InitState
<1>7. Continues(mem, disk)
  BY <1>2, InitStateType, ContinuesRefl
<1> QED
  BY <1>1, <1>2, <1>4, <1>5, <1>6, <1>7, IndInvParts DEF MemInv, DiskInv

\* Every step keeps the invariant.  Unless it is a crash it makes progress
\* in memory, and always in what is written.
LEMMA NextInd ==
  ASSUME IndInv, [Next]_vars
  PROVE  /\ IndInv'
         /\ crashes' = crashes => Progress
         /\ Continues(disk', disk)
<1>1. TypedHandlers /\ MemInv /\ DiskInv
  BY IndInvParts
<1>2. TypedHandlers' /\ mem' \in State /\ mem \in State /\ disk \in State
  BY <1>1, NextTyped DEF TypedHandlers, TypeOK
<1>3. (disk' = disk => Continues(disk', disk)) /\ Continues(mem, mem)
  BY <1>2, ContinuesRefl
<1>4. ASSUME MemInv', Progress, UNCHANGED <<snap, disk, mode>>
      PROVE  IndInv' /\ Progress /\ Continues(disk', disk)
  <2>1. DiskInv'
    BY <1>1, <1>2, <1>4, DiskKept DEF Progress
  <2>2. IndInv'
    BY <1>2, <1>4, <2>1 DEF IndInv, TypedHandlers, MemInv, DiskInv
  <2> QED
    BY <1>3, <1>4, <2>2
<1>5. CASE UNCHANGED vars
  <2>1. MemInv' /\ Progress
    BY <1>1, <1>5, StillMem DEF vars
  <2> QED
    BY <1>4, <1>5, <2>1 DEF vars
<1>6. ASSUME NEW e \in Event, Publish(e)
      PROVE  IndInv' /\ Progress /\ Continues(disk', disk)
  <2>1. \A i \in DOMAIN log : log'[i] = log[i]
    BY <1>1, <1>6 DEF Publish, TypedHandlers, TypeOK
  <2>2. MemInv' /\ Progress
    BY <1>1, <1>6, <2>1, StillMem DEF Publish
  <2> QED
    BY <1>4, <1>6, <2>2 DEF Publish
<1>7. ASSUME NEW c \in Consumers, Fetch(c) \/ FetchAhead(c)
      PROVE  IndInv' /\ Progress /\ Continues(disk', disk)
  <2>1. PICK i \in DOMAIN log : Dispatch(c, i)
    BY <1>7 DEF Fetch, FetchAhead, Unacked
  <2>2. /\ UNCHANGED <<log, snap, disk, mode>>
        /\ handler[c].at = "idle"
        /\ c \in Goroutines
    BY <1>7 DEF Fetch, FetchAhead, Goroutines
  <2>3. MemInv' /\ Progress
    BY <1>1, <2>1, <2>2, DispatchMem
  <2> QED
    BY <1>4, <2>2, <2>3
<1>8. CASE Replay
  <2> DEFINE i == handler["replay"].seq + 1
  <2>1. "replay" \in Goroutines
    BY DEF Goroutines
  <2>2. i \in DOMAIN log
    BY <1>1, <1>8, <2>1 DEF Replay, TypedHandlers, TypeOK
  <2>3. /\ Dispatch("replay", i)
        /\ UNCHANGED <<log, snap, disk, mode>>
        /\ handler["replay"].at = "idle"
    BY <1>8 DEF Replay
  <2> HIDE DEF i
  <2>4. MemInv' /\ Progress
    BY <1>1, <2>1, <2>2, <2>3, DispatchMem
  <2> QED
    BY <1>4, <2>3, <2>4
<1>9. ASSUME NEW g \in Goroutines, HandlerStep(g)
      PROVE  IndInv' /\ Progress /\ Continues(disk', disk)
  <2>1. MemInv' /\ Progress
    BY <1>1, <1>9, HandlerStepMem
  <2> QED
    BY <1>4, <1>9, <2>1 DEF HandlerStep
<1>10. ASSUME NEW g \in Goroutines, Ack(g) \/ AckLost(g)
       PROVE  IndInv' /\ Progress /\ Continues(disk', disk)
  <2>1. /\ Finish(g)
        /\ UNCHANGED <<log, snap, disk, mode>>
        /\ RaiseEvtSeq(g) \/ UNCHANGED mem
        /\ handler[g].at \in {"ack", "dup"}
    BY <1>10 DEF Ack, AckLost, Acking
  <2>2. OnlyMoves(g) /\ handler'[g].at = "idle"
    BY <1>1, <2>1 DEF Finish, OnlyMoves, TypedHandlers, TypeOK
  <2>3. /\ mem'.inflight = mem.inflight /\ mem'.raw = mem.raw
        /\ mem'.fills = mem.fills /\ mem'.acct = mem.acct
        /\ mem'.done = mem.done /\ mem'.credited = mem.credited
    BY <1>2, <2>1 DEF RaiseEvtSeq, State
  <2>4. MemInv' /\ Progress
    BY <1>1, <2>1, <2>2, <2>3, QuietMove
  <2> QED
    BY <1>4, <2>1, <2>4
<1>11. CASE Capture
  <2>1. /\ UNCHANGED <<log, handler, mem, disk, mode>>
        /\ snap' = mem /\ mode = "live"
        /\ \A g \in Goroutines : handler[g].at \notin {"fill", "effect"}
    BY <1>11 DEF Capture, Unlocked
  <2>2. MemInv' /\ Progress
    BY <1>1, <2>1, StillMem
  <2>3. Settled(mem) /\ RawInv(mem)
    BY <1>1, <2>1, SettledBetweenHandlers DEF MemInv
  <2>4. DiskInv'
    BY <1>1, <1>3, <2>1, <2>3 DEF DiskInv, Settled, Atomic, RawInv, Continues
  <2>5. IndInv'
    BY <1>2, <2>2, <2>4 DEF IndInv, TypedHandlers, MemInv, DiskInv
  <2> QED
    BY <1>3, <2>1, <2>2, <2>5
<1>12. CASE Flush
  <2>1. /\ UNCHANGED <<log, handler, mode>>
        /\ snap # NoSnap /\ disk' = snap /\ snap' = NoSnap
        /\ mem' = EvictTerminal(mem, snap.evtSeq)
    BY <1>12 DEF Flush
  <2>2. MemInv' /\ Progress
    BY <1>1, <2>1, EvictMem
  <2>3. snap \in State
    BY <1>1, <2>1 DEF TypedHandlers, TypeOK
  <2>4. Continues(mem', snap)
    BY <1>1, <1>2, <2>1, <2>2, <2>3, ContinuesTrans DEF Progress, DiskInv
  <2>5. DiskInv'
    BY <1>1, <2>1, <2>4 DEF DiskInv, Settled, Atomic, RawInv, Continues
  <2>6. IndInv'
    BY <1>2, <2>2, <2>5 DEF IndInv, TypedHandlers, MemInv, DiskInv
  <2> QED
    BY <1>1, <2>1, <2>2, <2>6 DEF DiskInv
<1>13. CASE FlushFailed
  <2>1. UNCHANGED <<log, handler, mem, disk, mode>> /\ snap' = NoSnap
    BY <1>13 DEF FlushFailed
  <2>2. MemInv' /\ Progress
    BY <1>1, <2>1, StillMem
  <2>3. DiskInv'
    BY <1>1, <2>1 DEF DiskInv, Settled, Atomic, RawInv, Continues
  <2>4. IndInv'
    BY <1>2, <2>2, <2>3 DEF IndInv, TypedHandlers, MemInv, DiskInv
  <2> QED
    BY <1>3, <2>1, <2>2, <2>4
<1>14. CASE Crash
  <2>1. /\ disk' = disk /\ mem' = disk /\ snap' = NoSnap
        /\ crashes' = crashes + 1 /\ crashes \in Nat
        /\ \A g \in Goroutines : handler'[g].at = "idle"
    BY <1>1, <1>14, ConstantsAssumption DEF Crash, IdleHandler, TypedHandlers, TypeOK
  <2>2. MemInv'
    BY <1>1, <2>1, RestartMem DEF DiskInv
  <2>3. Continues(disk, disk)
    BY <1>2, ContinuesRefl
  <2>4. DiskInv'
    BY <1>1, <2>1, <2>3 DEF DiskInv, Settled, Atomic, RawInv, Continues
  <2>5. IndInv'
    BY <1>2, <2>2, <2>4 DEF IndInv, TypedHandlers, MemInv, DiskInv
  <2> QED
    BY <1>3, <2>1, <2>5
<1>15. CASE GoLive
  <2>1. /\ UNCHANGED <<log, handler, snap>>
        /\ disk' = mem /\ mem' = EvictTerminal(mem, mem.evtSeq)
        /\ mode = "replay" /\ handler["replay"].at = "idle"
    BY <1>15 DEF GoLive
  <2>2. snap' = NoSnap
    BY <1>1, <2>1 DEF DiskInv
  <2>3. \A g \in Goroutines : handler[g].at = "idle"
    BY <1>1, <2>1 DEF TypedHandlers, HandlersInv
  <2>4. MemInv' /\ Progress
    BY <1>1, <2>1, EvictMem
  <2>5. Settled(mem) /\ RawInv(mem)
    BY <1>1, <2>3, SettledBetweenHandlers DEF MemInv
  <2>6. DiskInv'
    BY <2>1, <2>2, <2>4, <2>5 DEF Progress, DiskInv, Settled, Atomic, RawInv, Continues
  <2>7. IndInv'
    BY <1>2, <2>4, <2>6 DEF IndInv, TypedHandlers, MemInv, DiskInv
  <2> QED
    BY <1>1, <2>1, <2>4, <2>7 DEF DiskInv
<1> QED
  BY <1>5, <1>6, <1>7, <1>8, <1>9, <1>10, <1>11, <1>12, <1>13, <1>14, <1>15 DEF Next

-----------------------------------------------------------------------------
(* The theorems *)

\* The inductive invariant: together with the types, which step each handler
\* is at decides how far each batch's fills and payout have got.
THEOREM Invariance == Spec => []IndInv
<1>1. IndInv /\ [Next]_vars => IndInv'
  BY NextInd
<1> QED
  BY InitInd, <1>1, PTL DEF Spec

\* A batch's fills are applied at most once, and it is paid out at most once
\* and in one way, under any interleaving of live consumers, redeliveries,
\* crashes and replays.
THEOREM BatchOnceHolds == Spec => []BatchOnce
<1>1. IndInv => FillsOnce
  BY DEF IndInv, FillsInv, FillsOnce
<1>2. IndInv => PaidOnce
  BY DEF IndInv, PayoutsInv, PaidOnce
<1> QED
  BY Invariance, <1>1, <1>2, PTL DEF BatchOnce

\* Whatever is captured or in Postgres has balances and idempotency state
\* that belong together, and in Postgres a batch's money agrees with its phase.
THEOREM SnapshotSoundHolds == Spec => []SnapshotSound
<1>1. IndInv => SnapshotAtomic
  BY DEF IndInv, Settled, SnapshotAtomic
<1>2. IndInv => PayoutMatchesPhase
  BY DEF IndInv, Settled, PayoutMatchesPhase
<1> QED
  BY Invariance, <1>1, <1>2, PTL DEF SnapshotSound

\* The raw batch is there for as long as a terminal event may need it.
THEOREM RawUntilTerminalHolds == Spec => []RawUntilTerminal
<1>1. IndInv => RawUntilTerminal
  BY DEF IndInv, RawInv, RawUntilTerminal
<1> QED
  BY Invariance, <1>1, PTL

\* The first terminal phase a process has given a batch stands.
THEOREM FirstTerminalWinsHolds == Spec => FirstTerminalWins
<1>1. IndInv /\ [Next]_vars =>
        [\A b \in Batches : mem.inflight[b] \in Terminal /\ crashes' = crashes
            => mem'.inflight[b] = mem.inflight[b]]_vars
  BY NextInd DEF Progress
<1> QED
  BY Invariance, <1>1, PTL DEF Spec, FirstTerminalWins

\* The service implements the ledger: what Postgres says about a batch or a
\* transfer only ever moves the way FundsLedger allows.
THEOREM LedgerImplemented == Spec => LedgerSpec
<1>1. Init => Ledger!Init
  BY DEF Init, Ledger!Init, InitState, LedgerEntry
<1>2. IndInv /\ [Next]_vars => [Ledger!Write]_(Ledger!vars)
  <2> SUFFICES ASSUME IndInv, [Next]_vars PROVE Ledger!Write
    OBVIOUS
  <2>1. IndInv' /\ Continues(disk', disk)
    BY NextInd
  <2>2. disk' \in State /\ Settled(disk)'
    BY <2>1 DEF IndInv, TypeOK
  <2>3. \A t \in Transfers : disk'.credited[t] \in 0..1
    BY <2>2 DEF Settled, Atomic
  <2>4. disk'.credited \in [Transfers -> 0..1]
    BY <2>2, <2>3 DEF State
  <2>5. [b \in Batches |-> LedgerEntry(disk, b)]' \in [Batches -> Ledger!Entries]
    BY DEF LedgerEntry, Ledger!Entries
  <2> QED
    BY <2>1, <2>4, <2>5 DEF Continues, Ledger!Write
<1> QED
  BY Invariance, <1>1, <1>2, PTL DEF Spec, LedgerSpec, Ledger!Spec

=============================================================================
