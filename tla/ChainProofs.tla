---------------------------- MODULE ChainProofs ----------------------------
(***************************************************************************)
(* Proofs about ChainRouter for every set of signatures and shards, every  *)
(* assignment of signatures to shards and every number of faults; then     *)
(* about ConfirmWorker, for every posting of the signatures to the three   *)
(* endpoints.                                                              *)
(***************************************************************************)
EXTENDS ChainRouter, ConfirmWorker, TLAPS

WatchType == [here : BOOLEAN, sub : BOOLEAN, cache : {"none", "live", "old"}]
ShardType == [pc : {"wait", "sleep", "connect", "resub", "read"}, wake : BOOLEAN, conn : BOOLEAN,
              pending : SUBSET Sigs, bound : SUBSET Sigs, refused : SUBSET Sigs]
WaitType  == [pc : {"off", "check", "send", "wait", "unsub", "leave", "close", "poll"},
              next : {"ok", "poll", "expired"}, res : {"none", "ok", "expired"}]

\* A watch without a subscriber is kept only for its cached result, and a subscriber is a
\* waiter between SubscribeSignature and its deferred unsubscribe.
WatchesOwned ==
    \A s \in Sigs :
        /\ watches[s].sub => watches[s].here /\ wait[s].pc \in {"send", "wait", "unsub"}
        /\ watches[s].here /\ ~watches[s].sub => watches[s].cache # "none"

\* A result in the cache or in a subscriber's channel is the transaction's, and a waiter that
\* is leaving with "ok" has seen it confirmed.
ResultsTrue ==
    \A s \in Sigs :
        /\ watches[s].cache = "live" => txs[s] # "none"
        /\ chan[s] # "empty" => chan[s] = txs[s]
        /\ wait[s].pc \in {"unsub", "leave", "close"} /\ wait[s].next = "ok" => txs[s] = "ok"

\* The inductive invariant of the router.
RouterInv ==
    /\ TypeOK
    /\ SubscribedUpstream
    /\ WatchesOwned
    /\ ResultsTrue

-----------------------------------------------------------------------------
\* The invariant holds at first.
LEMMA InitRouterInv == Init => RouterInv
BY RouterAssumption DEF Init, RouterInv, TypeOK, SubscribedUpstream, WatchesOwned, ResultsTrue,
   NoWatch, NoConn

\* What TypeOK says of the records, in the form the updates need.
LEMMA Typed ==
  ASSUME TypeOK
  PROVE  /\ watches \in [Sigs -> WatchType] /\ shard \in [Shards -> ShardType]
         /\ wait \in [Sigs -> WaitType]
         /\ \A s \in Sigs : ShardOf[s] \in Shards
BY RouterAssumption DEF TypeOK, WatchType, ShardType, WaitType

\* And back: the types of the parts are TypeOK.
LEMMA TypedBack ==
  ASSUME watches' \in [Sigs -> WatchType], shard' \in [Shards -> ShardType],
         wait' \in [Sigs -> WaitType], txs' \in [Sigs -> {"none", "ok", "err"}],
         chan' \in [Sigs -> {"empty", "ok", "err"}], faults' \in 0..MaxFaults
  PROVE  TypeOK'
BY DEF TypeOK, WatchType, ShardType, WaitType

\* The count of faults stays within its bound.
LEMMA FaultType ==
  ASSUME TypeOK, Fault \/ UNCHANGED faults
  PROVE  faults' \in 0..MaxFaults
BY RouterAssumption DEF TypeOK, Fault

\* What the updates of a waiter do.
LEMMA WaitUpdates ==
  ASSUME NEW w \in WaitType
  PROVE  /\ \A p \in {"off", "check", "send", "wait", "unsub", "leave", "close", "poll"} :
               [w EXCEPT !.pc = p] \in WaitType
         /\ \A r \in {"none", "ok", "expired"} : [w EXCEPT !.pc = "check", !.res = r] \in WaitType
         /\ \A r \in {"none", "ok", "expired"} :
               [w EXCEPT !.pc = "off", !.res = r, !.next = "ok"] \in WaitType
         /\ \A n \in {"ok", "poll", "expired"} : [w EXCEPT !.pc = "unsub", !.next = n] \in WaitType
BY DEF WaitType

\* What the updates of a watch do.
LEMMA WatchUpdates ==
  ASSUME NEW w \in WatchType
  PROVE  /\ NoWatch \in WatchType
         /\ [here |-> TRUE, sub |-> TRUE, cache |-> "none"] \in WatchType
         /\ [w EXCEPT !.sub = TRUE] \in WatchType
         /\ [w EXCEPT !.sub = FALSE] \in WatchType
         /\ \A c \in {"none", "live", "old"} : [w EXCEPT !.cache = c] \in WatchType
BY DEF WatchType, NoWatch

\* What the updates of a shard do.
LEMMA ShardUpdates ==
  ASSUME NEW sh \in ShardType, NEW p \in SUBSET Sigs, NEW q \in SUBSET Sigs,
         NEW c \in {"wait", "sleep", "connect", "resub", "read"}
  PROVE  /\ Closed(sh) \in ShardType
         /\ [Closed(sh) EXCEPT !.pc = c] \in ShardType
         /\ [sh EXCEPT !.pc = c] \in ShardType
         /\ [sh EXCEPT !.pc = c, !.wake = FALSE] \in ShardType
         /\ [sh EXCEPT !.pc = c, !.pending = p] \in ShardType
         /\ [sh EXCEPT !.wake = TRUE, !.pending = p] \in ShardType
         /\ [sh EXCEPT !.wake = TRUE, !.bound = p] \in ShardType
         /\ [sh EXCEPT !.bound = p] \in ShardType
         /\ [sh EXCEPT !.pending = p, !.bound = q] \in ShardType
         /\ [sh EXCEPT !.pending = p, !.refused = q] \in ShardType
         /\ [sh EXCEPT !.pc = c, !.conn = TRUE, !.pending = {}, !.bound = {}, !.refused = {}] \in ShardType
BY DEF ShardType, Closed

\* What the updates of a shard leave alone.
LEMMA ShardFields ==
  ASSUME NEW sh \in ShardType, NEW p, NEW q, NEW c
  PROVE  /\ ~Closed(sh).conn
         /\ [Closed(sh) EXCEPT !.pc = c].pc = c
         /\ [sh EXCEPT !.pc = c].pc = c
         /\ [sh EXCEPT !.pc = c, !.wake = FALSE].pc = c
         /\ [sh EXCEPT !.pc = c, !.conn = TRUE, !.pending = {}, !.bound = {}, !.refused = {}].pc = c
         /\ [sh EXCEPT !.pc = c, !.pending = p].conn = sh.conn
         /\ [sh EXCEPT !.pc = c, !.pending = p].pending = p
<1>1. ~Closed(sh).conn
  BY DEF ShardType, Closed
<1>2. [Closed(sh) EXCEPT !.pc = c].pc = c
  BY DEF ShardType, Closed
<1>3. [sh EXCEPT !.pc = c].pc = c
  BY DEF ShardType
<1>4. [sh EXCEPT !.pc = c, !.wake = FALSE].pc = c
  BY DEF ShardType
<1>5. [sh EXCEPT !.pc = c, !.conn = TRUE, !.pending = {}, !.bound = {}, !.refused = {}].pc = c
  BY DEF ShardType
<1>6. [sh EXCEPT !.pc = c, !.pending = p].conn = sh.conn
  BY DEF ShardType
<1>7. [sh EXCEPT !.pc = c, !.pending = p].pending = p
  BY DEF ShardType
<1> QED
  BY <1>1, <1>2, <1>3, <1>4, <1>5, <1>6, <1>7

\* The subscriptions the server has confirmed.
LEMMA BoundFields ==
  ASSUME NEW sh \in ShardType, NEW p, NEW new, new = [sh EXCEPT !.bound = p]
  PROVE  /\ new.pc = sh.pc /\ new.conn = sh.conn
         /\ new.pending = sh.pending /\ new.bound = p /\ new.refused = sh.refused
BY DEF ShardType

\* The cached result of one watch changes, ...
LEMMA SetCache ==
  ASSUME TypeOK, NEW s \in Sigs, NEW c \in {"none", "live", "old"}, watches' = [watches EXCEPT ![s].cache = c]
  PROVE  /\ watches' \in [Sigs -> WatchType]
         /\ \A r \in Sigs : r # s => watches'[r] = watches[r]
         /\ watches'[s].sub = watches[s].sub /\ watches'[s].here = watches[s].here
         /\ watches'[s].cache = c
<1> DEFINE w == watches[s]
           new == [w EXCEPT !.cache = c]
<1>1. w \in WatchType /\ watches \in [Sigs -> WatchType]
  BY Typed
<1>2. new \in WatchType
  BY <1>1, WatchUpdates
<1>3. new.sub = w.sub /\ new.here = w.here /\ new.cache = c
  BY <1>1 DEF WatchType
<1>4. watches' = [watches EXCEPT ![s] = new]
  OBVIOUS
<1> HIDE DEF new
<1> QED
  BY <1>1, <1>2, <1>3, <1>4

\* ... or one shard, ...
LEMMA SetShard ==
  ASSUME TypeOK, NEW h \in Shards, NEW sh \in ShardType, shard' = [shard EXCEPT ![h] = sh]
  PROVE  /\ shard' \in [Shards -> ShardType]
         /\ shard'[h] = sh /\ \A g \in Shards : g # h => shard'[g] = shard[g]
BY Typed

\* ... or one waiter.
LEMMA SetWait ==
  ASSUME TypeOK, NEW s \in Sigs, NEW w \in WaitType, wait' = [wait EXCEPT ![s] = w]
  PROVE  /\ wait' \in [Sigs -> WaitType]
         /\ wait'[s] = w /\ \A r \in Sigs : r # s => wait'[r] = wait[r]
BY Typed

\* The waiter goes on to its next step.
LEMMA GotoKeeps ==
  ASSUME TypeOK, NEW s \in Sigs,
         NEW p \in {"off", "check", "send", "wait", "unsub", "leave", "close", "poll"}, Goto(s, p)
  PROVE  /\ wait' \in [Sigs -> WaitType]
         /\ wait'[s].pc = p /\ wait'[s].next = wait[s].next
         /\ \A r \in Sigs : r # s => wait'[r] = wait[r]
<1>1. [wait[s] EXCEPT !.pc = p] \in WaitType /\ wait' = [wait EXCEPT ![s] = [wait[s] EXCEPT !.pc = p]]
  BY Typed, WaitUpdates DEF Goto
<1> QED
  BY <1>1, SetWait, Typed DEF WaitType

LEMMA ReturnKeeps ==
  ASSUME TypeOK, NEW s \in Sigs, NEW r \in {"ok", "expired"}, Return(s, r)
  PROVE  /\ wait' \in [Sigs -> WaitType]
         /\ wait'[s].pc = "off" /\ wait'[s].res = r
         /\ \A q \in Sigs : q # s => wait'[q] = wait[q]
<1> DEFINE w == [wait[s] EXCEPT !.pc = "off", !.res = r, !.next = "ok"]
<1>1. w \in WaitType /\ w.pc = "off" /\ w.res = r
  BY Typed DEF WaitType
<1>2. wait' = [wait EXCEPT ![s] = w]
  BY DEF Return
<1> HIDE DEF w
<1> QED
  BY <1>1, <1>2, SetWait

-----------------------------------------------------------------------------
(* The waiter *)

LEMMA BeginKeeps ==
  ASSUME RouterInv, NEW s \in Sigs, Begin(s)
  PROVE  RouterInv'
<1> USE DEF RouterInv
<1>1. TypeOK'
  BY Typed, TypedBack, WaitUpdates DEF Begin, TypeOK
<1>2. SubscribedUpstream'
  BY Typed DEF Begin, SubscribedUpstream, WaitType
<1>3. WatchesOwned' /\ ResultsTrue'
  BY Typed DEF Begin, WatchesOwned, ResultsTrue, WaitType
<1> QED
  BY <1>1, <1>2, <1>3

LEMMA CheckStatusKeeps ==
  ASSUME RouterInv, NEW s \in Sigs, CheckStatus(s)
  PROVE  RouterInv'
<1> USE DEF RouterInv
<1>1. TypeOK'
  BY Typed, TypedBack, WaitUpdates DEF CheckStatus, Return, TypeOK
<1>2. SubscribedUpstream'
  BY Typed DEF CheckStatus, Return, SubscribedUpstream, WaitType
<1>3. WatchesOwned' /\ ResultsTrue'
  BY Typed DEF CheckStatus, Return, WatchesOwned, ResultsTrue, WaitType
<1> QED
  BY <1>1, <1>2, <1>3

LEMMA SubscribeKeeps ==
  ASSUME RouterInv, NEW s \in Sigs, Subscribe(s)
  PROVE  RouterInv'
<1> USE DEF RouterInv
<1>1. TypeOK'
  <2>1. watches' \in [Sigs -> WatchType]
    BY Typed, WatchUpdates DEF Subscribe
  <2>2. wait' \in [Sigs -> WaitType]
    BY Typed, WaitUpdates DEF Subscribe, Goto
  <2>3. faults' \in 0..MaxFaults
    BY FaultType DEF Subscribe
  <2>4. chan' \in [Sigs -> {"empty", "ok", "err"}] /\ UNCHANGED <<txs, shard>>
    BY DEF Subscribe, TypeOK, ResultsTrue
  <2> QED
    BY <2>1, <2>2, <2>3, <2>4, Typed, TypedBack DEF TypeOK
<1>2. SubscribedUpstream'
  BY Typed DEF Subscribe, Goto, SubscribedUpstream, WatchesOwned, WaitType, WatchType
<1>3. WatchesOwned' /\ ResultsTrue'
  BY Typed DEF Subscribe, Goto, WatchesOwned, ResultsTrue, WaitType, WatchType
<1> QED
  BY <1>1, <1>2, <1>3

LEMMA SendSubscribeKeeps ==
  ASSUME RouterInv, NEW s \in Sigs, SendSubscribe(s)
  PROVE  RouterInv'
<1> USE DEF RouterInv
<1>1. TypeOK'
  <2>1. shard' \in [Shards -> ShardType]
    <3> DEFINE h == ShardOf[s]
               p == IF shard[h].conn THEN shard[h].pending \cup {s} ELSE shard[h].pending
               new == [shard[h] EXCEPT !.wake = TRUE, !.pending = p]
    <3>1. h \in Shards /\ p \in SUBSET Sigs
      BY Typed DEF ShardType
    <3>2. new \in ShardType
      BY <3>1, Typed, ShardUpdates
    <3>3. shard' = [shard EXCEPT ![h] = new]
      BY DEF SendSubscribe
    <3> HIDE DEF new
    <3> QED
      BY <3>1, <3>2, <3>3, SetShard
  <2>2. wait' \in [Sigs -> WaitType]
    BY Typed, WaitUpdates DEF SendSubscribe, Goto
  <2> QED
    BY <2>1, <2>2, Typed, TypedBack DEF SendSubscribe, TypeOK
<1>2. SubscribedUpstream'
  BY Typed DEF SendSubscribe, Goto, SubscribedUpstream, WaitType, ShardType
<1>3. WatchesOwned' /\ ResultsTrue'
  BY Typed DEF SendSubscribe, Goto, WatchesOwned, ResultsTrue, WaitType
<1> QED
  BY <1>1, <1>2, <1>3

LEMMA WaitEndsKeeps ==
  ASSUME RouterInv, NEW s \in Sigs, WaitResult(s) \/ WaitDeadline(s)
  PROVE  RouterInv'
<1> USE DEF RouterInv
<1>1. TypeOK'
  <2>1. \E n \in {"ok", "poll", "expired"} :
           wait' = [wait EXCEPT ![s] = [wait[s] EXCEPT !.pc = "unsub", !.next = n]]
    BY DEF WaitResult, WaitDeadline
  <2>2. wait' \in [Sigs -> WaitType]
    BY <2>1, Typed, WaitUpdates, SetWait
  <2> QED
    BY <2>2, Typed, TypedBack DEF WaitResult, WaitDeadline, TypeOK
<1>2. SubscribedUpstream'
  BY Typed DEF WaitResult, WaitDeadline, SubscribedUpstream, WaitType
<1>3. WatchesOwned' /\ ResultsTrue'
  BY Typed DEF WaitResult, WaitDeadline, WatchesOwned, ResultsTrue, WaitType
<1> QED
  BY <1>1, <1>2, <1>3

LEMMA UnsubscribeKeeps ==
  ASSUME RouterInv, NEW s \in Sigs, Unsubscribe(s)
  PROVE  RouterInv'
<1> USE DEF RouterInv
<1>1. TypeOK'
  <2>1. watches' \in [Sigs -> WatchType]
    BY Typed, WatchUpdates DEF Unsubscribe
  <2>2. shard' \in [Shards -> ShardType]
    <3> DEFINE h == ShardOf[s]
               new == [shard[h] EXCEPT !.wake = TRUE, !.bound = shard[h].bound \ {s}]
    <3>1. h \in Shards /\ shard[h].bound \ {s} \in SUBSET Sigs
      BY Typed DEF ShardType
    <3>2. new \in ShardType
      BY <3>1, Typed, ShardUpdates
    <3>3. shard' = [shard EXCEPT ![h] = new]
      BY DEF Unsubscribe
    <3> HIDE DEF new
    <3> QED
      BY <3>1, <3>2, <3>3, SetShard
  <2>3. wait' \in [Sigs -> WaitType]
    BY Typed, WaitUpdates DEF Unsubscribe, Goto
  <2> QED
    BY <2>1, <2>2, <2>3, TypedBack DEF Unsubscribe, TypeOK
<1>2. SubscribedUpstream'
  BY Typed DEF Unsubscribe, Goto, SubscribedUpstream, WaitType, ShardType, WatchType, NoWatch
<1>3. WatchesOwned' /\ ResultsTrue'
  BY Typed DEF Unsubscribe, Goto, WatchesOwned, ResultsTrue, WaitType, WatchType, NoWatch
<1> QED
  BY <1>1, <1>2, <1>3

\* A waiter that goes on holds no subscription.
LEMMA ContinueKeeps ==
  ASSUME RouterInv, NEW s \in Sigs, wait[s].pc \in {"leave", "close"},
         Continue(s) \/ Goto(s, "close"), UNCHANGED <<txs, watches, chan, faults>>
  PROVE  /\ wait' \in [Sigs -> WaitType]
         /\ WatchesOwned' /\ ResultsTrue'
         /\ \A r \in Sigs : watches[r].sub => wait'[r] = wait[r]
<1> USE DEF RouterInv
<1>1. wait[s].next \in {"ok", "poll", "expired"}
  BY Typed DEF WaitType
<1>2. /\ wait' \in [Sigs -> WaitType] /\ \A r \in Sigs : r # s => wait'[r] = wait[r]
      /\ wait'[s].pc \in {"poll", "off"} \/ (wait'[s].pc = "close" /\ wait'[s].next = wait[s].next)
  <2>1. CASE Goto(s, "close") \/ Goto(s, "poll")
    BY <2>1, GotoKeeps
  <2>2. CASE wait[s].next # "poll" /\ Return(s, wait[s].next)
    BY <1>1, <2>2, ReturnKeeps
  <2> QED
    BY <2>1, <2>2 DEF Continue
<1>3. ~watches[s].sub
  BY DEF WatchesOwned
<1> QED
  BY <1>1, <1>2, <1>3 DEF WatchesOwned, ResultsTrue

LEMMA LeaveKeeps ==
  ASSUME RouterInv, NEW s \in Sigs, UnsubscribeLook(s) \/ UnsubscribeClose(s)
  PROVE  RouterInv'
<1> USE DEF RouterInv
<1>1. /\ wait[s].pc \in {"leave", "close"} /\ (Continue(s) \/ Goto(s, "close"))
      /\ UNCHANGED <<txs, watches, chan, faults>>
      /\ shard' = shard \/ shard' = [shard EXCEPT ![ShardOf[s]] = Closed(@)]
  BY DEF UnsubscribeLook, UnsubscribeClose
<1>4. /\ shard' \in [Shards -> ShardType]
      /\ \A h \in Shards : shard'[h] = shard[h] \/ ~shard'[h].conn
  <2>1. ShardOf[s] \in Shards /\ Closed(shard[ShardOf[s]]) \in ShardType
    BY Typed, ShardUpdates
  <2>2. ~Closed(shard[ShardOf[s]]).conn
    BY <2>1, Typed DEF Closed, ShardType
  <2> QED
    BY <1>1, <2>1, <2>2, Typed, SetShard
<1>2. TypeOK'
  BY <1>1, <1>4, Typed, ContinueKeeps, TypedBack DEF TypeOK
<1>3. SubscribedUpstream'
  BY <1>1, <1>4, Typed, ContinueKeeps DEF SubscribedUpstream
<1> QED
  BY <1>1, <1>2, <1>3, ContinueKeeps

LEMMA PollKeeps ==
  ASSUME RouterInv, NEW s \in Sigs, Poll(s)
  PROVE  RouterInv'
<1> USE DEF RouterInv
<1>1. TypeOK'
  BY Typed, TypedBack, WaitUpdates DEF Poll, Return, TypeOK
<1>2. SubscribedUpstream'
  BY Typed DEF Poll, Return, SubscribedUpstream, WaitType
<1>3. WatchesOwned' /\ ResultsTrue'
  BY Typed DEF Poll, Return, WatchesOwned, ResultsTrue, WaitType
<1> QED
  BY <1>1, <1>2, <1>3

LEMMA CallKeeps ==
  ASSUME RouterInv, NEW s \in Sigs, Call(s)
  PROVE  RouterInv'
BY CheckStatusKeeps, SubscribeKeeps, SendSubscribeKeeps, WaitEndsKeeps, UnsubscribeKeeps,
   LeaveKeeps, PollKeeps DEF Call

-----------------------------------------------------------------------------
(* The shards *)

\* A step of shard h that leaves it not reading, without a connection, or with every
\* subscriber that waits for a result on the connection.
LEMMA ShardChangeKeeps ==
  ASSUME RouterInv, NEW h \in Shards, NEW new \in ShardType, shard' = [shard EXCEPT ![h] = new],
         UNCHANGED <<txs, watches, chan, wait>>, Fault \/ UNCHANGED faults,
         new.pc = "read" /\ new.conn =>
            \A s \in Sigs : ShardOf[s] = h /\ watches[s].sub /\ watches[s].cache = "none" =>
                s \in new.pending \cup new.bound \cup new.refused \/ wait[s].pc = "send"
  PROVE  RouterInv'
<1> USE DEF RouterInv
<1>1. /\ shard' \in [Shards -> ShardType]
      /\ shard'[h] = new /\ \A g \in Shards : g # h => shard'[g] = shard[g]
  BY SetShard
<1>2. TypeOK'
  BY <1>1, Typed, TypedBack, FaultType DEF TypeOK
<1>3. SubscribedUpstream'
  BY <1>1, Typed DEF SubscribedUpstream
<1> QED
  BY <1>2, <1>3 DEF WatchesOwned, ResultsTrue

LEMMA MoveOnKeeps ==
  ASSUME RouterInv, NEW h \in Shards,
         ShardNeeded(h) \/ ShardSleep(h) \/ ShardWake(h) \/ ShardConnect(h) \/ ConnectFails(h)
         \/ ReadLoopEnds(h) \/ Disconnect(h)
  PROVE  RouterInv'
<1> USE DEF RouterInv
<1> DEFINE sh == shard[h]
<1>1. sh \in ShardType /\ {} \in SUBSET Sigs
  BY Typed
<1>2. UNCHANGED <<txs, watches, chan, wait>> /\ (Fault \/ UNCHANGED faults)
  BY DEF ShardNeeded, ShardSleep, ShardWake, ShardConnect, ConnectFails, ReadLoopEnds, Disconnect
<1>3. ASSUME NEW new \in ShardType, shard' = [shard EXCEPT ![h] = new], ~(new.pc = "read" /\ new.conn)
      PROVE  RouterInv'
  BY <1>2, <1>3, ShardChangeKeeps
<1>4. CASE ShardNeeded(h)
  <2> DEFINE new == [sh EXCEPT !.pc = "connect"]
  <2>1. new \in ShardType
    BY <1>1, ShardUpdates
  <2>2. new.pc # "read"
    BY <1>1, ShardFields
  <2>3. shard' = [shard EXCEPT ![h] = new]
    BY <1>4 DEF ShardNeeded
  <2> HIDE DEF new
  <2> QED
    BY <1>3, <2>1, <2>2, <2>3
<1>5. CASE ShardSleep(h)
  <2> DEFINE new == [Closed(sh) EXCEPT !.pc = "sleep"]
  <2>1. new \in ShardType
    BY <1>1, ShardUpdates
  <2>2. new.pc # "read"
    BY <1>1, ShardFields
  <2>3. shard' = [shard EXCEPT ![h] = new]
    BY <1>5 DEF ShardSleep
  <2> HIDE DEF new
  <2> QED
    BY <1>3, <2>1, <2>2, <2>3
<1>6. CASE ShardWake(h)
  <2> DEFINE new == [sh EXCEPT !.pc = "wait", !.wake = FALSE]
  <2>1. new \in ShardType
    BY <1>1, ShardUpdates
  <2>2. new.pc # "read"
    BY <1>1, ShardFields
  <2>3. shard' = [shard EXCEPT ![h] = new]
    BY <1>6 DEF ShardWake
  <2> HIDE DEF new
  <2> QED
    BY <1>3, <2>1, <2>2, <2>3
<1>7. CASE ShardConnect(h)
  <2> DEFINE new == [sh EXCEPT !.pc = "resub", !.conn = TRUE, !.pending = {}, !.bound = {}, !.refused = {}]
  <2>1. new \in ShardType
    BY <1>1, ShardUpdates
  <2>2. new.pc # "read"
    BY <1>1, ShardFields
  <2>3. shard' = [shard EXCEPT ![h] = new]
    BY <1>7 DEF ShardConnect
  <2> HIDE DEF new
  <2> QED
    BY <1>3, <2>1, <2>2, <2>3
<1>8. CASE ConnectFails(h)
  <2> DEFINE new == [sh EXCEPT !.pc = "wait"]
  <2>1. new \in ShardType
    BY <1>1, ShardUpdates
  <2>2. new.pc # "read"
    BY <1>1, ShardFields
  <2>3. shard' = [shard EXCEPT ![h] = new]
    BY <1>8 DEF ConnectFails
  <2> HIDE DEF new
  <2> QED
    BY <1>3, <2>1, <2>2, <2>3
<1>9. CASE ReadLoopEnds(h)
  <2> DEFINE new == [Closed(sh) EXCEPT !.pc = "wait"]
  <2>1. new \in ShardType
    BY <1>1, ShardUpdates
  <2>2. new.pc # "read"
    BY <1>1, ShardFields
  <2>3. shard' = [shard EXCEPT ![h] = new]
    BY <1>9 DEF ReadLoopEnds
  <2> HIDE DEF new
  <2> QED
    BY <1>3, <2>1, <2>2, <2>3
<1>10. CASE Disconnect(h)
  <2> DEFINE new == Closed(sh)
  <2>1. new \in ShardType
    BY <1>1, ShardUpdates
  <2>2. ~new.conn
    BY <1>1, ShardFields
  <2>3. shard' = [shard EXCEPT ![h] = new]
    BY <1>10 DEF Disconnect
  <2> HIDE DEF new
  <2> QED
    BY <1>3, <2>1, <2>2, <2>3
<1> QED
  BY <1>4, <1>5, <1>6, <1>7, <1>8, <1>9, <1>10

LEMMA ResubscribeAllKeeps ==
  ASSUME RouterInv, NEW h \in Shards, ResubscribeAll(h)
  PROVE  RouterInv'
<1> USE DEF RouterInv
<1> DEFINE sh == shard[h]
           p == IF sh.conn THEN sh.pending \cup Subscribed(h) ELSE sh.pending
           new == [sh EXCEPT !.pc = "read", !.pending = p]
<1>1. sh \in ShardType /\ p \in SUBSET Sigs
  BY Typed DEF ShardType, Subscribed
<1>2. new \in ShardType /\ new.conn = sh.conn /\ new.pending = p
  <2>1. new \in ShardType
    BY <1>1, ShardUpdates
  <2>2. new.conn = sh.conn /\ new.pending = p
    BY <1>1, ShardFields
  <2> QED
    BY <2>1, <2>2
<1>3. shard' = [shard EXCEPT ![h] = new]
  BY DEF ResubscribeAll
<1>4. UNCHANGED <<txs, watches, chan, wait, faults>>
  BY DEF ResubscribeAll
<1>5. new.conn => \A s \in Sigs : ShardOf[s] = h /\ watches[s].sub => s \in new.pending
  BY <1>2 DEF Subscribed
<1> HIDE DEF new
<1> QED
  BY <1>2, <1>3, <1>4, <1>5, ShardChangeKeeps

LEMMA AnswerKeeps ==
  ASSUME RouterInv, NEW s \in Sigs, SubscribeAck(s) \/ SubscribeRefused(s)
  PROVE  RouterInv'
<1> USE DEF RouterInv
<1> DEFINE h == ShardOf[s]
           sh == shard[h]
           ack == [sh EXCEPT !.pending = sh.pending \ {s}, !.bound = sh.bound \cup {s}]
           ref == [sh EXCEPT !.pending = sh.pending \ {s}, !.refused = sh.refused \cup {s}]
<1>1. h \in Shards /\ sh \in ShardType
  BY Typed
<1>2. /\ ack \in ShardType /\ ack.pc = sh.pc /\ ack.conn = sh.conn
      /\ ack.pending \cup ack.bound \cup ack.refused = sh.pending \cup sh.bound \cup sh.refused \cup {s}
  <2>1. sh.pending \ {s} \in SUBSET Sigs /\ sh.bound \cup {s} \in SUBSET Sigs
    BY <1>1 DEF ShardType
  <2>2. ack \in ShardType
    BY <1>1, <2>1, ShardUpdates
  <2>3. /\ ack.pc = sh.pc /\ ack.conn = sh.conn /\ ack.pending = sh.pending \ {s}
        /\ ack.bound = sh.bound \cup {s}
        /\ ack.refused = sh.refused
    BY <1>1 DEF ShardType
  <2> HIDE DEF ack
  <2> QED
    BY <2>2, <2>3
<1>3. /\ ref \in ShardType /\ ref.pc = sh.pc /\ ref.conn = sh.conn
      /\ ref.pending \cup ref.bound \cup ref.refused = sh.pending \cup sh.bound \cup sh.refused \cup {s}
  <2>1. sh.pending \ {s} \in SUBSET Sigs /\ sh.refused \cup {s} \in SUBSET Sigs
    BY <1>1 DEF ShardType
  <2>2. ref \in ShardType
    BY <1>1, <2>1, ShardUpdates
  <2>3. /\ ref.pc = sh.pc /\ ref.conn = sh.conn /\ ref.pending = sh.pending \ {s}
        /\ ref.bound = sh.bound
        /\ ref.refused = sh.refused \cup {s}
    BY <1>1 DEF ShardType
  <2> HIDE DEF ref
  <2> QED
    BY <2>2, <2>3
<1>4. /\ \/ shard' = [shard EXCEPT ![h] = ack]
         \/ shard' = [shard EXCEPT ![h] = ref]
      /\ UNCHANGED <<txs, watches, chan, wait>> /\ (Fault \/ UNCHANGED faults)
  <2>1. CASE SubscribeAck(s)
    <3>1. shard' = [shard EXCEPT ![h] = ack]
      BY <2>1 DEF SubscribeAck
    <3> QED
      BY <2>1, <3>1 DEF SubscribeAck
  <2>2. CASE SubscribeRefused(s)
    <3>1. shard' = [shard EXCEPT ![h] = ref]
      BY <2>2 DEF SubscribeRefused
    <3> QED
      BY <2>2, <3>1 DEF SubscribeRefused
  <2> QED
    BY <2>1, <2>2
<1>5. sh.pc = "read" /\ sh.conn =>
         \A r \in Sigs : ShardOf[r] = h /\ watches[r].sub /\ watches[r].cache = "none" =>
             r \in sh.pending \cup sh.bound \cup sh.refused \/ wait[r].pc = "send"
  BY DEF SubscribedUpstream
<1> HIDE DEF ack, ref
<1> QED
  BY <1>1, <1>2, <1>3, <1>4, <1>5, ShardChangeKeeps

LEMMA NotificationKeeps ==
  ASSUME RouterInv, NEW s \in Sigs, Notification(s)
  PROVE  RouterInv'
<1> USE DEF RouterInv
<1> DEFINE h == ShardOf[s]
           sh == shard[h]
           new == [sh EXCEPT !.bound = sh.bound \ {s}]
<1>1. h \in Shards /\ sh \in ShardType
  BY Typed
<1>2. /\ new \in ShardType /\ new.pc = sh.pc /\ new.conn = sh.conn
      /\ new.pending = sh.pending /\ new.refused = sh.refused /\ new.bound = sh.bound \ {s}
  <2>1. sh.bound \ {s} \in SUBSET Sigs
    BY <1>1 DEF ShardType
  <2>2. new \in ShardType
    BY <1>1, <2>1, ShardUpdates
  <2> QED
    BY <1>1, <2>2, BoundFields
<1>3. shard' = [shard EXCEPT ![h] = new] /\ txs[s] # "none" /\ UNCHANGED <<txs, wait, faults>>
  BY DEF Notification
<1>4. /\ shard' \in [Shards -> ShardType]
      /\ shard'[h] = new /\ \A g \in Shards : g # h => shard'[g] = shard[g]
  <2> HIDE DEF new
  <2> QED
    BY <1>1, <1>2, <1>3, SetShard
<1>5. /\ watches' \in [Sigs -> WatchType]
      /\ \A r \in Sigs : r # s => watches'[r] = watches[r]
      /\ watches'[s].sub = watches[s].sub /\ watches'[s].here = watches[s].here
      /\ watches'[s].cache = IF watches[s].here THEN "live" ELSE watches[s].cache
  <2> DEFINE c == IF watches[s].here THEN "live" ELSE watches[s].cache
  <2>1. c \in {"none", "live", "old"}
    BY DEF TypeOK
  <2>2. watches' = [watches EXCEPT ![s].cache = c]
    BY DEF Notification
  <2> HIDE DEF c
  <2>3. /\ watches' \in [Sigs -> WatchType]
        /\ \A r \in Sigs : r # s => watches'[r] = watches[r]
        /\ watches'[s].sub = watches[s].sub /\ watches'[s].here = watches[s].here
        /\ watches'[s].cache = c
    BY <2>1, <2>2, SetCache
  <2> QED
    BY <2>3 DEF c
<1>6. /\ chan' \in [Sigs -> {"empty", "ok", "err"}]
      /\ \A r \in Sigs : chan'[r] # "empty" => chan'[r] = chan[r] \/ chan'[r] = txs[r]
  BY DEF Notification, TypeOK
<1>7. TypeOK'
  BY <1>3, <1>4, <1>5, <1>6, Typed, TypedBack DEF TypeOK
<1>8. SubscribedUpstream'
  <2> SUFFICES ASSUME NEW r \in Sigs, shard'[ShardOf[r]].pc = "read", shard'[ShardOf[r]].conn,
                      watches'[r].sub, watches'[r].cache = "none"
               PROVE  \/ wait'[r].pc = "send"
                      \/ r \in shard'[ShardOf[r]].pending \cup shard'[ShardOf[r]].bound
                                 \cup shard'[ShardOf[r]].refused
    BY DEF SubscribedUpstream
  <2>1. r # s
    BY <1>5 DEF WatchesOwned
  <2>2. ShardOf[r] \in Shards
    BY Typed
  <2> HIDE DEF new
  <2> QED
    BY <1>2, <1>3, <1>4, <1>5, <2>1, <2>2 DEF SubscribedUpstream
<1>9. WatchesOwned'
  BY <1>3, <1>5 DEF WatchesOwned
<1>10. ResultsTrue'
  BY <1>3, <1>5, <1>6 DEF ResultsTrue
<1> QED
  BY <1>7, <1>8, <1>9, <1>10

-----------------------------------------------------------------------------
(* Time and the chain *)

LEMMA CacheKeeps ==
  ASSUME RouterInv, NEW s \in Sigs, CacheExpires(s) \/ Cleanup(s)
  PROVE  RouterInv'
<1> USE DEF RouterInv
<1>1. UNCHANGED <<txs, chan, shard, wait, faults>>
  BY DEF CacheExpires, Cleanup
<1>2. /\ watches' \in [Sigs -> WatchType]
      /\ \A r \in Sigs : r # s => watches'[r] = watches[r]
      /\ \/ watches'[s] = NoWatch /\ ~watches[s].sub
         \/ /\ watches'[s].sub = watches[s].sub /\ watches'[s].here = watches[s].here
            /\ watches'[s].cache = "old"
  <2>1. CASE CacheExpires(s)
    <3>1. watches' = [watches EXCEPT ![s].cache = "old"]
      BY <2>1 DEF CacheExpires
    <3> QED
      BY <3>1, SetCache
  <2>2. CASE Cleanup(s)
    <3>1. watches' = [watches EXCEPT ![s] = NoWatch] /\ ~watches[s].sub
      BY <2>2 DEF Cleanup
    <3>2. watches \in [Sigs -> WatchType] /\ NoWatch \in WatchType
      BY Typed, WatchUpdates
    <3> QED
      BY <3>1, <3>2
  <2> QED
    BY <2>1, <2>2
<1>3. TypeOK'
  BY <1>1, <1>2, Typed, TypedBack DEF TypeOK
<1>4. SubscribedUpstream'
  BY <1>1, <1>2 DEF SubscribedUpstream, NoWatch
<1>5. WatchesOwned' /\ ResultsTrue'
  BY <1>1, <1>2 DEF WatchesOwned, ResultsTrue, NoWatch
<1> QED
  BY <1>3, <1>4, <1>5

LEMMA LandKeeps ==
  ASSUME RouterInv, NEW s \in Sigs, Land(s)
  PROVE  RouterInv'
<1> USE DEF RouterInv
<1>1. UNCHANGED <<watches, chan, shard, wait, faults>>
  BY DEF Land
<1>2. txs' \in [Sigs -> {"none", "ok", "err"}] /\ \A r \in Sigs : txs[r] # "none" => txs'[r] = txs[r]
  BY DEF Land, TypeOK
<1>3. TypeOK'
  BY <1>1, <1>2 DEF TypeOK
<1>4. SubscribedUpstream' /\ WatchesOwned'
  BY <1>1 DEF SubscribedUpstream, WatchesOwned
<1>5. ResultsTrue'
  BY <1>1, <1>2 DEF ResultsTrue, TypeOK
<1> QED
  BY <1>3, <1>4, <1>5

\* Every step keeps the invariant.
LEMMA NextKeepsRouterInv == RouterInv /\ [Next]_vars => RouterInv'
<1> SUFFICES ASSUME RouterInv, [Next]_vars
             PROVE  RouterInv'
    OBVIOUS
<1>1. ASSUME NEW s \in Sigs, Begin(s) \/ Call(s) \/ WaitDeadline(s) \/ Upstream(s) \/ SubscribeRefused(s)
                             \/ CacheExpires(s) \/ Cleanup(s) \/ Land(s)
      PROVE  RouterInv'
  BY <1>1, BeginKeeps, CallKeeps, WaitEndsKeeps, AnswerKeeps, NotificationKeeps, CacheKeeps, LandKeeps
     DEF Upstream
<1>2. ASSUME NEW h \in Shards, ShardStep(h) \/ ConnectFails(h) \/ Disconnect(h)
      PROVE  RouterInv'
  BY <1>2, MoveOnKeeps, ResubscribeAllKeeps DEF ShardStep
<1>3. CASE UNCHANGED vars
  BY <1>3 DEF vars, RouterInv, TypeOK, SubscribedUpstream, WatchesOwned, ResultsTrue
<1> QED
  BY <1>1, <1>2, <1>3 DEF Next

-----------------------------------------------------------------------------
\* So it holds in every state.
LEMMA RouterInvHolds == Spec => []RouterInv
BY InitRouterInv, NextKeepsRouterInv, PTL DEF Spec

\* No subscription is lost: while a shard reads, every watch with a subscriber and no result is
\* subscribed on that connection, or refused, or about to send its request itself, whatever
\* order SubscribeSignature, connect, resubscribeAll, unsubscribe and the idle close come in.
THEOREM RouterSoundHolds == Spec => []RouterSound
<1>1. RouterInv => RouterSound
  BY DEF RouterInv, RouterSound
<1> QED
  BY <1>1, RouterInvHolds, PTL

-----------------------------------------------------------------------------
(* The waiter keeps its promise *)

\* The outcome the promise sees of a wait.
Outcome(w) == IF w.pc # "off" THEN "waiting" ELSE IF w.res = "none" THEN "idle" ELSE w.res
Outcomes == [s \in Sigs |-> Outcome(wait[s])]

\* What a step that changes the wait of s only does to the outcomes.
LEMMA OutcomeChange ==
  ASSUME NEW s \in Sigs, \A r \in Sigs : r # s => wait'[r] = wait[r]
  PROVE  Outcomes' = [Outcomes EXCEPT ![s] = Outcome(wait'[s])]
BY DEF Outcomes

\* A call begins, ...
LEMMA BeginPromised ==
  ASSUME RouterInv, NEW s \in Sigs, Begin(s)
  PROVE  Promise!Start(s)
<1>1. /\ \A r \in Sigs : r # s => wait'[r] = wait[r]
      /\ wait'[s].pc = "check" /\ wait[s].pc = "off" /\ UNCHANGED txs
  BY Typed DEF Begin, RouterInv, WaitType
<1>2. wait[s].res \in {"none", "ok", "expired"}
  BY Typed DEF RouterInv, WaitType
<1>3. Outcome(wait[s]) # "waiting" /\ Outcome(wait'[s]) = "waiting"
  BY <1>1, <1>2 DEF Outcome
<1> QED
  BY <1>1, <1>3, OutcomeChange DEF Promise!Start, Outcomes, Outcome

\* ... returns, ...
LEMMA ReturnPromised ==
  ASSUME RouterInv, NEW s \in Sigs, NEW r \in {"ok", "expired"}, Return(s, r), UNCHANGED txs,
         wait[s].pc # "off", r = "ok" => txs[s] = "ok"
  PROVE  Promise!Confirmed(s) \/ Promise!Expired(s)
<1>1. /\ \A q \in Sigs : q # s => wait'[q] = wait[q]
      /\ wait'[s].pc = "off" /\ wait'[s].res = r
  BY Typed, ReturnKeeps DEF RouterInv
<1>2. Outcome(wait[s]) = "waiting" /\ Outcome(wait'[s]) = r
  BY <1>1 DEF Outcome
<1> QED
  BY <1>1, <1>2, OutcomeChange DEF Promise!Confirmed, Promise!Expired, Outcomes, Outcome

\* ... and does not show in between.
LEMMA GoesOnPromised ==
  ASSUME NEW s \in Sigs, wait[s].pc # "off", wait'[s].pc # "off", UNCHANGED txs,
         \A r \in Sigs : r # s => wait'[r] = wait[r]
  PROVE  UNCHANGED Promise!wvars
<1>1. Outcomes' = Outcomes
  BY DEF Outcomes, Outcome
<1> QED
  BY <1>1 DEF Promise!wvars, Outcomes, Outcome

\* A waiter that returns does what ConfirmWait allows, ...
LEMMA ContinuePromised ==
  ASSUME RouterInv, NEW s \in Sigs, wait[s].pc \in {"leave", "close"}, Continue(s), UNCHANGED txs
  PROVE  Promise!Confirmed(s) \/ Promise!Expired(s) \/ UNCHANGED Promise!wvars
<1>1. CASE wait[s].next = "poll"
  <2>1. \A r \in Sigs : r # s => wait'[r] = wait[r]
    BY <1>1, GotoKeeps DEF Continue, RouterInv
  <2>2. wait'[s].pc = "poll"
    BY <1>1, GotoKeeps DEF Continue, RouterInv
  <2> QED
    BY <2>1, <2>2, GoesOnPromised
<1>2. CASE wait[s].next # "poll"
  <2>1. wait[s].next \in {"ok", "expired"} /\ Return(s, wait[s].next)
    BY <1>2, Typed DEF Continue, RouterInv, WaitType
  <2>2. wait[s].next = "ok" => txs[s] = "ok"
    BY DEF RouterInv, ResultsTrue
  <2> QED
    BY <2>1, <2>2, ReturnPromised
<1> QED
  BY <1>1, <1>2

\* ... and so does every other step of a waiter.
LEMMA CallPromised ==
  ASSUME RouterInv, NEW s \in Sigs, Call(s) \/ WaitDeadline(s)
  PROVE  Promise!Confirmed(s) \/ Promise!Expired(s) \/ UNCHANGED Promise!wvars
<1>1. CASE CheckStatus(s)
  BY <1>1, ReturnPromised DEF CheckStatus
<1>2. CASE Subscribe(s)
  <2>1. wait[s].pc = "check" /\ UNCHANGED txs
        /\ (Goto(s, "wait") \/ Goto(s, "send"))
    BY <1>2 DEF Subscribe
  <2> QED
    BY <2>1, GotoKeeps, GoesOnPromised DEF RouterInv
<1>3. CASE SendSubscribe(s)
  BY <1>3, GotoKeeps, GoesOnPromised DEF RouterInv, SendSubscribe
<1>4. CASE WaitResult(s) \/ WaitDeadline(s)
  <2>1. /\ \A r \in Sigs : r # s => wait'[r] = wait[r]
        /\ wait'[s].pc = "unsub" /\ wait[s].pc = "wait" /\ UNCHANGED txs
    BY <1>4, Typed DEF WaitResult, WaitDeadline, RouterInv, WaitType
  <2> QED
    BY <2>1, GoesOnPromised
<1>5. CASE Unsubscribe(s)
  BY <1>5, GotoKeeps, GoesOnPromised DEF RouterInv, Unsubscribe
<1>6. CASE UnsubscribeLook(s)
  <2>1. CASE Continue(s)
    BY <1>6, <2>1, ContinuePromised DEF UnsubscribeLook
  <2>2. CASE Goto(s, "close")
    BY <1>6, <2>2, GotoKeeps, GoesOnPromised DEF UnsubscribeLook, RouterInv
  <2> QED
    BY <1>6, <2>1, <2>2 DEF UnsubscribeLook
<1>7. CASE UnsubscribeClose(s)
  BY <1>7, ContinuePromised DEF UnsubscribeClose
<1>8. CASE Poll(s)
  BY <1>8, ReturnPromised DEF Poll
<1> QED
  BY <1>1, <1>2, <1>3, <1>4, <1>5, <1>6, <1>7, <1>8 DEF Call

\* Every step of waiter, router, shards and chain is a step of the promise or does not show.
LEMMA StepPromised ==
  ASSUME RouterInv, [Next]_vars
  PROVE  [Promise!Next]_(Promise!wvars)
<1>1. ASSUME NEW s \in Sigs, Begin(s)
      PROVE  Promise!Next
  BY <1>1, BeginPromised DEF Promise!Next
<1>2. ASSUME NEW s \in Sigs, Call(s) \/ WaitDeadline(s)
      PROVE  Promise!Next \/ UNCHANGED Promise!wvars
  BY <1>2, CallPromised DEF Promise!Next
<1>3. ASSUME NEW s \in Sigs, Land(s)
      PROVE  Promise!Next
  <2>1. Promise!Land(s)
    BY <1>3 DEF Land, Promise!Land
  <2> QED
    BY <2>1 DEF Promise!Next
<1>4. ASSUME UNCHANGED <<txs, wait>>
      PROVE  UNCHANGED Promise!wvars
  BY <1>4 DEF Promise!wvars
<1>5. ASSUME NEW s \in Sigs, Upstream(s) \/ SubscribeRefused(s) \/ CacheExpires(s) \/ Cleanup(s)
      PROVE  UNCHANGED <<txs, wait>>
  BY <1>5 DEF Upstream, SubscribeAck, Notification, SubscribeRefused, CacheExpires, Cleanup
<1>6. ASSUME NEW h \in Shards, ShardStep(h) \/ ConnectFails(h) \/ Disconnect(h)
      PROVE  UNCHANGED <<txs, wait>>
  BY <1>6 DEF ShardStep, ShardNeeded, ShardSleep, ShardWake, ShardConnect, ResubscribeAll,
     ReadLoopEnds, ConnectFails, Disconnect
<1>7. CASE UNCHANGED vars
  BY <1>4, <1>7 DEF vars
<1> QED
  BY <1>1, <1>2, <1>3, <1>4, <1>5, <1>6, <1>7 DEF Next

\* WaitForConfirmed keeps its promise through every interleaving of waiters, shards and lost
\* connections: it returns "ok" only for a transaction confirmed without an error, and every
\* other call that ends is reported expired.  Router and shards implement ConfirmWait.
THEOREM PromiseKept == Spec => KeepsPromise
<1>1. Init => Promise!Init
  BY DEF Init, Promise!Init
<1>2. RouterInv /\ [Next]_vars => [Promise!Next]_(Promise!wvars)
  BY StepPromised
<1> QED
  BY RouterInvHolds, <1>1, <1>2, PTL DEF Spec, KeepsPromise, Promise!Spec

-----------------------------------------------------------------------------
(* The workers that wait for a confirmation: ConfirmWorker, for every posting of the
   signatures to the three endpoints.  faults is the workers' own in what follows: no theorem
   is about the router and the workers at once.                                          *)

Verdict(t, s) == [t |-> t, s |-> s]

\* A task that is about to write a row has the verdict on the stream; one that is about to
\* publish a confirmation has verified the transaction (processSubmission's order).
TasksBacked ==
    \A s \in Sigs :
        /\ task[s].pc = "markConfirmed" => Verdict("confirmed", s) \in published
        /\ task[s].pc \in {"markFailed", "markExpired"} => Verdict("failed", s) \in published
        /\ task[s].pc = "pubConfirmed" => Verified(s)

\* What the market projector is handed was published.
EventsPublished == \A s \in mevents : Verdict("confirmed", s) \in published

\* The inductive invariant: what is on the stream, in the tables and in the tasks agrees.
WorkerInv ==
    /\ WorkerTypeOK
    /\ RowHasVerdict
    /\ AckedIsDecided
    /\ TasksBacked
    /\ EventsPublished
    /\ stored = accepted

-----------------------------------------------------------------------------
\* The invariant holds at first.
LEMMA InitWorkerInv == WorkerInit => WorkerInv
BY WorkerAssumption DEF WorkerInit, WorkerInv, WorkerTypeOK, RowHasVerdict,
   AckedIsDecided, TasksBacked,
   EventsPublished, Off, Steps, Kinds, Terminal, Verdict

\* A verified transaction stays verified: kinds are fixed and a landed transaction is final.
LEMMA VerifiedStays ==
  ASSUME WorkerTypeOK, NEW s \in Sigs, Verified(s), kind' = kind, holds[s] # "none" => holds'[s] = holds[s]
  PROVE  Verified(s)'
BY DEF Verified, VerifyDepositTransaction, VerifyWithdrawTransaction,
   VerifyMarketCreateTransaction

\* And it stays verified by steps that touch neither.
LEMMA VerifiedSame ==
  ASSUME UNCHANGED <<kind, holds>>
  PROVE  \A s : Verified(s)' <=> Verified(s)
BY DEF Verified, VerifyDepositTransaction, VerifyWithdrawTransaction,
   VerifyMarketCreateTransaction

TaskType == [pc : Steps, msg : BOOLEAN]

\* A task as startSubmissionTask and recoverActive create it.
Started   == [pc |-> "mark", msg |-> TRUE]
Recovered == [pc |-> "mark", msg |-> FALSE]

\* A task that is started, moved on or ended keeps its type.
LEMMA TaskTypes ==
  /\ Off \in TaskType
  /\ {Started, Recovered} \subseteq TaskType /\ Started.pc = "mark" /\ Recovered.pc = "mark"
  /\ \A t \in TaskType, p \in Steps : [t EXCEPT !.pc = p] \in TaskType /\ [t EXCEPT !.pc = p].pc = p
<1>1. /\ Off \in TaskType
      /\ {Started, Recovered} \subseteq TaskType /\ Started.pc = "mark" /\ Recovered.pc = "mark"
  BY DEF TaskType, Off, Started, Recovered, Steps
<1>2. ASSUME NEW t \in TaskType, NEW p \in Steps
      PROVE  [t EXCEPT !.pc = p] \in TaskType /\ [t EXCEPT !.pc = p].pc = p
  BY DEF TaskType
<1> QED
  BY <1>1, <1>2

LEMMA WorkerGotoKeeps ==
  ASSUME WorkerTypeOK, NEW s \in Sigs, NEW p \in Steps, GoOn(s, p)
  PROVE  /\ task' \in [Sigs -> TaskType]
         /\ task'[s].pc = p
         /\ \A r \in Sigs : r # s => task'[r] = task[r]
<1>1. task \in [Sigs -> TaskType] /\ task' = [task EXCEPT ![s] = [@ EXCEPT !.pc = p]]
  BY DEF WorkerTypeOK, TaskType, GoOn
<1> QED
  BY <1>1, TaskTypes

-----------------------------------------------------------------------------
(* The gateway and the consumers *)

LEMMA SubmitKeeps ==
  ASSUME WorkerInv, NEW s \in Sigs, Submit(s)
  PROVE  WorkerInv'
<1> USE DEF WorkerInv
<1>1. /\ rows' = [rows EXCEPT ![s] = IF @ = "none" THEN "submitted" ELSE @]
      /\ UNCHANGED <<kind, holds, markets, up, hand, task, published, mevents>>
  BY DEF Submit, UpsertSubmitted, chain, worker
<1>2. \/ /\ stored' = stored \cup {s} /\ accepted' = accepted \cup {s}
         /\ msgs' = [msgs EXCEPT ![s] = IF s \in stored THEN @ ELSE "ready"]
         /\ UNCHANGED faults
      \/ Fault /\ UNCHANGED <<stored, accepted, msgs>>
  BY DEF Submit
<1>3. WorkerTypeOK'
  BY <1>1, <1>2, WorkerAssumption DEF WorkerTypeOK, Fault, Terminal
<1>4. RowHasVerdict'
  BY <1>1, VerifiedSame DEF WorkerTypeOK, RowHasVerdict
<1>5. AckedIsDecided'
  BY <1>1, <1>2 DEF WorkerTypeOK, AckedIsDecided, Terminal
<1>6. TasksBacked' /\ EventsPublished'
  BY <1>1, VerifiedSame DEF TasksBacked, EventsPublished
<1>7. stored' = accepted'
  BY <1>2
<1> QED
  BY <1>3, <1>4, <1>5, <1>6, <1>7

\* A nak and an expired ack wait put a command back, and acknowledge nothing.
LEMMA NakKeeps ==
  ASSUME WorkerTypeOK, NEW s \in Sigs, Nak(s)
  PROVE  /\ msgs' \in [Sigs -> {"none", "ready", "out"}]
         /\ \A r \in Sigs : msgs'[r] = "none" => msgs[r] = "none"
BY DEF WorkerTypeOK, Nak

LEMMA ConsumeKeeps ==
  ASSUME WorkerInv, NEW s \in Sigs, Consume(s) \/ AckWaitExpires(s)
  PROVE  WorkerInv'
<1> USE DEF WorkerInv
<1>1. UNCHANGED <<kind, holds, rows, markets, stored, accepted, published, mevents, up, faults>>
  BY DEF Consume, HandleLoad, HandleStart, AckWaitExpires, chain, store, worker
<1>2. /\ msgs' \in [Sigs -> {"none", "ready", "out"}]
      /\ \A r \in Sigs : msgs'[r] = "none" => msgs[r] = "none" \/ rows[r] \in Terminal
  BY NakKeeps DEF Consume, HandleLoad, HandleStart, AckWaitExpires, WorkerTypeOK
<1>3. /\ hand' \in [Kinds -> Sigs \cup {NoSig}]
      /\ task' \in [Sigs -> TaskType]
      /\ \A r \in Sigs : task'[r] = task[r] \/ task'[r].pc = "mark"
  <2>1. kind[s] \in Kinds /\ task \in [Sigs -> TaskType]
    BY WorkerAssumption DEF WorkerTypeOK, TaskType
  <2>2. hand' \in [Kinds -> Sigs \cup {NoSig}]
    BY <2>1 DEF Consume, HandleLoad, HandleStart, AckWaitExpires, WorkerTypeOK, worker
  <2>3. \/ task' = task
        \/ task' = [task EXCEPT ![s] = Started]
    BY DEF Started, Consume, HandleLoad, HandleStart, AckWaitExpires, worker
  <2> QED
    BY <2>1, <2>2, <2>3, TaskTypes
<1>4. WorkerTypeOK'
  BY <1>1, <1>2, <1>3 DEF WorkerTypeOK, TaskType
<1>5. RowHasVerdict' /\ EventsPublished'
  BY <1>1, VerifiedSame DEF RowHasVerdict, EventsPublished
<1>6. AckedIsDecided'
  BY <1>1, <1>2 DEF WorkerTypeOK, AckedIsDecided
<1>7. TasksBacked'
  BY <1>1, <1>3, VerifiedSame DEF TasksBacked
<1> QED
  BY <1>1, <1>4, <1>5, <1>6, <1>7

-----------------------------------------------------------------------------
(* processSubmission *)

\* A task that goes back keeps its command on the stream.
LEMMA RetryKeeps ==
  ASSUME WorkerTypeOK, NEW s \in Sigs, Retry(s)
  PROVE  /\ msgs' \in [Sigs -> {"none", "ready", "out"}]
         /\ \A r \in Sigs : msgs'[r] = "none" => msgs[r] = "none"
         /\ task' \in [Sigs -> TaskType]
         /\ \A r \in Sigs : task'[r] = task[r] \/ task'[r].pc \in {"off", "retry"}
<1>1. CASE GoOn(s, "retry") /\ UNCHANGED msgs
  BY <1>1, WorkerGotoKeeps DEF WorkerTypeOK, Steps
<1>2. CASE task' = [task EXCEPT ![s] = Off] /\ Nak(s)
  <2>1. task \in [Sigs -> TaskType]
    BY DEF WorkerTypeOK, TaskType
  <2>2. task' \in [Sigs -> TaskType] /\ \A r \in Sigs : task'[r] = task[r] \/ task'[r].pc = "off"
    BY <1>2, <2>1, TaskTypes DEF Off
  <2> QED
    BY <1>2, <2>2, NakKeeps
<1> QED
  BY <1>1, <1>2 DEF Retry

\* The count of faults stays within its bound.
LEMMA WorkerFaultType ==
  ASSUME WorkerTypeOK, Fault \/ UNCHANGED faults
  PROVE  faults' \in 0..MaxFaults
BY WorkerAssumption DEF WorkerTypeOK, Fault

\* The steps that write neither a decision nor a verdict.
LEMMA PlainStepKeeps ==
  ASSUME WorkerInv, NEW s \in Sigs,
         MarkWatching(s) \/ WaitConfirmed(s) \/ WaitExpired(s) \/ Verify(s) \/ RecoveryReload(s)
  PROVE  WorkerInv'
<1> USE DEF WorkerInv
<1>1. UNCHANGED <<kind, holds, markets, stored, accepted, published, mevents, up, hand>>
  BY DEF MarkWatching, WaitConfirmed, WaitExpired, Verify, RecoveryReload, chain,
     store, stream
<1>2. /\ rows' \in [Sigs -> {"none", "submitted", "watching"} \cup Terminal]
      /\ \A r \in Sigs : rows'[r] = rows[r] \/ (rows[r] = "submitted" /\ rows'[r] = "watching")
  BY DEF MarkWatching, WaitConfirmed, WaitExpired, Verify, RecoveryReload, store,
     WorkerTypeOK
<1>3. /\ msgs' \in [Sigs -> {"none", "ready", "out"}]
      /\ \A r \in Sigs : msgs'[r] = "none" => msgs[r] = "none"
  BY RetryKeeps DEF MarkWatching, WaitConfirmed, WaitExpired, Verify, RecoveryReload,
     FaultRetry,
     stream, WorkerTypeOK
<1>4. /\ task' \in [Sigs -> TaskType]
      /\ \A r \in Sigs : \/ task'[r] = task[r]
                         \/ task'[r].pc \in {"off", "retry", "mark", "wait", "verify", "pubFailed", "pubExpired"}
                         \/ task'[r].pc = "pubConfirmed" /\ Verified(r)
  <2>1. CASE FaultRetry(s)
    BY <2>1, RetryKeeps DEF FaultRetry
  <2>2. ASSUME NEW p \in {"wait", "verify", "pubExpired", "mark", "pubFailed", "pubConfirmed"},
               GoOn(s, p), p = "pubConfirmed" => Verified(s)
        PROVE  <1>4!1 /\ <1>4!2
    BY <2>2, WorkerGotoKeeps DEF Steps
  <2>3. CASE task' = [task EXCEPT ![s] = Off]
    <3>1. task \in [Sigs -> TaskType]
      BY DEF WorkerTypeOK, TaskType
    <3> QED
      BY <2>3, <3>1, TaskTypes DEF Off
  <2>4. CASE MarkWatching(s) \/ WaitConfirmed(s) \/ WaitExpired(s)
    BY <2>1, <2>2, <2>4 DEF MarkWatching, WaitConfirmed, WaitExpired
  <2>5. CASE Verify(s)
    <3>1. CASE FaultRetry(s)
      BY <2>1, <3>1
    <3>2. CASE Verified(s) /\ GoOn(s, "pubConfirmed")
      BY <2>2, <3>2
    <3>3. CASE ~Verified(s) /\ GoOn(s, "pubFailed")
      BY <2>2, <3>3
    <3> QED
      BY <2>5, <3>1, <3>2, <3>3 DEF Verify
  <2>6. CASE RecoveryReload(s)
    BY <2>2, <2>3, <2>6 DEF RecoveryReload, GoOn
  <2> QED
    BY <2>4, <2>5, <2>6
<1>5. faults' \in 0..MaxFaults
  BY WorkerFaultType DEF MarkWatching, WaitConfirmed, WaitExpired, Verify,
     RecoveryReload, FaultRetry
<1>6. WorkerTypeOK'
  BY <1>1, <1>2, <1>3, <1>4, <1>5 DEF WorkerTypeOK, TaskType
<1>7. RowHasVerdict' /\ EventsPublished'
  BY <1>1, <1>2, VerifiedSame DEF RowHasVerdict, EventsPublished
<1>8. AckedIsDecided'
  BY <1>1, <1>2, <1>3 DEF WorkerTypeOK, AckedIsDecided, Terminal
<1>9. TasksBacked'
  BY <1>1, <1>4, VerifiedSame DEF TasksBacked
<1> QED
  BY <1>1, <1>6, <1>7, <1>8, <1>9

\* The publication of a verdict: only a verified transaction is published as confirmed.
LEMMA PublishVerdictKeeps ==
  ASSUME WorkerInv, NEW s \in Sigs, NEW t \in {"confirmed", "failed"}, PublishVerdict(s, t),
         t = "confirmed" => Verified(s), UNCHANGED <<kind, holds>>
  PROVE  /\ published' \subseteq [t : {"confirmed", "failed"}, s : Sigs]
         /\ published \subseteq published' /\ Verdict(t, s) \in published'
         /\ \A e \in published' : e.t = "confirmed" => Verified(e.s)'
         /\ mevents' \subseteq Sigs /\ EventsPublished'
<1> USE DEF WorkerInv
<1>1. published' = published \cup {Verdict(t, s)}
  BY DEF PublishVerdict, Verdict
<1>2. mevents' \subseteq mevents \cup {s} /\ (t # "confirmed" => mevents' = mevents)
  BY DEF PublishVerdict
<1>3. Verdict(t, s) \in [t : {"confirmed", "failed"}, s : Sigs] /\ Verdict(t, s).t = t /\ Verdict(t, s).s = s
  BY DEF Verdict
<1>4. \A e \in published' : e.t = "confirmed" => Verified(e.s)'
  BY <1>1, <1>3, VerifiedSame DEF RowHasVerdict
<1>5. EventsPublished'
  BY <1>1, <1>2 DEF EventsPublished
<1> QED
  BY <1>1, <1>2, <1>3, <1>4, <1>5 DEF WorkerTypeOK

LEMMA PublishKeeps ==
  ASSUME WorkerInv, NEW s \in Sigs, NEW t \in {"confirmed", "failed"}, NEW pc, NEW then \in Steps,
         Publish(s, pc, t, then),
         t = "confirmed" => Verified(s),
         then = "markConfirmed" => t = "confirmed",
         then \in {"markFailed", "markExpired"} => t = "failed",
         then # "pubConfirmed"
  PROVE  WorkerInv'
<1> USE DEF WorkerInv
<1>1. UNCHANGED <<kind, holds, rows, markets, stored, accepted, up, hand>>
  BY DEF Publish, chain, store
<1>2. \/ PublishVerdict(s, t) /\ GoOn(s, then) /\ UNCHANGED <<msgs, faults>>
      \/ Retry(s) /\ Fault /\ UNCHANGED <<published, mevents>>
      \/ Retry(s) /\ Fault /\ PublishVerdict(s, t)
  BY DEF Publish, FaultRetry
<1>3. /\ published' \subseteq [t : {"confirmed", "failed"}, s : Sigs]
      /\ published \subseteq published'
      /\ \A e \in published' : e.t = "confirmed" => Verified(e.s)'
      /\ mevents' \subseteq Sigs /\ EventsPublished'
  <2>1. CASE PublishVerdict(s, t)
    BY <1>1, <2>1, PublishVerdictKeeps
  <2>2. CASE UNCHANGED <<published, mevents>>
    BY <1>1, <2>2, VerifiedSame DEF RowHasVerdict, EventsPublished, WorkerTypeOK
  <2> QED
    BY <1>2, <2>1, <2>2
<1>4. /\ msgs' \in [Sigs -> {"none", "ready", "out"}]
      /\ \A r \in Sigs : msgs'[r] = "none" => msgs[r] = "none"
  BY <1>2, RetryKeeps DEF WorkerTypeOK
<1>5. /\ task' \in [Sigs -> TaskType]
      /\ \A r \in Sigs : \/ task'[r] = task[r]
                         \/ task'[r].pc \in {"off", "retry"}
                         \/ r = s /\ task'[s].pc = then /\ Verdict(t, s) \in published'
  <2>1. CASE Retry(s)
    BY <2>1, RetryKeeps
  <2>2. CASE PublishVerdict(s, t) /\ GoOn(s, then)
    BY <1>1, <2>2, WorkerGotoKeeps, PublishVerdictKeeps
  <2> QED
    BY <1>2, <2>1, <2>2
<1>6. WorkerTypeOK'
  <2>1. faults' \in 0..MaxFaults
    BY <1>2, WorkerFaultType
  <2> QED
    BY <1>1, <1>3, <1>4, <1>5, <2>1 DEF WorkerTypeOK, TaskType
<1>7. RowHasVerdict'
  BY <1>1, <1>3 DEF RowHasVerdict
<1>8. AckedIsDecided'
  BY <1>1, <1>4 DEF AckedIsDecided, WorkerTypeOK
<1>9. TasksBacked'
  BY <1>1, <1>3, <1>5, VerifiedSame DEF TasksBacked
<1> QED
  BY <1>1, <1>3, <1>6, <1>7, <1>8, <1>9

\* A decision is written only after its verdict, and only then is the command acknowledged.
LEMMA MarkKeeps ==
  ASSUME WorkerInv, NEW s \in Sigs, NEW pc, NEW status \in Terminal, Mark(s, pc, status),
         status = "confirmed" => Verdict("confirmed", s) \in published,
         status \in {"failed", "expired"} => Verdict("failed", s) \in published
  PROVE  WorkerInv'
<1> USE DEF WorkerInv
<1>1. UNCHANGED <<kind, holds, markets, stored, accepted, published, mevents, up, hand>>
  BY DEF Mark, chain
<1>2. \/ rows' = [rows EXCEPT ![s] = status] /\ Finish(s)
      \/ Fault /\ Retry(s) /\ rows' = rows
  BY DEF Mark, FaultRetry
<1>3. /\ rows' \in [Sigs -> {"none", "submitted", "watching"} \cup Terminal]
      /\ \A r \in Sigs : rows'[r] = rows[r] \/ (r = s /\ rows'[r] = status)
  BY <1>2 DEF WorkerTypeOK
<1>4. /\ task' \in [Sigs -> TaskType]
      /\ \A r \in Sigs : task'[r] = task[r] \/ task'[r].pc \in {"off", "retry"}
  <2>1. CASE Retry(s)
    BY <2>1, RetryKeeps
  <2>2. CASE task' = [task EXCEPT ![s] = Off]
    <3>1. task \in [Sigs -> TaskType]
      BY DEF WorkerTypeOK, TaskType
    <3> QED
      BY <2>2, <3>1, TaskTypes DEF Off
  <2> QED
    BY <1>2, <2>1, <2>2 DEF Finish
<1>5. /\ msgs' \in [Sigs -> {"none", "ready", "out"}]
      /\ \A r \in Sigs : msgs'[r] = "none" => msgs[r] = "none" \/ rows'[r] \in Terminal
  <2>1. CASE Retry(s)
    BY <2>1, RetryKeeps
  <2>2. CASE rows' = [rows EXCEPT ![s] = status] /\ Finish(s)
    BY <2>2 DEF Finish, WorkerTypeOK
  <2> QED
    BY <1>2, <2>1, <2>2
<1>6. WorkerTypeOK'
  <2>1. faults' \in 0..MaxFaults
    BY <1>2, WorkerFaultType DEF Finish
  <2> QED
    BY <1>1, <1>3, <1>4, <1>5, <2>1 DEF WorkerTypeOK, TaskType
<1>7. RowHasVerdict' /\ EventsPublished'
  BY <1>1, <1>3, VerifiedSame DEF RowHasVerdict, EventsPublished, Verdict, Terminal
<1>8. AckedIsDecided'
  BY <1>1, <1>3, <1>5 DEF AckedIsDecided, WorkerTypeOK
<1>9. TasksBacked'
  BY <1>1, <1>4, VerifiedSame DEF TasksBacked
<1> QED
  BY <1>1, <1>6, <1>7, <1>8, <1>9

LEMMA ProcessSubmissionKeeps ==
  ASSUME WorkerInv, NEW s \in Sigs, ProcessSubmission(s)
  PROVE  WorkerInv'
<1>1. CASE MarkWatching(s) \/ WaitConfirmed(s) \/ WaitExpired(s) \/ Verify(s) \/ RecoveryReload(s)
  BY <1>1, PlainStepKeeps
<1>2. CASE PublishConfirmed(s)
  <2>1. Publish(s, "pubConfirmed", "confirmed", "markConfirmed") /\ task[s].pc = "pubConfirmed"
    BY <1>2 DEF PublishConfirmed, Publish
  <2>2. Verified(s)
    BY <2>1 DEF WorkerInv, TasksBacked
  <2> QED
    BY <2>1, <2>2, PublishKeeps DEF Steps
<1>3. CASE PublishFailed(s)
  BY <1>3, PublishKeeps DEF PublishFailed, Steps
<1>4. CASE MarkConfirmed(s)
  <2>1. Mark(s, "markConfirmed", "confirmed") /\ task[s].pc = "markConfirmed"
    BY <1>4 DEF MarkConfirmed, Mark
  <2> QED
    BY <2>1, MarkKeeps DEF Terminal, WorkerInv, TasksBacked
<1>5. CASE MarkFailed(s)
  <2>1. Mark(s, "markFailed", "failed") /\ task[s].pc = "markFailed"
    BY <1>5 DEF MarkFailed, Mark
  <2> QED
    BY <2>1, MarkKeeps DEF Terminal, WorkerInv, TasksBacked
<1>6. CASE MarkExpired(s)
  <2>1. Mark(s, "markExpired", "expired") /\ task[s].pc = "markExpired"
    BY <1>6 DEF MarkExpired, Mark
  <2> QED
    BY <2>1, MarkKeeps DEF Terminal, WorkerInv, TasksBacked
<1> QED
  BY <1>1, <1>2, <1>3, <1>4, <1>5, <1>6 DEF ProcessSubmission

-----------------------------------------------------------------------------
(* The market projector, the process and the chain *)

LEMMA ProjectMarketKeeps ==
  ASSUME WorkerInv, NEW s \in Sigs, ProjectMarket(s)
  PROVE  WorkerInv'
<1> USE DEF WorkerInv
<1>1. UNCHANGED <<kind, holds, stored, accepted, msgs, published, up, hand, task>>
  BY DEF ProjectMarket, chain, worker
<1>2. /\ s \in mevents /\ mevents' \subseteq mevents
      /\ markets' = [markets EXCEPT ![s] = "open"]
      /\ rows' = rows \/ rows' = [rows EXCEPT ![s] = "confirmed"]
  BY DEF ProjectMarket
<1>3. WorkerTypeOK'
  <2>1. faults' \in 0..MaxFaults
    BY WorkerFaultType DEF ProjectMarket
  <2> QED
    BY <1>1, <1>2, <2>1 DEF WorkerTypeOK, Terminal
<1>4. RowHasVerdict'
  BY <1>1, <1>2, VerifiedSame DEF RowHasVerdict, EventsPublished, Verdict, WorkerTypeOK
<1>5. AckedIsDecided'
  BY <1>1, <1>2 DEF AckedIsDecided, WorkerTypeOK, Terminal
<1>6. TasksBacked' /\ EventsPublished'
  BY <1>1, <1>2, VerifiedSame DEF TasksBacked, EventsPublished
<1> QED
  BY <1>1, <1>3, <1>4, <1>5, <1>6

LEMMA ResolveCreatorKeeps ==
  ASSUME WorkerInv, NEW s \in Sigs, ResolveCreator(s)
  PROVE  WorkerInv'
<1> USE DEF WorkerInv
<1>1. /\ UNCHANGED <<kind, holds, rows, stored, accepted, msgs, published, mevents, up, hand, task, faults>>
      /\ markets' = [markets EXCEPT ![s] = "resolved"]
  BY DEF ResolveCreator, chain, stream, worker
<1>2. WorkerTypeOK'
  BY <1>1 DEF WorkerTypeOK
<1> QED
  BY <1>1, <1>2, VerifiedSame DEF RowHasVerdict, AckedIsDecided, TasksBacked, EventsPublished

\* A crash loses the tasks and a restart begins them again: neither writes or acknowledges.
LEMMA CrashRestartKeeps ==
  ASSUME WorkerInv, Crash \/ Restart
  PROVE  WorkerInv'
<1> USE DEF WorkerInv
<1>1. UNCHANGED <<kind, holds, rows, markets, stored, accepted, msgs, published, mevents>>
  BY DEF Crash, Restart, chain, store, stream
<1>2. /\ hand' \in [Kinds -> Sigs \cup {NoSig}] /\ up' \in BOOLEAN
  BY DEF Crash, Restart, WorkerTypeOK
<1>3. task' \in [Sigs -> TaskType] /\ \A r \in Sigs : task'[r].pc \in {"off", "mark"}
  <2>1. \/ task' = [r \in Sigs |-> Off]
        \/ task' = [r \in Sigs |-> IF rows[r] \in {"submitted", "watching"} THEN Recovered ELSE Off]
    BY DEF Crash, Restart, Recovered
  <2>2. Off \in TaskType /\ Recovered \in TaskType /\ Off.pc = "off" /\ Recovered.pc = "mark"
    BY TaskTypes DEF Off
  <2> HIDE DEF Off
  <2> QED
    BY <2>1, <2>2
<1>4. WorkerTypeOK'
  <2>1. faults' \in 0..MaxFaults
    BY WorkerFaultType DEF Crash, Restart
  <2> QED
    BY <1>1, <1>2, <1>3, <2>1 DEF WorkerTypeOK, TaskType
<1>5. TasksBacked'
  BY <1>3 DEF TasksBacked
<1> QED
  BY <1>1, <1>4, <1>5, VerifiedSame DEF RowHasVerdict, AckedIsDecided, EventsPublished

LEMMA WorkerLandKeeps ==
  ASSUME WorkerInv, NEW s \in Sigs, LandTx(s)
  PROVE  WorkerInv'
<1> USE DEF WorkerInv
<1>1. /\ UNCHANGED <<kind, rows, markets, stored, accepted, msgs, published, mevents, up, hand, task, faults>>
      /\ holds[s] = "none" /\ \E r \in {"err", "other", kind[s]} : holds' = [holds EXCEPT ![s] = r]
  BY DEF LandTx, store, stream, worker
<1>2. WorkerTypeOK'
  BY <1>1, WorkerAssumption DEF WorkerTypeOK
<1>3. \A r \in Sigs : Verified(r) => Verified(r)'
  BY <1>1, VerifiedStays DEF WorkerTypeOK
<1>4. RowHasVerdict'
  BY <1>1, <1>3 DEF RowHasVerdict, WorkerTypeOK
<1> QED
  BY <1>1, <1>2, <1>3, <1>4 DEF AckedIsDecided, TasksBacked, EventsPublished

\* Every step keeps the invariant.
LEMMA NextKeepsWorkerInv ==
  WorkerInv /\ [WorkerNext]_workerVars => WorkerInv'
<1> SUFFICES ASSUME WorkerInv, [WorkerNext]_workerVars
             PROVE  WorkerInv'
    OBVIOUS
<1>1. ASSUME NEW s \in Sigs, Submit(s) \/ Consume(s) \/ ProcessSubmission(s) \/ ProjectMarket(s)
                             \/ ResolveCreator(s) \/ AckWaitExpires(s) \/ LandTx(s)
      PROVE  WorkerInv'
  BY <1>1, SubmitKeeps, ConsumeKeeps, ProcessSubmissionKeeps, ProjectMarketKeeps,
     ResolveCreatorKeeps, WorkerLandKeeps
<1>2. CASE Crash \/ Restart
  BY <1>2, CrashRestartKeeps
<1>3. CASE UNCHANGED workerVars
  BY <1>3, VerifiedSame DEF workerVars, chain, store, stream, worker, WorkerInv, WorkerTypeOK,
     RowHasVerdict, AckedIsDecided, TasksBacked, EventsPublished
<1> QED
  BY <1>1, <1>2, <1>3 DEF WorkerNext, SubmitDeposit, SubmitWithdraw, CreateMarket,
     DepositConsume, WithdrawConsume, MarketConsume, DepositTask, WithdrawTask, MarketTask

-----------------------------------------------------------------------------
\* No row is decided without its verdict on the stream, no transaction is confirmed that does
\* not hold what was submitted, and no accepted command is acknowledged before its row is
\* decided: whatever call fails, task restarts or process dies (processSubmission,
\* handleMessage, runRecoveryTask, recoverActive).
THEOREM DecisionsKeptHolds ==
  WorkerSpec => []DecisionsKept
<1>1. WorkerInv => DecisionsKept
  BY DEF WorkerInv, DecisionsKept
<1>2. (WorkerInit => WorkerInv) /\ (WorkerInv /\ [WorkerNext]_workerVars => WorkerInv')
  BY InitWorkerInv, NextKeepsWorkerInv
<1> QED
  BY <1>1, <1>2, PTL DEF WorkerSpec
=============================================================================
