------------------------------- MODULE Pusher -------------------------------
(***************************************************************************)
(* The pusher (package pusher) for one market and one browser: the hub     *)
(* consumes hot.market.delta (core NATS, at most once), keeps the state of *)
(* the market, which it loads from the writer's read models when it is     *)
(* first needed, and streams a snapshot and then deltas to the websocket   *)
(* connections; the browser's hook useMarketPublicFeed follows them and    *)
(* connects again when its connection ends.                                *)
(*                                                                         *)
(* An event is its number; it sets some levels of the depth and has one    *)
(* fill.  The volume of a level is the number of the event that set it.    *)
(* Trades and price points are numbers of events.  The limits of 100       *)
(* trades and 4096 price points are left out, as are pings.                *)
(***************************************************************************)
EXTENDS Integers, Sequences, SequencesExt

CONSTANTS
    Levels,
    QueueSize,     \* sendQueueSize
    MaxConns,      \* bound: connections the browser opens, one after the other
    MaxEvents,     \* bound: batches of the matcher
    MaxLost        \* bound: hot events lost on the way

ASSUME PusherAssumption ==
    {QueueSize, MaxConns} \subseteq Nat \ {0} /\ {MaxEvents, MaxLost} \subseteq Nat

Conns == 1..MaxConns
Handler == 0                   \* the NATS callback, where it stands beside the connections

VARIABLES
    events,        \* matcher: the levels each event sets
    writer,        \* how many events the read models in Redis reflect
    started,       \* the pusher has subscribed
    hot,           \* events delivered and not handled yet
    lost,          \* history variable: events never handed to the pusher
    blind,         \* history variable: of those, the ones no load has read for good
    market,        \* marketState
    loading,       \* the depth, and its age, that the holder of loadMu has read
    step,          \* handleMessage: "idle", "copy" or "cast"
    targets,       \* connections broadcastMarket has still to serve
    conn,          \* the connections
    browser,       \* the state of the hook
    panicked       \* a send on a closed channel ended the process

upstream == <<events, writer, started>>
handler == <<hot, step, targets>>
feedVars == <<upstream, handler, lost, blind, market, loading, conn, browser, panicked>>

NoDepth == [l \in Levels |-> 0]
View    == [seq : 0..MaxEvents, depth : [Levels -> 0..MaxEvents],
            trades : Seq(1..MaxEvents), history : Seq(1..MaxEvents)]
Message == [t : {"snapshot", "delta"}, seq : 0..MaxEvents, evt : 0..MaxEvents, view : View]
NoView  == [seq |-> 0, depth |-> NoDepth, trades |-> <<>>, history |-> <<>>]

\* pend: deltas that wait for the snapshot; batch: those finishMarketBootstrap is sending.
Connection == [pc : {"off", "ensure", "boot", "drain", "send", "read", "gone"},
               reg : BOOLEAN, open : BOOLEAN, closed : BOOLEAN, boot : BOOLEAN,
               pend : Seq(Message), batch : Seq(Message), send : Seq(Message), snap : View]
Unused == [pc |-> "off", reg |-> FALSE, open |-> FALSE, closed |-> FALSE, boot |-> TRUE,
           pend |-> <<>>, batch |-> <<>>, send |-> <<>>, snap |-> NoView]

FeedTypeOK ==
    /\ events \in Seq(SUBSET Levels) /\ Len(events) <= MaxEvents
    /\ writer \in 0..Len(events) /\ started \in BOOLEAN
    /\ hot \in Seq(DOMAIN events) /\ lost \subseteq DOMAIN events /\ blind \subseteq lost
    /\ market \in [loaded : BOOLEAN, view : View] /\ (market.view.seq > 0 => market.loaded)
    /\ loading \in [depth : [Levels -> 0..MaxEvents], at : 0..MaxEvents, held : BOOLEAN]
    /\ step \in {"idle", "copy", "cast"} /\ targets \subseteq Conns
    /\ conn \in [Conns -> Connection]
    /\ \A c \in Conns : Len(conn[c].send) <= QueueSize /\ (conn[c].closed => ~conn[c].reg)
    /\ browser \in [conn : 0..MaxConns, live : BOOLEAN, has : BOOLEAN, view : View]
    /\ panicked \in BOOLEAN

FeedInit ==
    /\ events = <<>> /\ writer = 0 /\ started = FALSE
    /\ hot = <<>> /\ lost = {} /\ blind = {}
    /\ market = [loaded |-> FALSE, view |-> NoView]
    /\ loading = [depth |-> NoDepth, at |-> 0, held |-> FALSE]
    /\ step = "idle" /\ targets = {}
    /\ conn = [c \in Conns |-> Unused]
    /\ browser = [conn |-> 0, live |-> FALSE, has |-> FALSE, view |-> NoView]
    /\ panicked = FALSE

-----------------------------------------------------------------------------
(* The matcher publishes, the writer follows (external here) *)

\* publishMarketDelta: an event nobody is subscribed to, or that core NATS drops, is gone.
PublishMarketDelta ==
    /\ Len(events) < MaxEvents
    /\ \E s \in SUBSET Levels \ {{}} : events' = Append(events, s)
    /\ LET n == Len(events) + 1 IN
       \/ started /\ hot' = Append(hot, n) /\ UNCHANGED <<lost, blind>>
       \/ /\ ~started \/ Cardinality(lost) < MaxLost
          /\ lost' = lost \cup {n} /\ blind' = blind \cup {n} /\ UNCHANGED hot
    /\ UNCHANGED <<writer, started, step, targets, market, loading, conn, browser, panicked>>

WriterApplies ==
    /\ writer < Len(events) /\ writer' = writer + 1
    /\ UNCHANGED <<events, started, handler, lost, blind, market, loading, conn, browser, panicked>>

\* Service.Start, ensureSubscription
EnsureSubscription ==
    /\ ~started /\ started' = TRUE
    /\ UNCHANGED <<events, writer, handler, lost, blind, market, loading, conn, browser, panicked>>

\* What the first n events make of the depth.
DepthAt(n) == [l \in Levels |-> Max({0} \cup {i \in 1..n : l \in events[i]})]

-----------------------------------------------------------------------------
(* ensureLoaded *)

\* Somebody who needs the state while it is not loaded.
NeedsLoad(w) ==
    /\ ~market.loaded
    /\ IF w = Handler THEN step = "idle" /\ hot # <<>> ELSE conn[w].pc = "ensure"

\* loadMu is free, and loaded is tested again under it.
MayLoad(w) == NeedsLoad(w) /\ ~loading.held

\* GetOrderbook, ...  A read that fails (Redis is away, the context of the request ends) gives the
\* empty book of the fallback: what the read models were at event 0.
LoadOrderbook(w) ==
    /\ started /\ ~panicked /\ MayLoad(w)
    /\ \E n \in {0, writer} : loading' = [depth |-> DepthAt(n), at |-> n, held |-> TRUE]
    /\ UNCHANGED <<upstream, handler, lost, blind, market, conn, browser, panicked>>

\* ... then GetTrades and GetPriceHistory, and the state is set, for good, whatever the reads gave:
\* all rows, or none.  (An earlier event that is handled after the load writes over the levels of one
\* that was loaded.)
LoadTrades ==
    /\ ~panicked /\ loading.held
    /\ loading' = [depth |-> NoDepth, at |-> 0, held |-> FALSE]
    /\ \E j, k \in {0, writer} :
          market' = [loaded |-> TRUE,
                     view |-> [market.view EXCEPT !.depth = loading.depth,
                                                  !.trades = [i \in 1..j |-> writer + 1 - i],
                                                  !.history = [i \in 1..k |-> i]]]
    /\ blind' = {n \in blind : n > loading.at \/ \E m \in Range(hot) : m < n}
    /\ UNCHANGED <<upstream, handler, lost, conn, browser, panicked>>

-----------------------------------------------------------------------------
(* handleMessage, PublishMarketDelta of the hub *)

\* The elements of s at the places I, in their order.
Chosen(s, I) ==
    [k \in 1..Cardinality(I) |-> s[CHOOSE i \in I : Cardinality({j \in I : j < i}) = k - 1]]

Without(s, n) == Chosen(s, {i \in DOMAIN s : s[i] # n})

\* The event applied to a view, in the hub and in the browser: the levels are set, the trade put in
\* front unless it is there already, the price point appended.
Apply(v, n, seq) ==
    [seq |-> seq,
     depth |-> [l \in Levels |-> IF l \in events[n] THEN n ELSE v.depth[l]],
     trades |-> <<n>> \o Without(v.trades, n),
     history |-> Append(v.history, n)]

Delta(n, seq) == [t |-> "delta", seq |-> seq, evt |-> n, view |-> NoView]

\* Mutant: the event is applied without ensureLoaded.
ApplyMatchEventUnloaded ==
    /\ started /\ ~panicked /\ step = "idle" /\ hot # <<>>
    /\ market' = [loaded |-> TRUE, view |-> Apply(market.view, Head(hot), market.view.seq + 1)]
    /\ step' = "copy"
    /\ UNCHANGED <<upstream, hot, targets, lost, blind, loading, conn, browser, panicked>>

\* applyMatchEvent
ApplyMatchEvent ==
    /\ ~panicked /\ step = "idle" /\ hot # <<>> /\ market.loaded
    /\ market' = [market EXCEPT !.view = Apply(@, Head(hot), @.seq + 1)]
    /\ step' = "copy"
    /\ UNCHANGED <<upstream, hot, targets, lost, blind, loading, conn, browser, panicked>>

\* broadcastMarket copies the room under the lock of the hub, ...
CopyRoom ==
    /\ ~panicked /\ step = "copy" /\ targets' = {c \in Conns : conn[c].reg}
    /\ IF targets' = {} THEN step' = "idle" /\ hot' = Tail(hot) ELSE step' = "cast" /\ UNCHANGED hot
    /\ UNCHANGED <<upstream, lost, blind, market, loading, conn, browser, panicked>>

\* enqueueRaw: a full queue closes the websocket and drops the message.
EnqueueRaw(k, m) ==
    IF Len(k.send) < QueueSize THEN [k EXCEPT !.send = Append(@, m)] ELSE [k EXCEPT !.open = FALSE]

\* Mutant: the message goes to the queue whether or not the snapshot is there.
EnqueueMarketAlways(k, m) == EnqueueRaw(k, m)

EnqueueMarket(k, m) == IF k.boot THEN [k EXCEPT !.pend = Append(@, m)] ELSE EnqueueRaw(k, m)

\* ... and serves it without: a connection may be gone by then, and a send on its channel panics.
Cast(c) ==
    /\ ~panicked /\ step = "cast" /\ c \in targets
    /\ IF conn[c].closed /\ ~conn[c].boot
       THEN panicked' = TRUE /\ UNCHANGED conn
       ELSE /\ conn' = [conn EXCEPT ![c] = EnqueueMarket(@, Delta(Head(hot), market.view.seq))]
            /\ UNCHANGED panicked
    /\ targets' = targets \ {c}
    /\ IF targets' = {} THEN step' = "idle" /\ hot' = Tail(hot) ELSE UNCHANGED <<step, hot>>
    /\ UNCHANGED <<upstream, lost, blind, market, loading, browser>>

-----------------------------------------------------------------------------
(* ServeMarketWS *)

KeepsRest == UNCHANGED <<upstream, handler, lost, blind, market, loading, panicked>>

RegisterMarket == [Unused EXCEPT !.pc = "ensure", !.reg = TRUE, !.open = TRUE]

\* The browser's first connection, or the next one after the timer of onclose.
Connect ==
    /\ started /\ ~panicked /\ browser.conn < MaxConns
    /\ browser.conn = 0 \/ ~browser.live
    /\ LET c == browser.conn + 1 IN
       /\ conn' = [conn EXCEPT ![c] = RegisterMarket]
       /\ browser' = [browser EXCEPT !.conn = c, !.live = TRUE]
    /\ KeepsRest

\* buildMarketSnapshot
BuildMarketSnapshot(c) ==
    /\ ~panicked /\ conn[c].pc = "ensure" /\ market.loaded
    /\ conn' = [conn EXCEPT ![c] = [@ EXCEPT !.pc = "boot", !.snap = market.view]]
    /\ UNCHANGED browser /\ KeepsRest

\* finishMarketBootstrap: the snapshot, ...
SendSnapshot(c) ==
    /\ ~panicked /\ conn[c].pc = "boot"
    /\ conn' = [conn EXCEPT ![c] =
                 [EnqueueRaw(@, [t |-> "snapshot", seq |-> @.snap.seq, evt |-> 0, view |-> @.snap])
                    EXCEPT !.pc = "drain"]]
    /\ UNCHANGED browser /\ KeepsRest

\* The messages that are newer than the snapshot.
Newer(k) == Chosen(k.pend, {i \in DOMAIN k.pend : k.pend[i].seq > k.snap.seq})

\* Mutant: bootstrapping is never cleared.
DrainPendingStays(c) ==
    /\ ~panicked /\ conn[c].pc = "drain"
    /\ LET new == Newer(conn[c])
       IN conn' = [conn EXCEPT ![c] = [@ EXCEPT !.pend = <<>>, !.batch = new,
                                                !.pc = IF new = <<>> THEN "read" ELSE "send"]]
    /\ UNCHANGED browser /\ KeepsRest

\* ... the deltas after it that came meanwhile, until there are none under the lock.
DrainPending(c) ==
    /\ ~panicked /\ conn[c].pc = "drain"
    /\ LET new == Newer(conn[c])
       IN conn' = [conn EXCEPT ![c] = [@ EXCEPT !.pend = <<>>, !.batch = new, !.boot = new # <<>>,
                                                !.pc = IF new = <<>> THEN "read" ELSE "send"]]
    /\ UNCHANGED browser /\ KeepsRest

SendPending(c) ==
    /\ ~panicked /\ conn[c].pc = "send"
    /\ LET k == conn[c]
       IN conn' = [conn EXCEPT ![c] =
                    [EnqueueRaw(k, Head(k.batch)) EXCEPT
                       !.batch = Tail(k.batch), !.pc = IF Len(k.batch) = 1 THEN "drain" ELSE "send"]]
    /\ UNCHANGED browser /\ KeepsRest

\* onmessage: a snapshot replaces the state; after one, a delta with a higher number is applied.
OnMessage(m) ==
    IF m.t = "snapshot" THEN [browser EXCEPT !.has = TRUE, !.view = m.view]
    ELSE IF browser.has /\ m.seq > browser.view.seq
    THEN [browser EXCEPT !.view = Apply(@, m.evt, m.seq)]
    ELSE browser

\* writePump
WritePump(c) ==
    /\ ~panicked /\ conn[c].open /\ conn[c].send # <<>>
    /\ conn' = [conn EXCEPT ![c].send = Tail(@)]
    /\ browser' = IF browser.conn = c THEN OnMessage(Head(conn[c].send)) ELSE browser
    /\ KeepsRest

\* The network, the browser or the read deadline ends a connection.
Disconnect(c) ==
    /\ ~panicked /\ conn[c].open /\ conn' = [conn EXCEPT ![c].open = FALSE]
    /\ UNCHANGED browser /\ KeepsRest

\* onclose
OnClose ==
    /\ browser.live /\ ~conn[browser.conn].open
    /\ browser' = [browser EXCEPT !.live = FALSE]
    /\ UNCHANGED conn /\ KeepsRest

\* readPump fails: unregister leaves the room and closes the channel.
Unregister(c) ==
    /\ ~panicked /\ conn[c].pc = "read" /\ ~conn[c].open
    /\ conn' = [conn EXCEPT ![c] = [@ EXCEPT !.pc = "gone", !.reg = FALSE, !.closed = TRUE]]
    /\ UNCHANGED browser /\ KeepsRest

ServeMarketWS(c) ==
    \/ BuildMarketSnapshot(c) \/ SendSnapshot(c) \/ DrainPending(c) \/ SendPending(c)
    \/ WritePump(c) \/ Unregister(c)

HandleMessage == ApplyMatchEvent \/ CopyRoom \/ \E c \in Conns : Cast(c)

Load == LoadTrades \/ \E w \in Conns \cup {Handler} : LoadOrderbook(w)

FeedNext ==
    \/ PublishMarketDelta \/ WriterApplies \/ EnsureSubscription
    \/ Load \/ HandleMessage
    \/ Connect \/ OnClose \/ \E c \in Conns : ServeMarketWS(c) \/ Disconnect(c)

\* The goroutines of the hub run, the browser connects again; a connection need not end.
FeedFairness ==
    /\ WF_feedVars(EnsureSubscription) /\ WF_feedVars(Load) /\ WF_feedVars(HandleMessage)
    /\ WF_feedVars(Connect) /\ WF_feedVars(OnClose)
    /\ \A c \in Conns : WF_feedVars(ServeMarketWS(c))

FeedSpec == FeedInit /\ [][FeedNext]_feedVars /\ FeedFairness

-----------------------------------------------------------------------------
(* Properties *)

\* A browser that has seen the hub's number has the hub's state: snapshot and deltas leave no gap
\* and nothing is applied twice, whatever runs while the snapshot is built, the queue overflows or
\* the browser connects again (ServeMarketWS, enqueueMarket, finishMarketBootstrap, onmessage).
BrowserFollows ==
    browser.has /\ browser.view.seq = market.view.seq => browser.view = market.view

\* The feed of a browser is sound, with queues that stay within their bounds.
FeedSound == FeedTypeOK /\ BrowserFollows

\* Once the hub has handled what it was sent, its depth is the matcher's, unless there was an event
\* that it was not sent and that the load has not read either, be it that the load came before the
\* writer or that its read failed (ensureLoaded against hot events, in any order with the writer).
DepthConverges ==
    market.loaded /\ hot = <<>> /\ blind = {} => market.view.depth = DepthAt(Len(events))

\* A trade is shown once, in the hub and in the browser (containsTrade, the filter of the hook).
TradesOnce ==
    /\ Cardinality(Range(market.view.trades)) = Len(market.view.trades)
    /\ Cardinality(Range(browser.view.trades)) = Len(browser.view.trades)

\* The hub shows what the matcher did, once.
HubSound == DepthConverges /\ TradesOnce

\* A browser whose connection stays open catches up with the hub again and again.
BrowserCatchesUp ==
    []<>(\/ panicked \/ ~browser.live \/ browser.view.seq = market.view.seq)

-----------------------------------------------------------------------------
(* What the design or a comment says and the code does not keep: TLC finds a counterexample
   to each when its name is added to the configuration. *)

\* A client that is too slow, or leaves, does not stop the pusher for the others.
NoPanic == ~panicked

\* The depth is the matcher's once everything is handled, lost events and failed reads or not.
DepthAlwaysConverges == market.loaded /\ hot = <<>> => market.view.depth = DepthAt(Len(events))

\* A state that is loaded has what the read models had: a failed read sets loaded all the same.
LoadReadsDepth ==
    [][loading'.held /\ ~loading.held => loading'.depth = DepthAt(writer)]_feedVars

\* A price point is shown once.
PointsOnce == Cardinality(Range(market.view.history)) = Len(market.view.history)
=============================================================================
