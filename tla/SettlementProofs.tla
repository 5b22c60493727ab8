-------------------------- MODULE SettlementProofs --------------------------
(***************************************************************************)
(* Proofs about Settlement for every set of batches and markets, every     *)
(* chain length, validity of a blockhash and number of faults.             *)
(***************************************************************************)
EXTENDS Settlement, WellFoundedInduction, TLAPS

-----------------------------------------------------------------------------
(* The inductive invariant *)

\* A batch that reached the chain once.
Done(b) == rows[b].status \in {"processed", "confirmed", "failed"} /\ rows[b].sig # 0

\* A row has a signature from its first submission on, a failed one is paused, and rows are
\* prepared in the order they were stored.
RowsShaped ==
    \A b \in Batches :
        /\ rows[b].status \in {"absent", "queued", "prepared"} => rows[b].sig = 0
        /\ rows[b].status \in {"submitted", "processed", "confirmed"} => rows[b].sig \in Heights
        /\ rows[b].status = "failed" => rows[b].lane = "paused"
        /\ rows[b].status = "absent" => rows[b].warm = {} /\ rows[b].lane = "active"

\* What a goroutine that still has work to do relies on: its row is where it left it.
TasksBacked ==
    \A a \in after :
        /\ a.k = "processed" => Done(a.b)
        /\ a.k \in {"failed", "pause"} => rows[a.b].status = "failed"
        /\ a.k = "confirmed" => rows[a.b].status = "confirmed"
        /\ \A c \in after : a.k = "processed" /\ c.k = "processed" /\ a.b = c.b => a = c

\* A process that is down holds nothing.
DownHoldsNothing ==
    /\ phase = "down" => /\ lanes = [m \in Markets |-> [paused |-> FALSE, current |-> NoBatch]]
                         /\ watch = [b \in Batches |-> Idle]
                         /\ ing = {} /\ rec = NoTask /\ after = {} /\ tried = {}
    /\ phase # "up" => sub = [b \in Batches |-> Idle]
    /\ rec.b = NoBatch => rec = NoTask

Lane(b) == lanes[MarketOf[b]]
Held(b) == Lane(b).current = b \/ Lane(b).paused

\* A batch of a market in which no submitted row was left without its lane.
Tidy(b) == MarketOf[b] \notin strayed

\* A batch a submitMatch or the chain is working on.
Engaged(b) == Tidy(b) /\ (rows[b].status = "submitted" \/ sub[b].pc = "load")

\* Everything of a market the reconciler finds at start belongs to one batch.
Resumed(b) ==
    /\ Tidy(b)
    /\ \/ rows[b].status = "submitted" \/ rec.b = b \/ Lane(b).current = b \/ watch[b].pc # "off"
       \/ \E a \in after : a.k = "processed" /\ a.b = b

\* A submitted row whose turn in recoverState is over.
Reached(b) ==
    /\ Tidy(b) /\ rows[b].status = "submitted"
    /\ watch[b].pc # "off" \/ (b \in tried /\ rec.b # b)

LanesHeld ==
    /\ \A b, c \in Batches : b # c /\ MarketOf[b] = MarketOf[c] => ~(Engaged(b) /\ Engaged(c))
    /\ \A b \in Batches : sub[b].pc = "load" => rows[b].status = "prepared"
    /\ phase = "up" => /\ \A b \in Batches : Engaged(b) => Held(b)
                       /\ \A a \in after : a.k = "processed" /\ Tidy(a.b) => Held(a.b)
    /\ phase = "recover" =>
         /\ \A b, c \in Batches : MarketOf[b] = MarketOf[c] /\ Resumed(b) /\ Resumed(c) => b = c
         /\ \A b \in Batches : Reached(b) => Held(b)
         /\ \A a \in after : a.k = "processed" /\ a.by # "rec" /\ Tidy(a.b) => Held(a.b)

FailureHeld ==
    phase # "down" =>
        \A b \in Batches : rows[b].status = "failed" =>
            \/ Lane(b).paused
            \/ \E a \in after : a.b = b /\ a.k \in {"failed", "pause"}

\* Every signature some goroutine or the cluster knows of a batch is the stored one or expired.
Known(b, h) ==
    \/ chain[b][h] # "unsent"
    \/ watch[b].pc # "off" /\ watch[b].sig = h
    \/ sub[b].pc \in {"publish", "send", "sendBlank"} /\ sub[b].sig = h
    \/ rec.b = b /\ rec.sig = h
SignaturesKnown ==
    /\ \A b \in Batches, h \in Heights : Known(b, h) => rows[b].sig = h \/ isExpired(h)
    /\ \A b \in Batches : watch[b].pc # "off" => watch[b].sig \in Heights
    /\ \A b \in Batches : sub[b].pc \in {"publish", "send", "sendBlank"} => sub[b].sig \in Heights
    /\ rec.b # NoBatch => rec.sig \in Heights

ConfirmedFinal ==
    \A b \in Batches : rows[b].status = "confirmed" => chain[b][rows[b].sig] = "okFinal"

\* The registry and the stored accounts name only batches that reached the chain.
RegistryTrue == \A b \in registry \cup accounts : Done(b)

FetchedOnce == \A i, j \in ing : i.b = j.b => i = j

\* The order: created_at is bounded, a prepared row has no earlier row that still waits in an
\* active lane, and the one being submitted none at all.
Waits(c) == rows[c].lane = "active" /\ rows[c].status \in {"queued", "prepared", "submitted"}
OrderKept ==
    /\ \E n \in Nat : \A b \in Batches : rows[b].at <= n
    /\ \A b, c \in Batches :
         MarketOf[b] = MarketOf[c] /\ rows[c].at < rows[b].at =>
             /\ rows[b].status = "prepared" => ~(Waits(c) /\ rows[c].status = "queued")
             /\ sub[b].pc = "load" /\ Tidy(b) => ~Waits(c)

SettlementInv ==
    /\ TypeOK /\ RowsShaped /\ TasksBacked /\ DownHoldsNothing /\ LanesHeld /\ FailureHeld
    /\ SignaturesKnown /\ ConfirmedFinal /\ VerdictAgrees /\ RegistryTrue /\ WarmOrdersWereProcessed
    /\ FetchedOnce /\ QueuedWillBePrepared /\ OrderKept

-----------------------------------------------------------------------------
(* Naturals *)

\* A set of naturals has a least element.
LEMMA LeastNatural ==
  ASSUME NEW S \in SUBSET Nat, S # {}
  PROVE  \E n \in S : \A m \in S : n <= m
<1>1. \E n \in S : \A m \in S : ~(<<m, n>> \in OpToRel(<, Nat))
  BY NatLessThanWellFounded, WFMin
<1>2. PICK n \in S : \A m \in S : ~(<<m, n>> \in OpToRel(<, Nat))
  BY <1>1
<1>3. \A m \in S : <<m, n>> \in OpToRel(<, Nat) <=> m < n
  BY DEF OpToRel
<1>4. \A m \in S : ~(m < n)
  BY <1>2, <1>3
<1> QED
  BY <1>4

\* A bounded set of naturals has a greatest element, the one Max names.
LEMMA GreatestNatural ==
  ASSUME NEW S \in SUBSET Nat, S # {}, NEW n \in Nat, \A m \in S : m <= n
  PROVE  Max(S) \in S /\ \A m \in S : m <= Max(S)
<1> DEFINE U == {k \in Nat : \A m \in S : m <= k}
<1>1. PICK k \in U : \A j \in U : k <= j
  BY LeastNatural
<1>2. k \in S
  <2> SUFFICES ASSUME k \notin S PROVE FALSE
    OBVIOUS
  <2>1. PICK m \in S : TRUE
    OBVIOUS
  <2>2. k - 1 \in U
    OBVIOUS
  <2> QED
    BY <1>1, <2>2
<1> QED
  BY <1>1, <1>2 DEF Max

-----------------------------------------------------------------------------
(* Types *)

LaneType  == [paused : BOOLEAN, current : Batches \cup {NoBatch}]
SubType   == [pc : {"off", "load", "publish", "send", "sendBlank"}, sig : 0..MaxHeight]
WatchType == [pc : {"off", "run", "resend", "ending"}, sig : 0..MaxHeight]
RecType   == [b : Batches \cup {NoBatch}, sig : 0..MaxHeight]
TaskType  == [b : Batches, k : {"processed", "failed", "pause", "confirmed"},
              by : {"prepare", "submit", "watch", "rec", "poller"},
              lane : {"release", "pause", "releaseByMatch"}]
EventType == [t : {"confirmed", "failed"}, b : Batches, sig : 0..MaxHeight]
ChainState == {"unsent", "sent", "ok", "err", "okFinal"}
Orders == UNION {OrdersOf[b] : b \in Batches}

\* What TypeOK says of the records, in the form the updates need.
LEMMA Typed ==
  ASSUME TypeOK
  PROVE  /\ rows \in [Batches -> SubmissionRecord] /\ lanes \in [Markets -> LaneType]
         /\ sub \in [Batches -> SubType] /\ watch \in [Batches -> WatchType] /\ rec \in RecType
         /\ after \in SUBSET TaskType /\ published \in SUBSET EventType
         /\ chain \in [Batches -> [Heights -> ChainState]]
         /\ height \in Heights /\ faults \in 0..MaxFaults
         /\ \A b \in Batches : MarketOf[b] \in Markets
         /\ NoBatch \notin Batches
BY SettlementAssumption DEF TypeOK, LaneType, SubType, WatchType, RecType, TaskType, EventType, ChainState

\* And back: the types of the parts are TypeOK.
LEMMA TypedBack ==
  ASSUME size' \in [Batches -> {"fits", "estimated", "wire"}], msgs' \subseteq Batches,
         accounts' \subseteq Batches, phase' \in {"down", "recover", "up"},
         prepDirty' \subseteq Markets, registry' \subseteq Batches,
         ing' \subseteq [b : Batches, lane : {"active", "paused"}],
         rows' \in [Batches -> SubmissionRecord], lanes' \in [Markets -> LaneType],
         sub' \in [Batches -> SubType], watch' \in [Batches -> WatchType], rec' \in RecType,
         after' \in SUBSET TaskType, published' \in SUBSET EventType,
         chain' \in [Batches -> [Heights -> ChainState]], height' \in Heights, faults' \in 0..MaxFaults,
         tried' \subseteq Batches, strayed' \subseteq Markets
  PROVE  TypeOK'
BY DEF TypeOK, LaneType, SubType, WatchType, RecType, TaskType, EventType, ChainState

\* The count of faults stays within its bound.
LEMMA FaultType ==
  ASSUME TypeOK, Fault \/ UNCHANGED faults
  PROVE  faults' \in 0..MaxFaults
BY SettlementAssumption DEF TypeOK, stray, Fault

-----------------------------------------------------------------------------
(* What the updates of a row do *)

Kept(r, s) == r.status = s.status /\ r.lane = s.lane /\ r.sig = s.sig /\ r.at = s.at /\ r.warm = s.warm

\* What each update of a row leaves alone: its status, ...
LEMMA RowStatus ==
  ASSUME NEW r \in SubmissionRecord, NEW x \in Statuses
  PROVE  /\ [r EXCEPT !.status = x] \in SubmissionRecord
         /\ LET s == [r EXCEPT !.status = x]
            IN s.status = x /\ s.lane = r.lane /\ s.sig = r.sig /\ s.at = r.at /\ s.warm = r.warm
<1>1. [r EXCEPT !.status = x] \in SubmissionRecord
  BY DEF SubmissionRecord
<1>2. LET s == [r EXCEPT !.status = x]
      IN s.status = x /\ s.lane = r.lane /\ s.sig = r.sig /\ s.at = r.at /\ s.warm = r.warm
  BY DEF SubmissionRecord
<1> QED
  BY <1>1, <1>2

\* ... the witnesses of a prepared one, ...
LEMMA RowWarm ==
  ASSUME NEW r \in SubmissionRecord, NEW w \in SUBSET Orders
  PROVE  /\ [r EXCEPT !.status = "prepared", !.warm = w] \in SubmissionRecord
         /\ LET s == [r EXCEPT !.status = "prepared", !.warm = w]
            IN s.status = "prepared" /\ s.lane = r.lane /\ s.sig = r.sig /\ s.at = r.at /\ s.warm = w
<1>1. [r EXCEPT !.status = "prepared", !.warm = w] \in SubmissionRecord
  BY DEF SubmissionRecord, Statuses, Orders
<1>2. LET s == [r EXCEPT !.status = "prepared", !.warm = w]
      IN s.status = "prepared" /\ s.lane = r.lane /\ s.sig = r.sig /\ s.at = r.at /\ s.warm = w
  BY DEF SubmissionRecord
<1> QED
  BY <1>1, <1>2

\* ... its signature, ...
LEMMA RowSig ==
  ASSUME NEW r \in SubmissionRecord, NEW g \in 0..MaxHeight
  PROVE  /\ [r EXCEPT !.sig = g] \in SubmissionRecord
         /\ LET s == [r EXCEPT !.sig = g]
            IN s.status = r.status /\ s.lane = r.lane /\ s.sig = g /\ s.at = r.at /\ s.warm = r.warm
         /\ [r EXCEPT !.status = "submitted", !.sig = g] \in SubmissionRecord
         /\ LET s == [r EXCEPT !.status = "submitted", !.sig = g]
            IN s.status = "submitted" /\ s.lane = r.lane /\ s.sig = g /\ s.at = r.at /\ s.warm = r.warm
<1>1. [r EXCEPT !.sig = g] \in SubmissionRecord
  BY DEF SubmissionRecord
<1>2. LET s == [r EXCEPT !.sig = g]
      IN s.status = r.status /\ s.lane = r.lane /\ s.sig = g /\ s.at = r.at /\ s.warm = r.warm
  BY DEF SubmissionRecord
<1>3. [r EXCEPT !.status = "submitted", !.sig = g] \in SubmissionRecord
  BY DEF SubmissionRecord, Statuses
<1>4. LET s == [r EXCEPT !.status = "submitted", !.sig = g]
      IN s.status = "submitted" /\ s.lane = r.lane /\ s.sig = g /\ s.at = r.at /\ s.warm = r.warm
  BY DEF SubmissionRecord
<1> QED
  BY <1>1, <1>2, <1>3, <1>4

\* ... its lane, ...
LEMMA RowPaused ==
  ASSUME NEW r \in SubmissionRecord
  PROVE  /\ [r EXCEPT !.lane = "paused"] \in SubmissionRecord
         /\ LET s == [r EXCEPT !.lane = "paused"]
            IN s.status = r.status /\ s.lane = "paused" /\ s.sig = r.sig /\ s.at = r.at /\ s.warm = r.warm
         /\ [r EXCEPT !.status = "failed", !.lane = "paused"] \in SubmissionRecord
         /\ LET s == [r EXCEPT !.status = "failed", !.lane = "paused"]
            IN s.status = "failed" /\ s.lane = "paused" /\ s.sig = r.sig /\ s.at = r.at /\ s.warm = r.warm
<1>1. [r EXCEPT !.lane = "paused"] \in SubmissionRecord
  BY DEF SubmissionRecord
<1>2. LET s == [r EXCEPT !.lane = "paused"]
      IN s.status = r.status /\ s.lane = "paused" /\ s.sig = r.sig /\ s.at = r.at /\ s.warm = r.warm
  BY DEF SubmissionRecord
<1>3. [r EXCEPT !.status = "failed", !.lane = "paused"] \in SubmissionRecord
  BY DEF SubmissionRecord, Statuses
<1>4. LET s == [r EXCEPT !.status = "failed", !.lane = "paused"]
      IN s.status = "failed" /\ s.lane = "paused" /\ s.sig = r.sig /\ s.at = r.at /\ s.warm = r.warm
  BY DEF SubmissionRecord
<1> QED
  BY <1>1, <1>2, <1>3, <1>4

\* ... and the marks of the published events.
LEMMA RowMarked ==
  ASSUME NEW r \in SubmissionRecord
  PROVE  /\ [r EXCEPT !.subPub = TRUE] \in SubmissionRecord
         /\ [r EXCEPT !.termPub = TRUE] \in SubmissionRecord
         /\ Kept([r EXCEPT !.subPub = TRUE], r) /\ Kept([r EXCEPT !.termPub = TRUE], r)
<1>1. [r EXCEPT !.subPub = TRUE] \in SubmissionRecord /\ [r EXCEPT !.termPub = TRUE] \in SubmissionRecord
  BY DEF SubmissionRecord
<1>2. Kept([r EXCEPT !.subPub = TRUE], r) /\ Kept([r EXCEPT !.termPub = TRUE], r)
  BY DEF SubmissionRecord, Kept
<1> QED
  BY <1>1, <1>2

QueuedRow(n, l) == [NoRow EXCEPT !.status = "queued", !.at = n, !.lane = l]

\* A row as it is stored.
LEMMA RowQueued ==
  ASSUME NEW n \in Nat, NEW l \in {"active", "paused"}, NEW s, s = QueuedRow(n, l)
  PROVE  s \in SubmissionRecord /\ s.status = "queued" /\ s.lane = l /\ s.sig = 0 /\ s.at = n /\ s.warm = {}
<1>1. s \in SubmissionRecord
  <2>1. NoRow \in SubmissionRecord
    <3>1. 0 \in 0..MaxHeight /\ 0 \in Nat /\ {} \in SUBSET UNION {OrdersOf[b] : b \in Batches}
      BY SettlementAssumption
    <3> QED
      BY <3>1 DEF SubmissionRecord, NoRow, Statuses
  <2> HIDE DEF NoRow
  <2> QED
    BY <2>1 DEF SubmissionRecord, Statuses, QueuedRow
<1>2. s.status = "queued" /\ s.lane = l /\ s.sig = 0 /\ s.at = n /\ s.warm = {}
  BY DEF NoRow, QueuedRow
<1> QED
  BY <1>1, <1>2

-----------------------------------------------------------------------------
(* What the statements of submissionRepo do *)

\* The updates of the repository: queued becomes prepared while the lane is active, ...
LEMMA MarkPreparedDoes ==
  ASSUME TypeOK, NEW b \in Batches, NEW w \in SUBSET Orders, rows' = MarkPreparedCAS(b, w)
  PROVE  /\ rows' \in [Batches -> SubmissionRecord]
         /\ \A c \in Batches : c # b => rows'[c] = rows[c]
         /\ \/ rows' = rows
            \/ /\ rows[b].status = "queued" /\ rows[b].lane = "active" /\ rows'[b].status = "prepared"
               /\ rows'[b].lane = rows[b].lane /\ rows'[b].sig = rows[b].sig
               /\ rows'[b].at = rows[b].at /\ rows'[b].warm = w
<1> DEFINE s == [rows[b] EXCEPT !.status = "prepared", !.warm = w]
<1>1. rows \in [Batches -> SubmissionRecord] /\ rows[b] \in SubmissionRecord
  BY Typed
<1>2. /\ s \in SubmissionRecord /\ s.status = "prepared" /\ s.lane = rows[b].lane /\ s.sig = rows[b].sig
      /\ s.at = rows[b].at /\ s.warm = w
  BY <1>1, RowWarm
<1>3. rows' = rows \/ (rows[b].status = "queued" /\ rows[b].lane = "active" /\ rows' = [rows EXCEPT ![b] = s])
  BY DEF MarkPreparedCAS
<1> HIDE DEF s
<1> QED
  BY <1>1, <1>2, <1>3

\* ... prepared becomes submitted with its first signature, ...
LEMMA MarkSubmittedDoes ==
  ASSUME TypeOK, NEW b \in Batches, NEW g \in Heights, rows' = MarkSubmittedCAS(b, g)
  PROVE  /\ rows' \in [Batches -> SubmissionRecord]
         /\ \A c \in Batches : c # b => rows'[c] = rows[c]
         /\ \/ rows' = rows
            \/ /\ rows[b].status = "prepared" /\ rows[b].lane = "active" /\ rows'[b].status = "submitted"
               /\ rows'[b].lane = rows[b].lane /\ rows'[b].sig = g
               /\ rows'[b].at = rows[b].at /\ rows'[b].warm = rows[b].warm
<1> DEFINE s == [rows[b] EXCEPT !.status = "submitted", !.sig = g]
<1>1. rows \in [Batches -> SubmissionRecord] /\ rows[b] \in SubmissionRecord /\ g \in 0..MaxHeight
  BY Typed DEF Heights
<1>2. /\ s \in SubmissionRecord /\ s.status = "submitted" /\ s.lane = rows[b].lane /\ s.sig = g
      /\ s.at = rows[b].at /\ s.warm = rows[b].warm
  BY <1>1, RowSig
<1>3. rows' = rows \/ (rows[b].status = "prepared" /\ rows[b].lane = "active" /\ rows' = [rows EXCEPT ![b] = s])
  BY DEF MarkSubmittedCAS
<1> HIDE DEF s
<1> QED
  BY <1>1, <1>2, <1>3

\* ... a submitted row gets another signature if it still has the one expected, ...
LEMMA ReplaceSignatureDoes ==
  ASSUME TypeOK, NEW b \in Batches, NEW old, NEW g \in Heights, rows' = ReplaceSignatureCAS(b, old, g)
  PROVE  /\ rows' \in [Batches -> SubmissionRecord]
         /\ \A c \in Batches : c # b => rows'[c] = rows[c]
         /\ \/ rows' = rows
            \/ /\ rows[b].status = "submitted" /\ rows[b].sig = old /\ rows'[b].status = "submitted"
               /\ rows'[b].lane = rows[b].lane /\ rows'[b].sig = g
               /\ rows'[b].at = rows[b].at /\ rows'[b].warm = rows[b].warm
<1> DEFINE s == [rows[b] EXCEPT !.sig = g]
<1>1. rows \in [Batches -> SubmissionRecord] /\ rows[b] \in SubmissionRecord /\ g \in 0..MaxHeight
  BY Typed DEF Heights
<1>2. /\ s \in SubmissionRecord /\ s.status = rows[b].status /\ s.lane = rows[b].lane /\ s.sig = g
      /\ s.at = rows[b].at /\ s.warm = rows[b].warm
  BY <1>1, RowSig
<1>3. rows' = rows \/ (rows[b].status = "submitted" /\ rows[b].sig = old /\ rows' = [rows EXCEPT ![b] = s])
  BY DEF ReplaceSignatureCAS
<1> HIDE DEF s
<1> QED
  BY <1>1, <1>2, <1>3

\* The statements that only move a row's status.
LEMMA SetStatusDoes ==
  ASSUME TypeOK, NEW b \in Batches, NEW x \in Statuses, rows' = [rows EXCEPT ![b].status = x]
  PROVE  /\ rows' \in [Batches -> SubmissionRecord]
         /\ \A c \in Batches : c # b => rows'[c] = rows[c]
         /\ rows'[b].status = x /\ rows'[b].lane = rows[b].lane /\ rows'[b].sig = rows[b].sig
         /\ rows'[b].at = rows[b].at /\ rows'[b].warm = rows[b].warm
<1> DEFINE s == [rows[b] EXCEPT !.status = x]
<1>1. rows \in [Batches -> SubmissionRecord] /\ rows[b] \in SubmissionRecord
  BY Typed
<1>2. /\ s \in SubmissionRecord /\ s.status = x /\ s.lane = rows[b].lane /\ s.sig = rows[b].sig
      /\ s.at = rows[b].at /\ s.warm = rows[b].warm
  BY <1>1, RowStatus
<1>3. rows' = [rows EXCEPT ![b] = s]
  OBVIOUS
<1> HIDE DEF s
<1> QED
  BY <1>1, <1>2, <1>3

\* ... an event is marked as published, ...
LEMMA MarkPublishedDoes ==
  ASSUME TypeOK, NEW b \in Batches,
         rows' = MarkSubmittedEventPublished(b) \/ rows' = MarkTerminalEventPublished(b)
  PROVE  /\ rows' \in [Batches -> SubmissionRecord]
         /\ \A c \in Batches : Kept(rows'[c], rows[c])
<1> DEFINE s == [rows[b] EXCEPT !.subPub = TRUE]
           t == [rows[b] EXCEPT !.termPub = TRUE]
<1>1. rows \in [Batches -> SubmissionRecord] /\ rows[b] \in SubmissionRecord
  BY Typed
<1>2. s \in SubmissionRecord /\ Kept(s, rows[b]) /\ t \in SubmissionRecord /\ Kept(t, rows[b])
  BY <1>1, RowMarked
<1>3. rows' = [rows EXCEPT ![b] = s] \/ rows' = [rows EXCEPT ![b] = t]
  BY DEF MarkSubmittedEventPublished, MarkTerminalEventPublished
<1> HIDE DEF s, t
<1>4. \A c \in Batches : rows'[c] = rows[c] \/ (c = b /\ Kept(rows'[c], rows[c]))
  BY <1>1, <1>2, <1>3
<1> QED
  BY <1>1, <1>2, <1>3, <1>4 DEF Kept

\* ... a row fails and the rows behind it are paused, ...
LEMMA FailAndPauseDoes ==
  ASSUME TypeOK, NEW b \in Batches, rows' = FailAndPause(b)
  PROVE  /\ rows' \in [Batches -> SubmissionRecord]
         /\ \A c \in Batches :
              /\ rows'[c].sig = rows[c].sig /\ rows'[c].at = rows[c].at /\ rows'[c].warm = rows[c].warm
              /\ c # b => rows'[c].status = rows[c].status
              /\ c # b /\ MarketOf[c] = MarketOf[b] /\ rows[c].status \in {"queued", "prepared"}
                    => rows'[c].lane = "paused"
              /\ c # b /\ ~(MarketOf[c] = MarketOf[b] /\ rows[c].status \in {"queued", "prepared"})
                    => rows'[c].lane = rows[c].lane
         /\ rows'[b].status = "failed" /\ rows'[b].lane = "paused"
<1> DEFINE f(c) == [rows[c] EXCEPT !.status = "failed", !.lane = "paused"]
           p(c) == [rows[c] EXCEPT !.lane = "paused"]
<1>1. rows \in [Batches -> SubmissionRecord]
  BY Typed
<1>2. \A c \in Batches :
         /\ f(c) \in SubmissionRecord /\ p(c) \in SubmissionRecord
         /\ f(c).status = "failed" /\ f(c).lane = "paused" /\ f(c).sig = rows[c].sig
         /\ f(c).at = rows[c].at /\ f(c).warm = rows[c].warm
         /\ p(c).status = rows[c].status /\ p(c).lane = "paused" /\ p(c).sig = rows[c].sig
         /\ p(c).at = rows[c].at /\ p(c).warm = rows[c].warm
  <2> SUFFICES ASSUME NEW c \in Batches PROVE
         /\ f(c) \in SubmissionRecord /\ p(c) \in SubmissionRecord
         /\ f(c).status = "failed" /\ f(c).lane = "paused" /\ f(c).sig = rows[c].sig
         /\ f(c).at = rows[c].at /\ f(c).warm = rows[c].warm
         /\ p(c).status = rows[c].status /\ p(c).lane = "paused" /\ p(c).sig = rows[c].sig
         /\ p(c).at = rows[c].at /\ p(c).warm = rows[c].warm
    OBVIOUS
  <2>1. rows[c] \in SubmissionRecord
    BY <1>1
  <2> QED
    BY <2>1, RowPaused
<1>3. rows' = [c \in Batches |->
       IF c = b THEN f(b)
       ELSE IF MarketOf[c] = MarketOf[b] /\ rows[c].status \in {"queued", "prepared"}
            THEN p(c) ELSE rows[c]]
  BY DEF FailAndPause
<1> HIDE DEF f, p
<1> QED
  BY <1>1, <1>2, <1>3

\* ... and what was fetched is stored behind everything that is there.
LEMMA UpsertDoes ==
  ASSUME TypeOK, OrderKept, FetchedOnce, rows' = UpsertQueuedBatch(ing)
  PROVE  /\ rows' \in [Batches -> SubmissionRecord]
         /\ \A c \in Batches :
              \/ rows'[c] = rows[c]
              \/ /\ rows[c].status = "absent" /\ rows'[c].status = "queued" /\ rows'[c].sig = 0
                 /\ rows'[c].warm = {} /\ \A d \in Batches : rows'[c].at > rows[d].at
                 /\ \E i \in ing : i.b = c /\ rows'[c].lane = i.lane
         /\ \E n \in Nat : \A c \in Batches : rows'[c].at <= n
<1> DEFINE S == {rows[b].at : b \in Batches}
           last == Max(S)
           l(c) == (CHOOSE i \in ing : i.b = c).lane
           q(c) == [NoRow EXCEPT !.status = "queued", !.at = last + 1, !.lane = l(c)]
<1>1. rows \in [Batches -> SubmissionRecord] /\ \A c \in Batches : rows[c].at \in Nat
  BY Typed DEF SubmissionRecord
<1>2. CASE Batches = {}
  BY <1>1, <1>2 DEF UpsertQueuedBatch
<1>3. CASE Batches # {}
  <2>1. S \in SUBSET Nat /\ S # {}
    BY <1>1, <1>3
  <2>2. PICK n \in Nat : \A b \in Batches : rows[b].at <= n
    BY DEF OrderKept
  <2>3. \A m \in S : m <= n
    BY <2>2
  <2>4. last \in S /\ \A m \in S : m <= last
    BY <2>1, <2>2, <2>3, GreatestNatural
  <2>5. last \in Nat /\ \A b \in Batches : rows[b].at <= last
    BY <2>1, <2>4
  <2>8. rows' = [c \in Batches |->
          IF rows[c].status = "absent" /\ \E i \in ing : i.b = c THEN q(c) ELSE rows[c]]
    BY Zenon DEF UpsertQueuedBatch
  <2> HIDE DEF last
  <2>6. ASSUME NEW c \in Batches, NEW i \in ing, i.b = c
        PROVE  l(c) = i.lane /\ l(c) \in {"active", "paused"}
    <3>1. (CHOOSE j \in ing : j.b = c) \in ing /\ (CHOOSE j \in ing : j.b = c).b = c
      BY <2>6
    <3>2. (CHOOSE j \in ing : j.b = c) = i
      BY <2>6, <3>1 DEF FetchedOnce
    <3> QED
      BY <3>2 DEF TypeOK, stray
  <2> HIDE DEF l
  <2>7. ASSUME NEW c \in Batches, NEW i \in ing, i.b = c
        PROVE  /\ q(c) \in SubmissionRecord /\ q(c).status = "queued" /\ q(c).lane = i.lane
               /\ q(c).sig = 0 /\ q(c).at = last + 1 /\ q(c).warm = {}
    <3>1. last + 1 \in Nat
      BY <2>5
    <3>2. l(c) = i.lane /\ l(c) \in {"active", "paused"}
      BY <2>6, <2>7
    <3>3. q(c) = QueuedRow(last + 1, l(c))
      BY Zenon DEF QueuedRow
    <3> HIDE DEF q
    <3> QED
      BY <3>1, <3>2, <3>3, RowQueued
  <2> HIDE DEF q
  <2>9. \A c \in Batches : \/ rows'[c] = rows[c]
                           \/ /\ rows[c].status = "absent" /\ rows'[c].status = "queued"
                              /\ rows'[c].sig = 0 /\ rows'[c].warm = {} /\ rows'[c].at = last + 1
                              /\ rows'[c] \in SubmissionRecord
                              /\ \E i \in ing : i.b = c /\ rows'[c].lane = i.lane
    BY <2>7, <2>8
  <2>10. rows' \in [Batches -> SubmissionRecord]
    BY <1>1, <2>8, <2>9
  <2>11. \A c \in Batches : rows'[c].at <= last + 1
    BY <1>1, <2>5, <2>9
  <2> QED
    BY <1>1, <2>5, <2>9, <2>10, <2>11
<1> QED
  BY <1>2, <1>3

-----------------------------------------------------------------------------
(* The life of a row: what one step can do to it *)

RowKept(b) == Kept(rows'[b], rows[b])
Moved(b)   == rows'[b].lane = rows[b].lane /\ rows'[b].at = rows[b].at /\ rows'[b].warm = rows[b].warm

Inserted(b) ==
    /\ rows[b].status = "absent" /\ rows'[b].status = "queued" /\ rows'[b].sig = 0 /\ rows'[b].warm = {}
    /\ \A d \in Batches : rows'[b].at > rows[d].at
    /\ rows'[b].lane = "active" => MarketOf[b] \in prepDirty'
Prepared(b) ==
    /\ b \in LoadNextQueuedByMarket(MarketOf[b]) /\ rows'[b].status = "prepared"
    /\ rows'[b].lane = rows[b].lane /\ rows'[b].sig = rows[b].sig /\ rows'[b].at = rows[b].at
    /\ rows'[b].warm = WarmOrders(b)
Submitted(b) ==
    /\ sub[b].pc = "load" /\ rows[b].status = "prepared" /\ rows[b].lane = "active"
    /\ rows'[b].status = "submitted" /\ rows'[b].sig = height /\ Moved(b)
Processed(b) ==
    /\ rows[b].status = "submitted" /\ rows'[b].status = "processed"
    /\ rows'[b].sig = rows[b].sig /\ Moved(b)
Confirmed(b) ==
    /\ rows[b].status = "processed" /\ rows'[b].status = "confirmed"
    /\ rows'[b].sig = rows[b].sig /\ Moved(b) /\ chain'[b][rows[b].sig] = "okFinal"
Resigned(b) ==
    /\ rows[b].status = "submitted" /\ isExpired(rows[b].sig)
    /\ rows'[b].status = "submitted" /\ rows'[b].sig = height /\ Moved(b)
FailedRow(b) ==
    /\ rows[b].status \in {"queued", "prepared", "submitted", "processed"}
    /\ rows'[b].status = "failed" /\ rows'[b].lane = "paused"
    /\ rows'[b].sig = rows[b].sig /\ rows'[b].at = rows[b].at /\ rows'[b].warm = rows[b].warm
PausedRow(b) ==
    /\ rows[b].status \in {"queued", "prepared"} /\ rows'[b].status = rows[b].status
    /\ rows'[b].lane = "paused"
    /\ rows'[b].sig = rows[b].sig /\ rows'[b].at = rows[b].at /\ rows'[b].warm = rows[b].warm

RowStep(b) ==
    \/ RowKept(b) \/ Inserted(b) \/ Prepared(b) \/ Submitted(b) \/ Processed(b) \/ Confirmed(b)
    \/ Resigned(b) \/ FailedRow(b) \/ PausedRow(b)

RowsStep == rows' \in [Batches -> SubmissionRecord] /\ \A b \in Batches : RowStep(b)

\* What one step can do to the work that is left.
TasksStep ==
    /\ after' \in SUBSET TaskType
    /\ \A a \in after' :
         \/ a \in after
         \/ a.k = "processed" /\ Processed(a.b)
         \/ a.k = "failed" /\ FailedRow(a.b)
         \/ a.k = "pause" /\ \E c \in after : c.k = "failed" /\ c.b = a.b
         \/ a.k = "confirmed" /\ Confirmed(a.b)
    /\ \A a, c \in after' : a \notin after /\ c \notin after => a = c

\* What one step can do to the cluster's record of a signature.
ChainStep ==
    /\ chain' \in [Batches -> [Heights -> ChainState]]
    /\ \A b \in Batches, h \in Heights :
         /\ chain[b][h] = "okFinal" => chain'[b][h] = "okFinal"
         /\ chain[b][h] = "unsent" /\ chain'[b][h] # "unsent" => Known(b, h)

\* The fields of a row.
LEMMA RowTypes ==
  ASSUME TypeOK, NEW b \in Batches
  PROVE  /\ rows[b].status \in Statuses /\ rows[b].lane \in {"active", "paused"}
         /\ rows[b].sig \in 0..MaxHeight /\ rows[b].at \in Nat /\ rows[b].warm \in SUBSET Orders
BY Typed DEF SubmissionRecord, Orders

\* A step that leaves the rows alone, or takes tasks away, is a step of the kind described.
LEMMA SameRowsStep ==
  ASSUME TypeOK, rows' = rows
  PROVE  RowsStep
BY Typed DEF RowsStep, RowStep, RowKept, Kept

\* The same for the tasks.
LEMMA SameTasksStep ==
  ASSUME TypeOK, after' \subseteq after
  PROVE  TasksStep
BY Typed DEF TasksStep

\* Each part of the invariant from the kinds of step that can disturb it.
LEMMA RowsShapedKept ==
  ASSUME SettlementInv, RowsStep
  PROVE  RowsShaped'
<1> SUFFICES ASSUME NEW b \in Batches
             PROVE  /\ rows'[b].status \in {"absent", "queued", "prepared"} => rows'[b].sig = 0
                    /\ rows'[b].status \in {"submitted", "processed", "confirmed"} => rows'[b].sig \in Heights
                    /\ rows'[b].status = "failed" => rows'[b].lane = "paused"
                    /\ rows'[b].status = "absent" => rows'[b].warm = {} /\ rows'[b].lane = "active"
  BY DEF RowsShaped, Heights
<1>1. height \in Heights
  BY Typed DEF SettlementInv
<1>2. RowStep(b)
  BY DEF RowsStep
<1>3. b \in LoadNextQueuedByMarket(MarketOf[b]) => rows[b].status = "queued"
  BY DEF LoadNextQueuedByMarket, FirstActive
<1> QED
  BY <1>1, <1>2, <1>3 DEF RowStep, RowKept, Kept, Inserted, Prepared, Submitted, Processed, Confirmed,
     Resigned, FailedRow, PausedRow, Moved, SettlementInv, RowsShaped

\* A batch that reached the chain stays one, and a verdict stays the row's.
LEMMA DoneKept ==
  ASSUME SettlementInv, RowsStep, NEW b \in Batches
  PROVE  /\ Done(b) => Done(b)'
         /\ rows[b].status \in {"confirmed", "failed"} => rows'[b].status = rows[b].status /\ rows'[b].sig = rows[b].sig
         /\ Processed(b) => Done(b)'
<1>2. RowStep(b)
  BY DEF RowsStep
<1>3. b \in LoadNextQueuedByMarket(MarketOf[b]) => rows[b].status = "queued"
  BY DEF LoadNextQueuedByMarket, FirstActive
<1>4. rows[b].status = "submitted" => rows[b].sig # 0
  BY SettlementAssumption DEF SettlementInv, RowsShaped, Heights
<1> QED
  BY <1>2, <1>3, <1>4 DEF RowStep, RowKept, Kept, Inserted, Prepared, Submitted, Processed, Confirmed,
     Resigned, FailedRow, PausedRow, Moved, Done

\* A row a task relies on does not move away from under it.
LEMMA TasksBackedKept ==
  ASSUME SettlementInv, RowsStep, TasksStep
  PROVE  TasksBacked'
<1>1. ASSUME NEW a \in after'
      PROVE  /\ a.k = "processed" => Done(a.b)'
             /\ a.k \in {"failed", "pause"} => rows'[a.b].status = "failed"
             /\ a.k = "confirmed" => rows'[a.b].status = "confirmed"
  <2>1. a.b \in Batches
    BY DEF TasksStep, TaskType
  <2>2. CASE a \in after
    BY <2>1, <2>2, DoneKept DEF SettlementInv, TasksBacked
  <2>3. CASE a.k = "processed" /\ Processed(a.b)
    BY <2>1, <2>3, DoneKept
  <2>4. CASE a.k = "failed" /\ FailedRow(a.b)
    BY <2>4 DEF FailedRow
  <2>5. CASE a.k = "pause" /\ \E c \in after : c.k = "failed" /\ c.b = a.b
    BY <2>1, <2>5, DoneKept DEF SettlementInv, TasksBacked
  <2>6. CASE a.k = "confirmed" /\ Confirmed(a.b)
    BY <2>6 DEF Confirmed
  <2> QED
    BY <2>2, <2>3, <2>4, <2>5, <2>6 DEF TasksStep
<1>2. ASSUME NEW a \in after', NEW c \in after', a.k = "processed", c.k = "processed", a.b = c.b
      PROVE  a = c
  <2>1. CASE a \in after /\ c \in after
    BY <1>2, <2>1 DEF SettlementInv, TasksBacked
  <2>2. CASE a \notin after /\ c \notin after
    BY <2>2 DEF TasksStep
  <2>3. ASSUME NEW x \in after, NEW y \in after', y \notin after, x.k = "processed", y.k = "processed", x.b = y.b
        PROVE  FALSE
    <3>1. Processed(y.b)
      BY <2>3 DEF TasksStep
    <3>2. Done(x.b)
      BY <2>3 DEF SettlementInv, TasksBacked
    <3> QED
      BY <2>3, <3>1, <3>2 DEF Processed, Done
  <2> QED
    BY <1>2, <2>1, <2>2, <2>3
<1> QED
  BY <1>1, <1>2 DEF TasksBacked, Done

\* A final transaction stays final, and a row is confirmed on a final one only.
LEMMA ConfirmedFinalKept ==
  ASSUME SettlementInv, RowsStep, ChainStep
  PROVE  ConfirmedFinal'
<1> SUFFICES ASSUME NEW b \in Batches, rows'[b].status = "confirmed"
             PROVE  chain'[b][rows'[b].sig] = "okFinal"
  BY DEF ConfirmedFinal
<1>1. CASE rows[b].status = "confirmed"
  <2>1. rows'[b].sig = rows[b].sig /\ rows[b].sig \in Heights
    BY <1>1, DoneKept DEF SettlementInv, RowsShaped
  <2> QED
    BY <1>1, <2>1 DEF SettlementInv, ConfirmedFinal, ChainStep
<1>2. CASE rows[b].status # "confirmed"
  <2>1. Confirmed(b)
    BY <1>2 DEF RowsStep, RowStep, RowKept, Kept, Inserted, Prepared, Submitted, Processed, Confirmed,
       Resigned, FailedRow, PausedRow, Moved
  <2> QED
    BY <2>1 DEF Confirmed
<1> QED
  BY <1>1, <1>2

\* What is published is the verdict of the row, and the verdict stays.
LEMMA VerdictAgreesKept ==
  ASSUME SettlementInv, RowsStep, ChainStep,
         \A e \in published' : e \in published \/ \E b \in Batches : e = Event(rows[b].status, b)
                                                   /\ rows[b].status \in {"confirmed", "failed"}
  PROVE  VerdictAgrees'
<1> SUFFICES ASSUME NEW e \in published'
             PROVE  /\ e.t = "confirmed" => /\ rows'[e.b].status = "confirmed" /\ rows'[e.b].sig = e.sig
                                            /\ chain'[e.b][e.sig] = "okFinal"
                    /\ e.t = "failed" => rows'[e.b].status = "failed" /\ rows'[e.b].sig = e.sig
  BY DEF VerdictAgrees
<1>1. /\ e.b \in Batches
      /\ e.t = "confirmed" => rows[e.b].status = "confirmed" /\ rows[e.b].sig = e.sig
      /\ e.t = "failed" => rows[e.b].status = "failed" /\ rows[e.b].sig = e.sig
  <2>1. CASE e \in published
    BY <2>1, Typed DEF SettlementInv, VerdictAgrees, EventType
  <2>2. CASE \E b \in Batches : e = Event(rows[b].status, b)
    BY <2>2 DEF Event
  <2> QED
    BY <2>1, <2>2
<1>2. /\ e.t = "confirmed" => rows'[e.b].status = "confirmed" /\ rows'[e.b].sig = e.sig
      /\ e.t = "failed" => rows'[e.b].status = "failed" /\ rows'[e.b].sig = e.sig
  BY <1>1, DoneKept
<1> QED
  BY <1>1, <1>2, ConfirmedFinalKept DEF ConfirmedFinal

\* The registry learns of batches that reached the chain only.
LEMMA RegistryKept ==
  ASSUME SettlementInv, RowsStep, registry' \cup accounts' \subseteq Batches,
         \A b \in registry' \cup accounts' : b \in registry \cup accounts \/ Done(b)
  PROVE  RegistryTrue'
<1>1. ASSUME NEW b \in registry' \cup accounts'
      PROVE  Done(b)'
  BY DoneKept DEF SettlementInv, RegistryTrue
<1> QED
  BY <1>1 DEF RegistryTrue, Done

\* The batch a warm order was taken from stays done.
LEMMA WarmKept ==
  ASSUME SettlementInv, RowsStep
  PROVE  WarmOrdersWereProcessed'
<1> SUFFICES ASSUME NEW b \in Batches, NEW o \in rows'[b].warm
             PROVE  \E c \in Batches \ {b} : o \in OrdersOf[c] /\ Done(c)'
  BY DEF WarmOrdersWereProcessed, Done
<1>1. \E c \in Batches \ {b} : o \in OrdersOf[c] /\ Done(c)
  <2>1. CASE o \in rows[b].warm
    BY <2>1 DEF SettlementInv, WarmOrdersWereProcessed, Done
  <2>2. CASE o \notin rows[b].warm
    <3>1. Prepared(b)
      BY <2>2 DEF RowsStep, RowStep, RowKept, Kept, Inserted, Prepared, Submitted, Processed, Confirmed,
         Resigned, FailedRow, PausedRow, Moved
    <3>2. rows[b].status = "queued"
      BY <3>1 DEF Prepared, LoadNextQueuedByMarket, FirstActive
    <3>3. PICK c \in registry : o \in OrdersOf[c]
      BY <3>1 DEF Prepared, WarmOrders
    <3>4. c \in Batches /\ Done(c)
      BY DEF SettlementInv, TypeOK, RegistryTrue
    <3> QED
      BY <3>2, <3>3, <3>4 DEF Done
  <2> QED
    BY <2>1, <2>2
<1> QED
  BY <1>1, DoneKept

\* A claim: tryScheduleMarket takes a free lane for the oldest prepared row.
Claimed(b) ==
    /\ phase = "up" /\ b \in LoadNextPreparedByMarket(MarketOf[b])
    /\ ~Lane(b).paused /\ Lane(b).current = NoBatch
    /\ rows' = rows

LoadStep == \A b \in Batches : sub'[b].pc = "load" => sub[b].pc = "load" \/ Claimed(b)

\* Rows are stored at the end, prepared and submitted from the front.
LEMMA OrderKeptKept ==
  ASSUME SettlementInv, RowsStep, LoadStep, \E n \in Nat : \A b \in Batches : rows'[b].at <= n,
         strayed \subseteq strayed'
  PROVE  OrderKept'
<1> USE DEF SettlementInv
<1>1. ASSUME NEW b \in Batches, NEW c \in Batches, MarketOf[b] = MarketOf[c], rows'[c].at < rows'[b].at,
             rows[b].status = "prepared"
      PROVE  rows'[b].at = rows[b].at /\ rows'[c].at = rows[c].at /\ (Waits(c)' => Waits(c))
             /\ (rows'[c].status = "queued" => rows[c].status = "queued")
  <2>1. rows'[b].at = rows[b].at
    BY <1>1 DEF RowsStep, RowStep, RowKept, Kept, Inserted, Prepared, Submitted, Processed, Confirmed,
       Resigned, FailedRow, PausedRow, Moved
  <2>2. ~Inserted(c)
    <3>1. rows[b].at \in Nat /\ rows'[c].at \in Nat
      BY RowTypes DEF RowsStep, SubmissionRecord
    <3> QED
      BY <1>1, <2>1, <3>1 DEF Inserted
  <2>3. c \in LoadNextQueuedByMarket(MarketOf[c]) => rows[c].status = "queued" /\ rows[c].lane = "active"
    BY DEF LoadNextQueuedByMarket, FirstActive
  <2> QED
    BY <2>1, <2>2, <2>3 DEF RowsStep, RowStep, RowKept, Kept, Prepared, Submitted, Processed, Confirmed,
       Resigned, FailedRow, PausedRow, Moved, Waits
<1>2. ASSUME NEW b \in Batches, NEW c \in Batches, MarketOf[b] = MarketOf[c], rows'[c].at < rows'[b].at,
             rows'[b].status = "prepared", Waits(c)', rows'[c].status = "queued"
      PROVE  FALSE
  <2>1. CASE rows[b].status = "prepared"
    BY <1>1, <1>2, <2>1 DEF OrderKept
  <2>2. CASE rows[b].status # "prepared"
    <3>1. Prepared(b)
      BY <1>2, <2>2 DEF RowsStep, RowStep, RowKept, Kept, Inserted, Prepared, Submitted, Processed, Confirmed,
         Resigned, FailedRow, PausedRow, Moved
    <3>2. rows[b].status = "queued" /\ rows'[b].at = rows[b].at
      BY <3>1 DEF Prepared, LoadNextQueuedByMarket, FirstActive
    <3>3. rows[b].at \in Nat /\ rows'[c].at \in Nat /\ rows[c].at \in Nat
      BY RowTypes DEF RowsStep, SubmissionRecord
    <3>4. ~Inserted(c)
      BY <1>2, <3>2, <3>3 DEF Inserted
    <3>5. rows[c].status = "queued" /\ rows[c].lane = "active" /\ rows'[c].at = rows[c].at
      BY <1>2, <3>4 DEF RowsStep, RowStep, RowKept, Kept, Prepared, Submitted, Processed, Confirmed,
         Resigned, FailedRow, PausedRow, Moved, Waits
    <3>6. rows[b].at <= rows[c].at
      BY <1>2, <3>1, <3>5 DEF Prepared, LoadNextQueuedByMarket, FirstActive
    <3> QED
      BY <1>2, <3>2, <3>3, <3>5, <3>6
  <2> QED
    BY <2>1, <2>2
<1>3. ASSUME NEW b \in Batches, NEW c \in Batches, MarketOf[b] = MarketOf[c], rows'[c].at < rows'[b].at,
             sub'[b].pc = "load", Tidy(b)', Waits(c)'
      PROVE  FALSE
  <2> Tidy(b) /\ Tidy(c)
    BY <1>3 DEF Tidy
  <2>1. CASE sub[b].pc = "load"
    BY <1>1, <1>3, <2>1 DEF OrderKept, LanesHeld
  <2>2. CASE Claimed(b)
    <3>1. rows[b].status = "prepared" /\ rows'[b] = rows[b] /\ rows'[c] = rows[c]
      BY <2>2 DEF Claimed, LoadNextPreparedByMarket, FirstActive
    <3>2. Waits(c)
      BY <1>3, <3>1 DEF Waits
    <3>3. rows[c].status # "queued"
      BY <1>3, <3>1, <3>2 DEF OrderKept
    <3>4. rows[c].status # "prepared"
      <4>1. rows[b].at \in Nat /\ rows[c].at \in Nat
        BY RowTypes
      <4> QED
        BY <1>3, <2>2, <3>1, <3>2, <4>1 DEF Claimed, LoadNextPreparedByMarket, FirstActive, Waits
    <3>5. rows[c].status # "submitted"
      BY <1>3, <2>2, SettlementAssumption DEF Claimed, LanesHeld, Engaged, Held, Lane
    <3> QED
      BY <3>2, <3>3, <3>4, <3>5 DEF Waits
  <2> QED
    BY <1>3, <2>1, <2>2 DEF LoadStep
<1> QED
  BY <1>2, <1>3 DEF OrderKept

-----------------------------------------------------------------------------
(* Signatures *)

\* A signature a goroutine holds after a step was known before it or is the row's.
Sourced(b, g) == g \in Heights /\ (Known(b, g) \/ rows'[b].sig = g)
WatchStep == \A b \in Batches : watch'[b].pc # "off" => Sourced(b, watch'[b].sig)
SubStep == \A b \in Batches : sub'[b].pc \in {"publish", "send", "sendBlank"} => Sourced(b, sub'[b].sig)
RecStep == rec'.b # NoBatch => Sourced(rec'.b, rec'.sig)

\* Nothing that does not move is a step of its kind.
LEMMA SameStep ==
  ASSUME SettlementInv
  PROVE  /\ watch' = watch => WatchStep
         /\ sub' = sub => SubStep /\ LoadStep
         /\ rec' = rec => RecStep
         /\ chain' = chain => ChainStep
BY Typed DEF SettlementInv, SignaturesKnown, WatchStep, SubStep, RecStep, ChainStep, Sourced, Known, LoadStep

\* A new signature is made when the old one has expired, so all the known ones are stored or expired.
LEMMA SignaturesKept ==
  ASSUME SettlementInv, TypeOK', RowsStep, ChainStep, WatchStep, SubStep, RecStep, height' >= height
  PROVE  SignaturesKnown'
<1>1. ASSUME NEW b \in Batches, NEW h \in Heights, Known(b, h)'
      PROVE  rows'[b].sig = h \/ isExpired(h)'
  <2>1. Known(b, h) \/ rows'[b].sig = h
    <3>1. rec'.b = b => rec'.b # NoBatch
      BY SettlementAssumption
    <3> QED
      BY <1>1, <3>1 DEF Known, ChainStep, WatchStep, SubStep, RecStep, Sourced
  <2>2. h \in Nat /\ h # 0 /\ height \in Nat /\ height' \in Nat /\ Valid \in Nat
    BY Typed, SettlementAssumption DEF Heights, SettlementInv, TypeOK
  <2>3. isExpired(h) => isExpired(h)'
    BY <2>2 DEF isExpired
  <2>4. rows[b].sig = h => rows'[b].sig = h \/ isExpired(h)
    <3>1. rows[b].sig = h => rows[b].status \notin {"absent", "queued", "prepared"}
      BY <2>2 DEF SettlementInv, RowsShaped
    <3>2. b \in LoadNextQueuedByMarket(MarketOf[b]) => rows[b].status = "queued"
      BY DEF LoadNextQueuedByMarket, FirstActive
    <3>3. RowStep(b)
      BY DEF RowsStep
    <3> QED
      BY <3>1, <3>2, <3>3 DEF RowStep, RowKept, Kept, Inserted, Prepared, Submitted, Processed, Confirmed,
         Resigned, FailedRow, PausedRow, Moved
  <2> QED
    BY <2>1, <2>3, <2>4 DEF SettlementInv, SignaturesKnown
<1>2. /\ \A b \in Batches : watch'[b].pc # "off" => watch'[b].sig \in Heights
      /\ \A b \in Batches : sub'[b].pc \in {"publish", "send", "sendBlank"} => sub'[b].sig \in Heights
      /\ rec'.b # NoBatch => rec'.sig \in Heights
  BY DEF WatchStep, SubStep, RecStep, Sourced
<1> QED
  BY <1>1, <1>2 DEF SignaturesKnown

-----------------------------------------------------------------------------
(* The prepare worker's list *)

\* A queued row of an active lane keeps its market on the list.
LEMMA QueuedKept ==
  ASSUME SettlementInv, RowsStep, phase' = "up" => phase = "up", prepDirty \subseteq prepDirty'
  PROVE  QueuedWillBePrepared'
<1> SUFFICES ASSUME phase = "up", NEW b \in Batches, rows'[b].status = "queued", rows'[b].lane = "active"
             PROVE  MarketOf[b] \in prepDirty'
  BY DEF QueuedWillBePrepared
<1>1. Inserted(b) \/ (rows[b].status = "queued" /\ rows[b].lane = "active")
  BY DEF RowsStep, RowStep, RowKept, Kept, Inserted, Prepared, Submitted, Processed, Confirmed,
     Resigned, FailedRow, PausedRow, Moved
<1> QED
  BY <1>1 DEF SettlementInv, QueuedWillBePrepared, Inserted

-----------------------------------------------------------------------------
(* What every step keeps, whatever it does to the lanes *)

EventsStep ==
    \A e \in published' :
        \/ e \in published
        \/ \E b \in Batches : e = Event(rows[b].status, b) /\ rows[b].status \in {"confirmed", "failed"}
RegistryStep ==
    \A b \in registry' \cup accounts' : b \in registry \cup accounts \/ Done(b)

DataStep ==
    /\ RowsStep /\ TasksStep /\ ChainStep /\ EventsStep /\ RegistryStep
    /\ \E n \in Nat : \A b \in Batches : rows'[b].at <= n
    /\ WatchStep /\ SubStep /\ LoadStep /\ RecStep /\ height' >= height
    /\ FetchedOnce' /\ QueuedWillBePrepared' /\ strayed \subseteq strayed'

DataInv == /\ RowsShaped /\ TasksBacked /\ SignaturesKnown /\ ConfirmedFinal /\ VerdictAgrees
           /\ RegistryTrue /\ WarmOrdersWereProcessed /\ FetchedOnce /\ QueuedWillBePrepared /\ OrderKept

\* The parts that are not about lanes, together.
LEMMA DataKept ==
  ASSUME SettlementInv, TypeOK', DataStep
  PROVE  DataInv'
<1>1. registry' \cup accounts' \subseteq Batches
  BY DEF TypeOK, stray
<1> QED
  BY <1>1, RowsShapedKept, TasksBackedKept, SignaturesKept, ConfirmedFinalKept, VerdictAgreesKept,
     RegistryKept, WarmKept, OrderKeptKept DEF DataStep, EventsStep, RegistryStep, DataInv

-----------------------------------------------------------------------------
(* Steps that leave the lanes alone *)

\* recoverState is through with no further submitted row of a market that stays tidy.
LoopStep ==
    /\ strayed \subseteq strayed'
    /\ \A b \in Batches : Reached(b)' => Reached(b) \/ watch'[b].pc # "off" \/ rows[b].status # "submitted"

\* It moves only in the reconciler's steps.
LEMMA SameLoop ==
  ASSUME UNCHANGED stray, rec' = rec
  PROVE  LoopStep
BY DEF LoopStep, Reached, Tidy, stray

LanesSame ==
    /\ lanes' = lanes /\ phase' = phase /\ LoopStep
    /\ \A b \in Batches : sub'[b].pc = "load" => sub[b].pc = "load" /\ rows'[b].status = "prepared"
    /\ \A b \in Batches : watch'[b].pc # "off" => watch[b].pc # "off" \/ sub[b].pc # "off"
    /\ rec'.b \in Batches => rec'.b = rec.b \/ rows[rec'.b].status = "submitted"
    /\ rec'.b = NoBatch => rec' = rec \/ rec' = NoTask
    /\ \A a \in after' : a \notin after /\ a.k = "processed" /\ a.by # "rec" => watch[a.b].pc # "off"

\* A row is submitted by the submitMatch that holds its lane.
LEMMA EngagedKept ==
  ASSUME SettlementInv, RowsStep, NEW b \in Batches
  PROVE  rows'[b].status = "submitted" => rows[b].status = "submitted" \/ sub[b].pc = "load"
BY DEF RowsStep, RowStep, RowKept, Kept, Inserted, Prepared, Submitted, Processed, Confirmed,
   Resigned, FailedRow, PausedRow, Moved

\* A step that leaves the lanes alone keeps them held.
LEMMA LanesKept ==
  ASSUME SettlementInv, TypeOK', RowsStep, TasksStep, LanesSame
  PROVE  LanesHeld'
<1> USE DEF SettlementInv
<1>1. \A b \in Batches : Engaged(b)' => Engaged(b)
  BY EngagedKept DEF Engaged, LanesSame, LoopStep, Tidy
<1>2. \A b \in Batches : Held(b)' <=> Held(b)
  BY DEF Held, Lane, LanesSame
<1>3. \A b, c \in Batches : b # c /\ MarketOf[b] = MarketOf[c] => ~(Engaged(b)' /\ Engaged(c)')
  BY <1>1 DEF LanesHeld
<1>4. \A b \in Batches : sub'[b].pc = "load" => rows'[b].status = "prepared"
  BY DEF LanesSame
<1>5. ASSUME NEW a \in after', a \notin after, a.k = "processed"
      PROVE  a.b \in Batches /\ rows[a.b].status = "submitted"
  BY <1>5 DEF TasksStep, TaskType, Processed
<1>6. \A a \in after : a.b \in Batches
  BY Typed DEF TaskType
<1>9. \A b \in Batches : Tidy(b)' => Tidy(b)
  BY DEF LanesSame, LoopStep, Tidy
<1>7. phase' = "up" => /\ \A b \in Batches : Engaged(b)' => Held(b)'
                       /\ \A a \in after' : a.k = "processed" /\ Tidy(a.b)' => Held(a.b)'
  BY <1>1, <1>2, <1>5, <1>6, <1>9 DEF LanesHeld, LanesSame, Engaged
<1>8. ASSUME phase' = "recover"
      PROVE  /\ \A b, c \in Batches : MarketOf[b] = MarketOf[c] /\ Resumed(b)' /\ Resumed(c)' => b = c
             /\ \A b \in Batches : Reached(b)' => Held(b)'
             /\ \A a \in after' : a.k = "processed" /\ a.by # "rec" /\ Tidy(a.b)' => Held(a.b)'
  <2>1. phase = "recover" /\ \A b \in Batches : sub[b].pc = "off"
    BY <1>8 DEF LanesSame, DownHoldsNothing, Idle
  <2>2. \A b \in Batches : rows'[b].status = "submitted" => rows[b].status = "submitted"
    BY <2>1, EngagedKept
  <2>3. \A b \in Batches : watch'[b].pc # "off" => watch[b].pc # "off"
    BY <2>1 DEF LanesSame
  <2>4. \A b \in Batches : Resumed(b)' => Resumed(b)
    <3> SUFFICES ASSUME NEW b \in Batches, Resumed(b)'
                 PROVE  Resumed(b)
      OBVIOUS
    <3> Tidy(b)
      BY <1>9 DEF Resumed
    <3>1. CASE rows'[b].status = "submitted" \/ watch'[b].pc # "off"
      BY <2>2, <2>3, <3>1 DEF Resumed
    <3>2. CASE rec'.b = b
      BY <3>2 DEF LanesSame, Resumed
    <3>3. CASE Lane(b)'.current = b
      BY <3>3 DEF LanesSame, Resumed, Lane
    <3>4. CASE \E a \in after' : a.k = "processed" /\ a.b = b
      BY <1>5, <3>4 DEF Resumed
    <3> QED
      BY <3>1, <3>2, <3>3, <3>4 DEF Resumed
  <2>5. \A a \in after' : a.k = "processed" /\ a.by # "rec" /\ Tidy(a.b)' => Held(a.b)'
    BY <1>2, <1>5, <1>6, <1>9, <2>1 DEF LanesHeld, LanesSame, Reached
  <2>6. \A b \in Batches : Reached(b)' => Reached(b)
    BY <1>9, <2>2, <2>3 DEF LanesSame, LoopStep, Reached
  <2> QED
    BY <1>2, <2>1, <2>4, <2>5, <2>6 DEF LanesHeld
<1> QED
  BY <1>3, <1>4, <1>7, <1>8 DEF LanesHeld

\* A failure stays announced until its lane is paused.
FailuresStep ==
    /\ \A a \in after : a.k \in {"failed", "pause"} =>
          \E c \in after' : c.b = a.b /\ c.k \in {"failed", "pause"}
    /\ \A b \in Batches : FailedRow(b) => \E a \in after' : a.b = b /\ a.k \in {"failed", "pause"}

\* A failed row has its lane paused, or a task that will pause it.
LEMMA FailureKept ==
  ASSUME SettlementInv, RowsStep, FailuresStep, phase # "down",
         \A m \in Markets : lanes[m].paused => lanes'[m].paused
  PROVE  FailureHeld'
<1> SUFFICES ASSUME NEW b \in Batches, rows'[b].status = "failed"
             PROVE  \/ Lane(b)'.paused
                    \/ \E a \in after' : a.b = b /\ a.k \in {"failed", "pause"}
  BY DEF FailureHeld
<1>1. rows[b].status = "failed" \/ FailedRow(b)
  BY DEF RowsStep, RowStep, RowKept, Kept, Inserted, Prepared, Submitted, Processed, Confirmed,
     Resigned, FailedRow, PausedRow, Moved
<1>2. MarketOf[b] \in Markets
  BY Typed DEF SettlementInv
<1> QED
  BY <1>1, <1>2 DEF SettlementInv, FailureHeld, FailuresStep, Lane

LEMMA StepKeeps ==
  ASSUME SettlementInv, TypeOK', DataStep, LanesSame, FailuresStep, phase # "down",
         phase # "up" => sub' = sub
  PROVE  SettlementInv'
<1>1. DataInv' /\ LanesHeld'
  BY DataKept, LanesKept DEF DataStep, stray
<1>2. FailureHeld'
  BY FailureKept DEF DataStep, LanesSame
<1>3. DownHoldsNothing'
  BY DEF SettlementInv, DownHoldsNothing, LanesSame
<1> QED
  BY <1>1, <1>2, <1>3 DEF SettlementInv, DataInv

-----------------------------------------------------------------------------
(* What the handlers' common parts do *)

Who == {"prepare", "submit", "watch", "rec", "poller"}
LaneEnd == {"release", "pause", "releaseByMatch"}

\* A row was moved by who, and who has the rest to do.
RowMoved(b, who) ==
    /\ RowsStep /\ TasksStep /\ FailuresStep
    /\ \A c \in Batches : rows'[c].at = rows[c].at
    /\ \A c \in Batches : c # b /\ rows[c].status = "prepared" => rows'[c].status = "prepared"
    /\ \A a \in after' : a \notin after => a.b = b /\ a.by = who

\* The fields of a task.
LEMMA TaskFields ==
  ASSUME NEW b \in Batches, NEW k \in {"processed", "failed", "pause", "confirmed"}, NEW who \in Who,
         NEW ln \in LaneEnd
  PROVE  /\ Task(b, k, who, ln) \in TaskType /\ Task(b, k, who, ln).b = b
         /\ Task(b, k, who, ln).k = k /\ Task(b, k, who, ln).by = who
         /\ Task(b, k, who, ln).lane = ln
BY DEF Task, TaskType, Who, LaneEnd

\* A row that stays has moved in no wrong way.
LEMMA NothingMoved ==
  ASSUME SettlementInv, rows' = rows, after' = after, NEW b, NEW who
  PROVE  RowMoved(b, who)
<1>1. TypeOK
  BY DEF SettlementInv
<1>2. RowsStep /\ TasksStep
  BY <1>1, SameRowsStep, SameTasksStep
<1>3. \A c \in Batches : ~FailedRow(c)
  BY DEF FailedRow
<1> QED
  BY <1>2, <1>3 DEF RowMoved, FailuresStep

\* What the verdict functions do to a row and its tasks: processed, ...
LEMMA ProcessMoves ==
  ASSUME SettlementInv, NEW b \in Batches, NEW g, NEW who \in Who, processSubmission(b, g, who)
  PROVE  RowMoved(b, who) /\ (rows[b].status = "prepared" => rows'[b].status = "prepared")
<1> USE DEF SettlementInv
<1>1. CASE rows' = rows
  BY <1>1, NothingMoved DEF processSubmission
<1>2. CASE rows' # rows
  <2>1. rows[b].status = "submitted" /\ rows' = [rows EXCEPT ![b].status = "processed"]
    BY <1>2 DEF processSubmission, MarkProcessedCAS
  <2>2. "processed" \in Statuses
    BY DEF Statuses
  <2>3. /\ rows' \in [Batches -> SubmissionRecord]
        /\ \A c \in Batches : c # b => rows'[c] = rows[c]
        /\ rows'[b].status = "processed" /\ rows'[b].lane = rows[b].lane /\ rows'[b].sig = rows[b].sig
        /\ rows'[b].at = rows[b].at /\ rows'[b].warm = rows[b].warm
    BY <2>1, <2>2, SetStatusDoes
  <2>4. Processed(b)
    BY <2>1, <2>3 DEF Processed, Moved
  <2>5. RowsStep
    BY <2>3, <2>4 DEF RowsStep, RowStep, RowKept, Kept
  <2> DEFINE new == Task(b, "processed", who, "release")
  <2>6. new \in TaskType /\ new.b = b /\ new.k = "processed" /\ new.by = who
    BY TaskFields DEF LaneEnd
  <2>7. after' = after \cup {new}
    BY <1>2 DEF processSubmission
  <2> HIDE DEF new
  <2>8. TasksStep
    BY <2>4, <2>6, <2>7, Typed DEF TasksStep
  <2>9. FailuresStep
    <3>1. \A c \in Batches : ~FailedRow(c)
      BY <2>3 DEF FailedRow
    <3> QED
      BY <2>7, <3>1 DEF FailuresStep
  <2> QED
    BY <2>1, <2>3, <2>5, <2>6, <2>7, <2>8, <2>9 DEF RowMoved
<1> QED
  BY <1>1, <1>2

\* FailAndPause and its task, for a row in any status that is not a verdict.
LEMMA FailMoves ==
  ASSUME SettlementInv, NEW b \in Batches, NEW who \in Who, NEW ln \in LaneEnd,
         rows[b].status \in {"queued", "prepared", "submitted", "processed"},
         rows' = FailAndPause(b), after' = after \cup {Task(b, "failed", who, ln)}
  PROVE  RowMoved(b, who)
<1> USE DEF SettlementInv
<1>1. /\ rows' \in [Batches -> SubmissionRecord]
      /\ \A c \in Batches :
           /\ rows'[c].sig = rows[c].sig /\ rows'[c].at = rows[c].at /\ rows'[c].warm = rows[c].warm
           /\ c # b => rows'[c].status = rows[c].status
           /\ c # b => \/ rows'[c].lane = rows[c].lane
                       \/ rows[c].status \in {"queued", "prepared"} /\ rows'[c].lane = "paused"
      /\ rows'[b].status = "failed" /\ rows'[b].lane = "paused"
  BY FailAndPauseDoes
<1>2. FailedRow(b)
  BY <1>1 DEF FailedRow
<1>3. RowsStep
  <2> SUFFICES ASSUME NEW c \in Batches, c # b
               PROVE  RowKept(c) \/ PausedRow(c)
    BY <1>1, <1>2 DEF RowsStep, RowStep
  <2> QED
    BY <1>1 DEF RowKept, Kept, PausedRow
<1> DEFINE new == Task(b, "failed", who, ln)
<1>4. new \in TaskType /\ new.b = b /\ new.k = "failed" /\ new.by = who
  BY TaskFields
<1>5. after' = after \cup {new}
  OBVIOUS
<1> HIDE DEF new
<1>6. TasksStep
  BY <1>2, <1>4, <1>5, Typed DEF TasksStep
<1>7. FailuresStep
  <2>1. \A c \in Batches : FailedRow(c) => c = b \/ rows[c].status = "failed"
    BY <1>1 DEF FailedRow
  <2>2. \A c \in Batches : FailedRow(c) => c = b
    BY <2>1 DEF FailedRow
  <2> QED
    BY <1>4, <1>5, <2>2 DEF FailuresStep
<1> QED
  BY <1>1, <1>3, <1>4, <1>5, <1>6, <1>7 DEF RowMoved

\* ... failed after its submission, ...
LEMMA FailSubmissionMoves ==
  ASSUME SettlementInv, NEW b \in Batches, NEW g, NEW who \in Who, NEW ln \in LaneEnd,
         failSubmission(b, g, who, ln)
  PROVE  RowMoved(b, who) /\ (rows[b].status = "prepared" => rows'[b].status = "prepared")
<1>1. CASE rows' = rows
  BY <1>1, NothingMoved DEF failSubmission
<1>2. CASE rows' # rows
  <2>1. rows[b].status \in {"submitted", "processed"} /\ rows' = FailAndPause(b)
    BY <1>2 DEF failSubmission, MarkFailedAndPauseQueued
  <2>2. after' = after \cup {Task(b, "failed", who, ln)}
    BY <1>2 DEF failSubmission
  <2> QED
    BY <2>1, <2>2, FailMoves
<1> QED
  BY <1>1, <1>2

\* ... failed before it, ...
LEMMA FailBeforeMoves ==
  ASSUME SettlementInv, NEW b \in Batches, NEW who \in Who, failBeforeSubmit(b, who)
  PROVE  RowMoved(b, who)
<1>1. CASE rows' = rows
  BY <1>1, NothingMoved DEF failBeforeSubmit
<1>2. CASE rows' # rows
  <2>1. rows[b].status \in {"queued", "prepared"} /\ rows' = FailAndPause(b)
    BY <1>2 DEF failBeforeSubmit, MarkFailedBeforeSubmitAndPauseQueued
  <2>2. after' = after \cup {Task(b, "failed", who, "releaseByMatch")} /\ "releaseByMatch" \in LaneEnd
    BY <1>2 DEF failBeforeSubmit, LaneEnd
  <2> QED
    BY <2>1, <2>2, FailMoves
<1> QED
  BY <1>1, <1>2

\* ... and whichever of these an observation asks for.
LEMMA SettleMoves ==
  ASSUME SettlementInv, NEW b \in Batches, NEW g, NEW who \in Who, settleObserved(b, g, who)
  PROVE  RowMoved(b, who) /\ (rows[b].status = "prepared" => rows'[b].status = "prepared")
<1>1. "release" \in LaneEnd
  BY DEF LaneEnd
<1> QED
  BY <1>1, ProcessMoves, FailSubmissionMoves DEF settleObserved

\* The verdict of the signature a submitted row holds always moves the row.
LEMMA SettleEnds ==
  ASSUME SettlementInv, NEW b \in Batches, NEW who \in Who, rows[b].status = "submitted",
         settleObserved(b, rows[b].sig, who)
  PROVE  rows'[b].status # "submitted"
<1> USE DEF SettlementInv
<1>1. CASE rows' = [rows EXCEPT ![b].status = "processed"]
  <2>1. "processed" \in Statuses
    BY DEF Statuses
  <2> QED
    BY <1>1, <2>1, SetStatusDoes
<1>2. CASE rows' = FailAndPause(b)
  BY <1>2, FailAndPauseDoes
<1> QED
  BY <1>1, <1>2 DEF settleObserved, processSubmission, failSubmission, MarkProcessedCAS, MarkFailedAndPauseQueued

\* A mark in a row changes nothing the invariant speaks of.
LEMMA MarkMoves ==
  ASSUME SettlementInv, NEW b \in Batches,
         rows' = rows \/ rows' = MarkSubmittedEventPublished(b) \/ rows' = MarkTerminalEventPublished(b)
  PROVE  /\ RowsStep /\ \A c \in Batches : Kept(rows'[c], rows[c])
         /\ \A c \in Batches : ~FailedRow(c)
<1>1. rows' \in [Batches -> SubmissionRecord] /\ \A c \in Batches : Kept(rows'[c], rows[c])
  <2>1. CASE rows' = rows
    BY <2>1, Typed DEF SettlementInv, Kept
  <2> QED
    BY <2>1, MarkPublishedDoes DEF SettlementInv
<1> QED
  BY <1>1 DEF RowsStep, RowStep, RowKept, FailedRow, Kept

-----------------------------------------------------------------------------
(* Steps of a running process that move no lane *)

LEMMA WorkKeeps ==
  ASSUME SettlementInv, TypeOK', RowsStep, TasksStep, FailuresStep, ChainStep, EventsStep, RegistryStep,
         WatchStep, SubStep, RecStep, \A b \in Batches : rows'[b].at = rows[b].at,
         UNCHANGED <<phase, lanes, prepDirty, ing, height>>, phase # "down", phase # "up" => sub' = sub,
         LoopStep,
         \A b \in Batches : sub'[b].pc = "load" => sub[b].pc = "load" /\ rows'[b].status = "prepared",
         \A b \in Batches : watch'[b].pc # "off" => watch[b].pc # "off" \/ sub[b].pc # "off",
         rec'.b \in Batches => rec'.b = rec.b \/ rows[rec'.b].status = "submitted",
         rec'.b = NoBatch => rec' = rec \/ rec' = NoTask,
         \A a \in after' : a \notin after /\ a.k = "processed" /\ a.by # "rec" => watch[a.b].pc # "off"
  PROVE  SettlementInv'
<1> USE DEF SettlementInv
<1>1. \E n \in Nat : \A b \in Batches : rows'[b].at <= n
  BY DEF OrderKept
<1>2. FetchedOnce' /\ LoadStep /\ height' >= height
  BY Typed, SettlementAssumption DEF FetchedOnce, LoadStep, Heights
<1>3. QueuedWillBePrepared'
  BY QueuedKept
<1>4. DataStep
  BY <1>1, <1>2, <1>3 DEF DataStep, LoopStep
<1>5. LanesSame
  BY DEF LanesSame
<1> QED
  BY <1>4, <1>5, StepKeeps

\* A step that touches neither rows nor tasks.
LEMMA QuietStep ==
  ASSUME SettlementInv, rows' = rows, after' = after
  PROVE  /\ RowsStep /\ TasksStep /\ FailuresStep /\ \A b \in Batches : rows'[b].at = rows[b].at
         /\ \E n \in Nat : \A b \in Batches : rows'[b].at <= n
<1>1. RowMoved(NoBatch, "watch")
  BY NothingMoved
<1>2. \E n \in Nat : \A b \in Batches : rows'[b].at <= n
  BY DEF SettlementInv, OrderKept
<1> QED
  BY <1>1, <1>2 DEF RowMoved

\* Nor events, accounts, height and messages.
LEMMA SameEvents ==
  ASSUME SettlementInv
  PROVE  /\ published' = published => EventsStep
         /\ UNCHANGED <<registry, accounts>> => RegistryStep
         /\ height' = height => height' >= height
         /\ ing' = ing => FetchedOnce'
BY Typed, SettlementAssumption DEF SettlementInv, EventsStep, RegistryStep, Heights, FetchedOnce

\* Goroutines belong to a process.
LEMMA Running ==
  ASSUME SettlementInv
  PROVE  /\ \A b \in Batches : sub[b].pc # "off" => phase = "up"
         /\ \A b \in Batches : watch[b].pc # "off" => phase # "down"
         /\ ing # {} => phase # "down"
         /\ after # {} => phase # "down"
         /\ rec # NoTask => phase # "down"
BY DEF SettlementInv, DownHoldsNothing, Idle

-----------------------------------------------------------------------------
(* runIngress *)

\* A step that leaves lanes and goroutines alone.
LEMMA SameLanes ==
  ASSUME SettlementInv, UNCHANGED <<phase, lanes, sub, watch, rec, stray>>,
         \A b \in Batches : rows[b].status = "prepared" => rows'[b].status = "prepared",
         \A a \in after' : a \in after \/ a.k # "processed"
  PROVE  LanesSame
BY SameLoop DEF SettlementInv, LanesHeld, LanesSame

LEMMA FetchMessagesKeeps ==
  ASSUME SettlementInv, NEW f \in SUBSET msgs, FetchMessages(f)
  PROVE  SettlementInv'
<1> USE DEF SettlementInv
<1>1. UNCHANGED <<size, stray, db, phase, lane, sub, watch, rec, after, world, faults>> /\ phase = "up"
  BY DEF FetchMessages
<1>2. UNCHANGED <<size, stray, msgs, rows, accounts, phase, lanes, prepDirty, registry, sub, watch, rec, after,
                  height, chain, published, faults>>
  BY <1>1 DEF db, lane, world
<1> DEFINE got(b) == [b |-> b, lane |-> IF lanes[MarketOf[b]].paused THEN "paused" ELSE "active"]
<1>3. ing' = {got(b) : b \in f} /\ f \in SUBSET Batches
  BY DEF FetchMessages, TypeOK
<1>4. ing' \subseteq [b : Batches, lane : {"active", "paused"}]
  BY <1>3
<1>5. FetchedOnce'
  BY <1>3 DEF FetchedOnce
<1>6. TypeOK'
  BY <1>2, <1>4 DEF TypeOK, stray
<1>7. QueuedWillBePrepared'
  BY <1>2 DEF QueuedWillBePrepared
<1>8. DataStep
  BY <1>2, <1>5, <1>7, QuietStep, SameEvents, SameStep DEF DataStep, stray
<1>9. LanesSame
  BY <1>2, SameLanes
<1> QED
  BY <1>1, <1>2, <1>6, <1>8, <1>9, QuietStep, StepKeeps

LEMMA InsertFailsKeeps ==
  ASSUME SettlementInv, InsertFails
  PROVE  SettlementInv'
<1> USE DEF SettlementInv
<1>1. UNCHANGED <<size, stray, db, phase, lane, sub, watch, rec, after, world>> /\ phase # "down" /\ ing' = {} /\ Fault
  BY Running DEF InsertFails
<1>2. UNCHANGED <<size, stray, msgs, rows, accounts, phase, lanes, prepDirty, registry, sub, watch, rec, after,
                  height, chain, published>>
  BY <1>1 DEF db, lane, world
<1>6. TypeOK'
  BY <1>1, <1>2, FaultType DEF TypeOK, stray
<1>7. QueuedWillBePrepared' /\ FetchedOnce'
  BY <1>1, <1>2 DEF QueuedWillBePrepared, FetchedOnce
<1>8. DataStep
  BY <1>2, <1>7, QuietStep, SameEvents, SameStep DEF DataStep, stray
<1>9. LanesSame
  BY <1>2, SameLanes
<1> QED
  BY <1>1, <1>2, <1>6, <1>8, <1>9, QuietStep, StepKeeps

LEMMA InsertQueuedKeeps ==
  ASSUME SettlementInv, InsertQueued
  PROVE  SettlementInv'
<1> USE DEF SettlementInv
<1>1. /\ UNCHANGED <<size, stray, accounts, phase, lanes, registry, sub, watch, rec, after, world>>
      /\ phase # "down" /\ ing' = {} /\ (Fault \/ UNCHANGED faults) /\ msgs' \subseteq msgs
      /\ rows' = UpsertQueuedBatch(ing)
  BY Running DEF InsertQueued
<1>2. UNCHANGED <<size, stray, accounts, phase, lanes, registry, sub, watch, rec, after, height, chain, published>>
  BY <1>1 DEF world
<1>3. /\ prepDirty' = prepDirty \cup {MarketOf[i.b] : i \in {j \in ing : rows[j.b].status = "absent"
                                                                         /\ j.lane = "active"}}
  BY DEF InsertQueued
<1>4. prepDirty \subseteq prepDirty' /\ prepDirty' \subseteq Markets
  BY <1>3, Typed DEF TypeOK, stray
<1>5. /\ rows' \in [Batches -> SubmissionRecord]
      /\ \A c \in Batches :
           \/ rows'[c] = rows[c]
           \/ /\ rows[c].status = "absent" /\ rows'[c].status = "queued" /\ rows'[c].sig = 0
              /\ rows'[c].warm = {} /\ \A d \in Batches : rows'[c].at > rows[d].at
              /\ \E i \in ing : i.b = c /\ rows'[c].lane = i.lane
      /\ \E n \in Nat : \A c \in Batches : rows'[c].at <= n
  BY <1>1, UpsertDoes
<1>6. RowsStep
  <2> SUFFICES ASSUME NEW c \in Batches, rows'[c] # rows[c]
               PROVE  Inserted(c)
    BY <1>5 DEF RowsStep, RowStep, RowKept, Kept
  <2>1. PICK i \in ing : i.b = c /\ rows'[c].lane = i.lane
    BY <1>5
  <2>2. rows'[c].lane = "active" => MarketOf[c] \in prepDirty'
    BY <1>3, <1>5, <2>1
  <2> QED
    BY <1>5, <2>2 DEF Inserted
<1>7. TypeOK'
  BY <1>1, <1>2, <1>4, <1>5, FaultType DEF TypeOK, stray
<1>8. QueuedWillBePrepared' /\ FetchedOnce'
  BY <1>1, <1>2, <1>4, <1>6, QueuedKept DEF FetchedOnce
<1>9. TasksStep /\ FailuresStep
  <2>1. \A c \in Batches : ~FailedRow(c)
    BY <1>5 DEF FailedRow
  <2> QED
    BY <1>2, <2>1, SameTasksStep DEF FailuresStep
<1>10. DataStep
  BY <1>2, <1>5, <1>6, <1>8, <1>9, SameEvents, SameStep DEF DataStep, stray
<1>11. LanesSame
  BY <1>2, <1>5, SameLanes
<1> QED
  BY <1>1, <1>2, <1>7, <1>9, <1>10, <1>11, StepKeeps

-----------------------------------------------------------------------------
(* runPrepareWorker *)

LEMMA PrepareNothingKeeps ==
  ASSUME SettlementInv, NEW m \in Markets, PrepareNothing(m)
  PROVE  SettlementInv'
<1> USE DEF SettlementInv
<1>1. /\ UNCHANGED <<size, stray, db, phase, lanes, registry, procs, world, faults>>
      /\ phase = "up" /\ LoadNextQueuedByMarket(m) = {} /\ prepDirty' = prepDirty \ {m}
  BY DEF PrepareNothing
<1>2. UNCHANGED <<size, stray, msgs, rows, accounts, phase, lanes, registry, ing, sub, watch, rec, after,
                  height, chain, published, faults>>
  BY <1>1 DEF db, procs, world
<1>3. TypeOK'
  BY <1>1, <1>2 DEF TypeOK, stray
<1>4. \A b \in Batches : MarketOf[b] = m /\ rows[b].status = "queued" => rows[b].lane # "active"
  <2> DEFINE in == {b \in Batches : MarketOf[b] = m /\ rows[b].status = "queued" /\ rows[b].lane = "active"}
             ats == {rows[b].at : b \in in}
  <2>1. {b \in in : \A c \in in : rows[b].at <= rows[c].at} = {}
    BY <1>1 DEF LoadNextQueuedByMarket, FirstActive
  <2>2. ats \in SUBSET Nat
    BY RowTypes
  <2>3. ats = {}
    <3> SUFFICES ASSUME ats # {} PROVE FALSE
      OBVIOUS
    <3>1. PICK n \in ats : \A k \in ats : n <= k
      BY <2>2, LeastNatural
    <3>2. PICK b \in in : rows[b].at = n
      BY <3>1
    <3> QED
      BY <2>1, <3>1, <3>2
  <2> QED
    BY <2>3
<1>5. QueuedWillBePrepared'
  BY <1>1, <1>2, <1>4 DEF QueuedWillBePrepared
<1>6. DataStep
  BY <1>2, <1>5, QuietStep, SameEvents, SameStep DEF DataStep, stray
<1>7. LanesSame
  BY <1>2, SameLanes
<1> QED
  BY <1>1, <1>2, <1>3, <1>6, <1>7, QuietStep, StepKeeps

LEMMA PrepareSubmissionKeeps ==
  ASSUME SettlementInv, NEW b \in Batches, PrepareSubmission(b)
  PROVE  SettlementInv'
<1> USE DEF SettlementInv
<1>1. /\ UNCHANGED <<size, stray, msgs, accounts, phase, lanes, prepDirty, registry, procs, world, faults>>
      /\ phase = "up" /\ b \in LoadNextQueuedByMarket(MarketOf[b])
      /\ rows' = MarkPreparedCAS(b, WarmOrders(b))
  BY DEF PrepareSubmission
<1>2. UNCHANGED <<size, stray, msgs, accounts, phase, lanes, prepDirty, registry, ing, sub, watch, rec, after,
                  height, chain, published, faults>>
  BY <1>1 DEF procs, world
<1>3. WarmOrders(b) \in SUBSET Orders
  BY DEF WarmOrders, Orders
<1>4. /\ rows' \in [Batches -> SubmissionRecord]
      /\ \A c \in Batches : c # b => rows'[c] = rows[c]
      /\ \/ rows' = rows
         \/ /\ rows[b].status = "queued" /\ rows[b].lane = "active" /\ rows'[b].status = "prepared"
            /\ rows'[b].lane = rows[b].lane /\ rows'[b].sig = rows[b].sig
            /\ rows'[b].at = rows[b].at /\ rows'[b].warm = WarmOrders(b)
  BY <1>1, <1>3, MarkPreparedDoes
<1>5. RowsStep
  BY <1>1, <1>4 DEF RowsStep, RowStep, RowKept, Kept, Prepared
<1>6. TasksStep /\ FailuresStep
  <2>1. \A c \in Batches : ~FailedRow(c)
    BY <1>4 DEF FailedRow
  <2> QED
    BY <1>2, <2>1, SameTasksStep DEF FailuresStep
<1>7. TypeOK'
  BY <1>2, <1>4 DEF TypeOK, stray
<1>8. \A c \in Batches : rows'[c].at = rows[c].at /\ (rows[c].status = "prepared" => rows'[c].status = "prepared")
  BY <1>4
<1>9. LanesSame
  BY <1>2, <1>8, SameLanes
<1> QED
  BY <1>1, <1>2, <1>5, <1>6, <1>7, <1>8, <1>9, SameEvents, SameStep, WorkKeeps DEF LanesSame

LEMMA PrepareTooLargeKeeps ==
  ASSUME SettlementInv, NEW b \in Batches, PrepareTooLarge(b)
  PROVE  SettlementInv'
<1> USE DEF SettlementInv
<1>1. /\ UNCHANGED <<size, stray, msgs, accounts, phase, lanes, registry, ing, sub, watch, rec, world, faults>>
      /\ phase = "up" /\ b \in LoadNextQueuedByMarket(MarketOf[b])
      /\ prepDirty' = prepDirty \ {MarketOf[b]} /\ failBeforeSubmit(b, "prepare")
  BY DEF PrepareTooLarge
<1>2. UNCHANGED <<size, stray, msgs, accounts, phase, lanes, registry, ing, sub, watch, rec,
                  height, chain, published, faults>>
  BY <1>1 DEF world
<1>3. rows[b].status = "queued" /\ rows' = FailAndPause(b)
  BY <1>1 DEF LoadNextQueuedByMarket, FirstActive, failBeforeSubmit, MarkFailedBeforeSubmitAndPauseQueued
<1>4. RowMoved(b, "prepare")
  BY <1>1, FailBeforeMoves DEF Who
<1>5. QueuedWillBePrepared'
  <2>1. \A c \in Batches : MarketOf[c] = MarketOf[b] => ~(rows'[c].status = "queued" /\ rows'[c].lane = "active")
    BY <1>3, FailAndPauseDoes
  <2>2. \A c \in Batches : rows'[c].status = "queued" /\ rows'[c].lane = "active"
                           => rows[c].status = "queued" /\ rows[c].lane = "active"
    BY <1>3, FailAndPauseDoes
  <2> QED
    BY <1>1, <2>1, <2>2 DEF QueuedWillBePrepared
<1>6. TypeOK'
  <2>1. rows' \in [Batches -> SubmissionRecord] /\ after' \in SUBSET TaskType
    BY <1>4 DEF RowMoved, RowsStep, TasksStep
  <2> QED
    BY <1>1, <1>2, <2>1 DEF TypeOK, stray, TaskType
<1>7. DataStep
  <2>1. \E n \in Nat : \A c \in Batches : rows'[c].at <= n
    BY <1>4 DEF RowMoved, OrderKept
  <2> QED
    BY <1>2, <1>4, <1>5, <2>1, SameEvents, SameStep DEF DataStep, RowMoved, stray
<1>8. LanesSame
  <2>1. \A c \in Batches : rows[c].status = "prepared" => rows'[c].status = "prepared"
    BY <1>3, <1>4 DEF RowMoved
  <2>2. \A a \in after' : a \in after \/ a.k # "processed"
    BY <1>1 DEF failBeforeSubmit, Task
  <2> QED
    BY <1>2, <2>1, <2>2, SameLanes
<1> QED
  BY <1>1, <1>2, <1>4, <1>6, <1>7, <1>8, StepKeeps DEF RowMoved

-----------------------------------------------------------------------------
(* runScheduler and submitMatch *)

LEMMA AssembleKeeps ==
  ASSUME SettlementInv, TypeOK', DataStep, LanesHeld', FailureHeld', DownHoldsNothing'
  PROVE  SettlementInv'
BY DataKept DEF SettlementInv, DataInv

\* The lane is given to a batch or freed, ...
LEMMA SetCurrent ==
  ASSUME TypeOK, NEW m \in Markets, NEW x \in Batches \cup {NoBatch}, lanes' = [lanes EXCEPT ![m].current = x]
  PROVE  /\ lanes' \in [Markets -> LaneType]
         /\ lanes'[m].current = x /\ (lanes'[m].paused <=> lanes[m].paused)
         /\ \A n \in Markets : n # m => lanes'[n] = lanes[n]
<1> DEFINE l == lanes[m]
           new == [l EXCEPT !.current = x]
<1>1. l \in LaneType /\ lanes \in [Markets -> LaneType]
  BY Typed
<1>2. new \in LaneType
  BY <1>1 DEF LaneType
<1>3. new.current = x /\ new.paused = l.paused
  BY <1>1 DEF LaneType
<1>4. lanes' = [lanes EXCEPT ![m] = new]
  OBVIOUS
<1> HIDE DEF new
<1> QED
  BY <1>1, <1>2, <1>3, <1>4

\* ... and the submitting goroutine of a batch moves.
LEMMA SetSub ==
  ASSUME TypeOK, NEW b \in Batches, NEW s \in SubType, sub' = [sub EXCEPT ![b] = s]
  PROVE  /\ sub' \in [Batches -> SubType]
         /\ sub'[b] = s /\ \A c \in Batches : c # b => sub'[c] = sub[c]
BY Typed

\* The goroutines that do not run.
LEMMA IdleTypes ==
  /\ Idle \in SubType /\ Idle \in WatchType /\ NoTask \in RecType
  /\ Idle.pc = "off" /\ NoTask.b = NoBatch
BY SettlementAssumption DEF Idle, NoTask, SubType, WatchType, RecType

\* The other submitMatch tasks are untouched.
LEMMA OtherSubs ==
  ASSUME SettlementInv, NEW b \in Batches, \A c \in Batches : c # b => sub'[c] = sub[c],
         sub'[b].pc \in {"publish", "send", "sendBlank"} => Sourced(b, sub'[b].sig)
  PROVE  SubStep
BY DEF SettlementInv, SignaturesKnown, SubStep, Sourced, Known

LEMMA ScheduleClaimKeeps ==
  ASSUME SettlementInv, NEW b \in Batches, ScheduleClaim(b)
  PROVE  SettlementInv'
<1> USE DEF SettlementInv
<1> DEFINE m == MarketOf[b]
<1>1. /\ UNCHANGED <<size, stray, db, phase, prepDirty, registry, ing, watch, rec, after, world, faults>>
      /\ phase = "up" /\ b \in LoadNextPreparedByMarket(m)
      /\ ~lanes[m].paused /\ lanes[m].current = NoBatch
      /\ lanes' = [lanes EXCEPT ![m].current = b] /\ sub' = [sub EXCEPT ![b].pc = "load"]
  BY DEF ScheduleClaim
<1>2. UNCHANGED <<size, stray, msgs, rows, accounts, phase, prepDirty, registry, ing, watch, rec, after,
                  height, chain, published, faults>>
  BY <1>1 DEF db, world
<1>3. m \in Markets /\ b # NoBatch /\ rows[b].status = "prepared"
  BY <1>1, Typed DEF LoadNextPreparedByMarket, FirstActive
<1>4. /\ lanes' \in [Markets -> LaneType]
      /\ lanes'[m].current = b /\ (lanes'[m].paused <=> lanes[m].paused)
      /\ \A n \in Markets : n # m => lanes'[n] = lanes[n]
  BY <1>1, <1>3, SetCurrent
<1>5. sub' \in [Batches -> SubType] /\ sub'[b].pc = "load" /\ \A c \in Batches : c # b => sub'[c] = sub[c]
  BY <1>1, Typed DEF SubType
<1>6. TypeOK'
  BY <1>2, <1>4, <1>5 DEF TypeOK, stray, LaneType, SubType
<1>7. QueuedWillBePrepared'
  BY <1>2 DEF QueuedWillBePrepared
<1>8. Claimed(b)
  BY <1>1, <1>2 DEF Claimed, Lane
<1>9. SubStep /\ LoadStep
  BY <1>5, <1>8, OtherSubs DEF LoadStep
<1>10. DataStep
  BY <1>2, <1>7, <1>9, QuietStep, SameEvents, SameStep DEF DataStep, stray
<1>11. \A c \in Batches : MarketOf[c] = m => ~Held(c)
  BY <1>1, SettlementAssumption DEF Held, Lane
<1>12. \A c \in Batches : MarketOf[c] # m => (Held(c)' <=> Held(c))
  BY <1>4, Typed DEF Held, Lane
<1>13. \A c \in Batches : c # b => (Engaged(c)' <=> Engaged(c))
  BY <1>2, <1>5 DEF Engaged, Tidy, stray
<1>14. Held(b)'
  BY <1>4 DEF Held, Lane
<1>15. LanesHeld'
  <2>1. \A c, d \in Batches : c # d /\ MarketOf[c] = MarketOf[d] => ~(Engaged(c)' /\ Engaged(d)')
    BY <1>1, <1>11, <1>13 DEF LanesHeld
  <2>2. \A c \in Batches : sub'[c].pc = "load" => rows'[c].status = "prepared"
    BY <1>2, <1>3, <1>5 DEF LanesHeld
  <2>3. \A c \in Batches : Engaged(c)' => Held(c)'
    BY <1>1, <1>11, <1>12, <1>13, <1>14 DEF LanesHeld
  <2>4. \A a \in after' : a.k = "processed" /\ Tidy(a.b)' => Held(a.b)'
    BY <1>1, <1>2, <1>11, <1>12, Typed DEF LanesHeld, TaskType, Tidy, stray
  <2> QED
    BY <1>1, <1>2, <2>1, <2>2, <2>3, <2>4 DEF LanesHeld
<1>16. FailureHeld'
  BY <1>1, <1>2, <1>4, QuietStep, FailureKept
<1>17. DownHoldsNothing'
  BY <1>1, <1>2 DEF DownHoldsNothing
<1> QED
  BY <1>6, <1>10, <1>15, <1>16, <1>17, AssembleKeeps

\* The lane of a batch that gives up is freed.
LEMMA SubmitReturnsDoes ==
  ASSUME TypeOK, NEW b \in Batches, SubmitReturns(b)
  PROVE  /\ sub' \in [Batches -> SubType] /\ sub'[b] = Idle
         /\ \A c \in Batches : c # b => sub'[c] = sub[c]
         /\ lanes' \in [Markets -> LaneType]
         /\ \A n \in Markets : \/ lanes'[n] = lanes[n]
                               \/ lanes[n].current = b /\ (lanes'[n].paused <=> lanes[n].paused)
<1>1. sub' \in [Batches -> SubType] /\ sub'[b] = Idle /\ \A c \in Batches : c # b => sub'[c] = sub[c]
  BY IdleTypes, SetSub DEF SubmitReturns
<1> DEFINE rel(n) == [lanes[n] EXCEPT !.current = NoBatch]
<1>2. ASSUME NEW n \in Markets
      PROVE  rel(n) \in LaneType /\ rel(n).paused = lanes[n].paused
  <2>1. lanes[n] \in LaneType
    BY Typed
  <2>2. rel(n) \in LaneType
    BY <2>1 DEF LaneType
  <2>3. rel(n).paused = lanes[n].paused
    BY <2>1 DEF LaneType
  <2> QED
    BY <2>2, <2>3
<1>3. lanes' = [n \in Markets |-> IF lanes[n].current = b THEN rel(n) ELSE lanes[n]]
  BY DEF SubmitReturns, ReleaseLaneByMatchEvent
<1> HIDE DEF rel
<1>4. /\ lanes' \in [Markets -> LaneType]
      /\ \A n \in Markets : \/ lanes'[n] = lanes[n]
                            \/ lanes[n].current = b /\ (lanes'[n].paused <=> lanes[n].paused)
  BY <1>2, <1>3, Typed
<1> QED
  BY <1>1, <1>4

LEMMA SubmitReturnsKeeps ==
  ASSUME SettlementInv, NEW b \in Batches, sub[b].pc = "load", SubmitReturns(b),
         rows' = rows, Fault \/ UNCHANGED faults,
         UNCHANGED <<size, stray, msgs, accounts, phase, prepDirty, registry, ing, watch, rec, after, world>>
  PROVE  SettlementInv'
<1> USE DEF SettlementInv
<1>1. phase = "up" /\ rows[b].status = "prepared"
  BY Running DEF LanesHeld
<1>2. UNCHANGED <<size, stray, msgs, rows, accounts, phase, prepDirty, registry, ing, watch, rec, after,
                  height, chain, published>>
  BY DEF world
<1>3. sub' \in [Batches -> SubType] /\ sub'[b] = Idle /\ \A c \in Batches : c # b => sub'[c] = sub[c]
  BY SubmitReturnsDoes
<1>4. /\ lanes' \in [Markets -> LaneType]
      /\ \A n \in Markets : lanes'[n] = lanes[n] \/ (lanes[n].current = b /\ (lanes'[n].paused <=> lanes[n].paused))
  BY SubmitReturnsDoes
<1>5. TypeOK'
  BY <1>2, <1>3, <1>4, FaultType DEF TypeOK, stray, LaneType, SubType
<1>6. QueuedWillBePrepared'
  BY <1>2 DEF QueuedWillBePrepared
<1>7. SubStep /\ LoadStep
  BY <1>3, OtherSubs, IdleTypes DEF LoadStep
<1>8. DataStep
  BY <1>2, <1>6, <1>7, QuietStep, SameEvents, SameStep DEF DataStep, stray
<1>9. \A c \in Batches : c # b /\ Held(c) => Held(c)'
  BY <1>4, Typed DEF Held, Lane
<1>10. \A c \in Batches : Engaged(c)' => Engaged(c) /\ c # b
  BY <1>1, <1>2, <1>3, IdleTypes DEF Engaged, Tidy, stray
<1>11. LanesHeld'
  <2>1. \A c, d \in Batches : c # d /\ MarketOf[c] = MarketOf[d] => ~(Engaged(c)' /\ Engaged(d)')
    BY <1>10 DEF LanesHeld
  <2>2. \A c \in Batches : sub'[c].pc = "load" => rows'[c].status = "prepared"
    BY <1>2, <1>3, IdleTypes DEF LanesHeld
  <2>3. \A c \in Batches : Engaged(c)' => Held(c)'
    BY <1>1, <1>9, <1>10 DEF LanesHeld
  <2>4. \A a \in after : a.b \in Batches
    BY Typed DEF TaskType
  <2>5. \A a \in after : a.k = "processed" => a.b # b
    BY <1>1 DEF TasksBacked, Done
  <2>6. \A a \in after' : a.k = "processed" /\ Tidy(a.b)' => Held(a.b)'
    BY <1>1, <1>2, <1>9, <2>4, <2>5 DEF LanesHeld, Tidy, stray
  <2> QED
    BY <1>1, <1>2, <2>1, <2>2, <2>3, <2>6 DEF LanesHeld
<1>12. FailureHeld'
  BY <1>1, <1>2, <1>4, QuietStep, FailureKept
<1>13. DownHoldsNothing'
  BY <1>1, <1>2 DEF DownHoldsNothing
<1> QED
  BY <1>5, <1>8, <1>11, <1>12, <1>13, AssembleKeeps

\* The reply is lost: the row is submitted and its lane free, so the market has a stray row.
LEMMA SubmitLostKeeps ==
  ASSUME SettlementInv, NEW b \in Batches, sub[b].pc = "load", SubmitReturns(b), Fault,
         rows' = MarkSubmittedCAS(b, height), rows' # rows, strayed' = strayed \cup {MarketOf[b]},
         UNCHANGED <<size, msgs, accounts, phase, prepDirty, registry, ing, watch, rec, after, world, tried>>
  PROVE  SettlementInv'
<1> USE DEF SettlementInv
<1>1. phase = "up" /\ rows[b].status = "prepared"
  BY Running DEF LanesHeld
<1>2. UNCHANGED <<size, msgs, accounts, phase, prepDirty, registry, ing, watch, rec, after,
                  height, chain, published, tried>>
  BY DEF world
<1>3. sub' \in [Batches -> SubType] /\ sub'[b] = Idle /\ \A c \in Batches : c # b => sub'[c] = sub[c]
  BY SubmitReturnsDoes
<1>4. /\ lanes' \in [Markets -> LaneType]
      /\ \A n \in Markets : lanes'[n] = lanes[n] \/ (lanes[n].current = b /\ (lanes'[n].paused <=> lanes[n].paused))
  BY SubmitReturnsDoes
<1>5. /\ rows' \in [Batches -> SubmissionRecord]
      /\ \A c \in Batches : c # b => rows'[c] = rows[c]
      /\ rows[b].lane = "active" /\ rows'[b].status = "submitted"
      /\ rows'[b].lane = rows[b].lane /\ rows'[b].sig = height
      /\ rows'[b].at = rows[b].at /\ rows'[b].warm = rows[b].warm
  BY Typed, MarkSubmittedDoes
<1>6. RowsStep
  <2>1. Submitted(b)
    BY <1>1, <1>5, Typed DEF Submitted, Moved
  <2> QED
    BY <1>5, <2>1 DEF RowsStep, RowStep, RowKept, Kept
<1>7. TasksStep /\ FailuresStep
  <2>1. \A c \in Batches : ~FailedRow(c)
    BY <1>5 DEF FailedRow
  <2> QED
    BY <1>2, <2>1, SameTasksStep DEF FailuresStep
<1>8. strayed' \subseteq Markets /\ strayed \subseteq strayed' /\ MarketOf[b] \in Markets
  BY Typed DEF TypeOK
<1>9. TypeOK'
  BY <1>2, <1>3, <1>4, <1>5, <1>8, FaultType DEF TypeOK, LaneType, SubType
<1>10. QueuedWillBePrepared'
  BY <1>2, <1>6, QueuedKept
<1>11. SubStep /\ LoadStep
  BY <1>3, OtherSubs, IdleTypes DEF LoadStep
<1>12. \E n \in Nat : \A c \in Batches : rows'[c].at <= n
  <2>1. \A c \in Batches : rows'[c].at = rows[c].at
    BY <1>5
  <2> QED
    BY <2>1 DEF OrderKept
<1>13. DataStep
  BY <1>2, <1>6, <1>7, <1>8, <1>10, <1>11, <1>12, SameEvents, SameStep DEF DataStep
<1>14. \A c \in Batches : Tidy(c)' => Tidy(c) /\ MarketOf[c] # MarketOf[b]
  BY DEF Tidy
<1>15. \A c \in Batches : MarketOf[c] # MarketOf[b] /\ Held(c) => Held(c)'
  BY <1>4, Typed DEF Held, Lane
<1>16. \A c \in Batches : Engaged(c)' => Engaged(c) /\ MarketOf[c] # MarketOf[b]
  BY <1>3, <1>5, <1>14, IdleTypes DEF Engaged
<1>17. LanesHeld'
  <2>1. \A c, d \in Batches : c # d /\ MarketOf[c] = MarketOf[d] => ~(Engaged(c)' /\ Engaged(d)')
    BY <1>16 DEF LanesHeld
  <2>2. \A c \in Batches : sub'[c].pc = "load" => rows'[c].status = "prepared"
    BY <1>3, <1>5, IdleTypes DEF LanesHeld
  <2>3. \A c \in Batches : Engaged(c)' => Held(c)'
    BY <1>1, <1>15, <1>16 DEF LanesHeld
  <2>4. \A a \in after : a.b \in Batches
    BY Typed DEF TaskType
  <2>5. \A a \in after' : a.k = "processed" /\ Tidy(a.b)' => Held(a.b)'
    BY <1>1, <1>2, <1>14, <1>15, <2>4 DEF LanesHeld
  <2> QED
    BY <1>1, <1>2, <2>1, <2>2, <2>3, <2>5 DEF LanesHeld
<1>18. FailureHeld'
  BY <1>1, <1>4, <1>6, <1>7, FailureKept
<1>19. DownHoldsNothing'
  BY <1>1, <1>2 DEF DownHoldsNothing
<1> QED
  BY <1>9, <1>13, <1>17, <1>18, <1>19, AssembleKeeps

LEMMA SubmitMarkKeeps ==
  ASSUME SettlementInv, NEW b \in Batches, SubmitMark(b)
  PROVE  SettlementInv'
<1> USE DEF SettlementInv
<1>1. /\ UNCHANGED <<size, msgs, accounts, phase, prepDirty, registry, ing, watch, rec, after, world, tried>>
      /\ sub[b].pc = "load" /\ phase = "up"
  BY Running DEF SubmitMark
<1>2. CASE SubmitReturns(b) /\ rows' = rows /\ (Fault \/ UNCHANGED faults) /\ strayed' = strayed
  <2>1. UNCHANGED stray
    BY <1>1, <1>2 DEF stray
  <2> QED
    BY <1>1, <1>2, <2>1, SubmitReturnsKeeps
<1>4. CASE /\ SubmitReturns(b) /\ Fault /\ rows' = MarkSubmittedCAS(b, height) /\ rows' # rows
           /\ strayed' = strayed \cup {MarketOf[b]}
  BY <1>1, <1>4, SubmitLostKeeps
<1>3. CASE /\ rows' = MarkSubmittedCAS(b, height) /\ rows' # rows
           /\ sub' = [sub EXCEPT ![b] = [pc |-> "publish", sig |-> height]] /\ UNCHANGED <<lanes, faults, strayed>>
  <2>1. UNCHANGED <<size, stray, msgs, accounts, phase, lanes, prepDirty, registry, ing, watch, rec, after,
                    height, chain, published, faults>>
    BY <1>1, <1>3 DEF world, stray
  <2>2. height \in Heights
    BY Typed
  <2>3. /\ rows' \in [Batches -> SubmissionRecord]
        /\ \A c \in Batches : c # b => rows'[c] = rows[c]
        /\ rows[b].status = "prepared" /\ rows[b].lane = "active" /\ rows'[b].status = "submitted"
        /\ rows'[b].lane = rows[b].lane /\ rows'[b].sig = height
        /\ rows'[b].at = rows[b].at /\ rows'[b].warm = rows[b].warm
    BY <1>3, <2>2, MarkSubmittedDoes
  <2> DEFINE new == [pc |-> "publish", sig |-> height]
  <2>4. new \in SubType /\ new.pc = "publish" /\ new.sig = height
    BY <2>2 DEF SubType, Heights
  <2>5. sub' \in [Batches -> SubType] /\ sub'[b] = new /\ \A c \in Batches : c # b => sub'[c] = sub[c]
    BY <1>3, <2>4, SetSub
  <2> HIDE DEF new
  <2>6. RowsStep
    <3>1. Submitted(b)
      BY <1>1, <2>3 DEF Submitted, Moved
    <3> QED
      BY <2>3, <3>1 DEF RowsStep, RowStep, RowKept, Kept
  <2>7. TasksStep /\ FailuresStep
    <3>1. \A c \in Batches : ~FailedRow(c)
      BY <2>3 DEF FailedRow
    <3> QED
      BY <2>1, <3>1, SameTasksStep DEF FailuresStep
  <2>8. TypeOK'
    BY <2>1, <2>3, <2>5 DEF TypeOK, stray, SubType
  <2>9. SubStep
    <3>1. Sourced(b, height)
      BY <2>2, <2>3 DEF Sourced
    <3> QED
      BY <2>4, <2>5, <3>1, OtherSubs
  <2>10. \A c \in Batches : sub'[c].pc = "load" => sub[c].pc = "load" /\ rows'[c].status = "prepared"
    BY <2>3, <2>4, <2>5 DEF LanesHeld
  <2>11. rec'.b \in Batches => rec'.b = rec.b
    BY <2>1
  <2>12. \A c \in Batches : rows'[c].at = rows[c].at
    BY <2>3
  <2> QED
    BY <1>1, <2>1, <2>6, <2>7, <2>8, <2>9, <2>10, <2>11, <2>12, SameEvents, SameStep, WorkKeeps, SameLoop
<1> QED
  BY <1>1, <1>2, <1>3, <1>4 DEF SubmitMark

LEMMA SubmitTooLargeKeeps ==
  ASSUME SettlementInv, NEW b \in Batches, SubmitTooLarge(b)
  PROVE  SettlementInv'
<1> USE DEF SettlementInv
<1>1. /\ UNCHANGED <<size, stray, msgs, accounts, phase, lane, ing, watch, rec, world, faults>>
      /\ sub[b].pc = "load" /\ phase = "up" /\ failBeforeSubmit(b, "submit")
      /\ sub' = [sub EXCEPT ![b] = Idle]
  BY Running DEF SubmitTooLarge
<1>2. UNCHANGED <<size, stray, msgs, accounts, phase, lanes, prepDirty, registry, ing, watch, rec,
                  height, chain, published, faults>>
  BY <1>1 DEF world, lane
<1>3. sub' \in [Batches -> SubType] /\ sub'[b] = Idle /\ \A c \in Batches : c # b => sub'[c] = sub[c]
  BY <1>1, IdleTypes, SetSub
<1>4. RowMoved(b, "submit")
  BY <1>1, FailBeforeMoves DEF Who
<1>5. TypeOK'
  <2>1. rows' \in [Batches -> SubmissionRecord] /\ after' \in SUBSET TaskType
    BY <1>4 DEF RowMoved, RowsStep, TasksStep
  <2> QED
    BY <1>2, <1>3, <2>1 DEF TypeOK, stray, TaskType, SubType
<1>6. SubStep
  BY <1>3, OtherSubs, IdleTypes
<1>7. \A c \in Batches : sub'[c].pc = "load" => sub[c].pc = "load" /\ rows'[c].status = "prepared"
  BY <1>3, <1>4, IdleTypes DEF LanesHeld, RowMoved
<1>8. \A a \in after' : a \in after \/ a.k # "processed"
  BY <1>1 DEF failBeforeSubmit, Task
<1> QED
  BY <1>1, <1>2, <1>4, <1>5, <1>6, <1>7, <1>8, SameEvents, SameStep, WorkKeeps, SameLoop DEF RowMoved

LEMMA SubmitPublishKeeps ==
  ASSUME SettlementInv, NEW b \in Batches, SubmitPublish(b)
  PROVE  SettlementInv'
<1> USE DEF SettlementInv
<1>1. /\ UNCHANGED <<size, stray, msgs, accounts, phase, lane, ing, watch, rec, after, world>>
      /\ sub[b].pc = "publish" /\ phase = "up" /\ (Fault \/ UNCHANGED faults)
      /\ rows' = rows \/ rows' = MarkSubmittedEventPublished(b)
      /\ sub' = [sub EXCEPT ![b].pc = "send"] \/ sub' = [sub EXCEPT ![b].pc = "sendBlank"]
  BY Running DEF SubmitPublish
<1>2. UNCHANGED <<size, stray, msgs, accounts, phase, lanes, prepDirty, registry, ing, watch, rec, after,
                  height, chain, published>>
  BY <1>1 DEF world, lane
<1>3. /\ sub' \in [Batches -> SubType] /\ sub'[b].pc \in {"send", "sendBlank"} /\ sub'[b].sig = sub[b].sig
      /\ \A c \in Batches : c # b => sub'[c] = sub[c]
  <2>1. sub[b] \in SubType
    BY Typed
  <2> DEFINE new(pc) == [sub[b] EXCEPT !.pc = pc]
  <2>2. PICK pc \in {"send", "sendBlank"} : sub' = [sub EXCEPT ![b] = new(pc)]
    BY <1>1
  <2>3. new(pc) \in SubType /\ new(pc).pc = pc /\ new(pc).sig = sub[b].sig
    BY <2>1 DEF SubType
  <2> HIDE DEF new
  <2> QED
    BY <2>2, <2>3, SetSub
<1>4. /\ RowsStep /\ \A c \in Batches : Kept(rows'[c], rows[c])
      /\ \A c \in Batches : ~FailedRow(c)
  BY <1>1, MarkMoves
<1>5. TypeOK'
  <2>1. rows' \in [Batches -> SubmissionRecord]
    BY <1>4 DEF RowsStep
  <2> QED
    BY <1>1, <1>2, <1>3, <2>1, FaultType DEF TypeOK, stray, SubType
<1>6. SubStep
  <2>1. Sourced(b, sub[b].sig)
    BY <1>1 DEF SignaturesKnown, Sourced, Known
  <2> QED
    BY <1>3, <2>1, OtherSubs
<1>7. \A c \in Batches : sub'[c].pc = "load" => sub[c].pc = "load" /\ rows'[c].status = "prepared"
  BY <1>3, <1>4 DEF LanesHeld, Kept
<1>8. TasksStep /\ FailuresStep /\ \A c \in Batches : rows'[c].at = rows[c].at
  BY <1>2, <1>4, SameTasksStep DEF FailuresStep, Kept
<1> QED
  BY <1>1, <1>2, <1>4, <1>5, <1>6, <1>7, <1>8, SameEvents, SameStep, WorkKeeps, SameLoop

\* A transaction sent again is one that was known.
LEMMA BroadcastDoes ==
  ASSUME SettlementInv, NEW b \in Batches, NEW g \in Heights, Known(b, g), chain' = Broadcast(b, g)
  PROVE  ChainStep
<1>1. chain \in [Batches -> [Heights -> ChainState]]
  BY Typed DEF SettlementInv
<1>2. /\ chain' \in [Batches -> [Heights -> ChainState]]
      /\ \A c \in Batches, h \in Heights :
           chain'[c][h] = IF c = b /\ h = g /\ chain[c][h] = "unsent" THEN "sent" ELSE chain[c][h]
  BY <1>1 DEF Broadcast, ChainState
<1> QED
  BY <1>2 DEF ChainStep

\* A watch task starts with a signature that was stored.
LEMMA StartWatchDoes ==
  ASSUME SettlementInv, NEW b \in Batches, NEW g, Sourced(b, g), watch' = startWatchTask(b, g)
  PROVE  /\ watch' \in [Batches -> WatchType] /\ WatchStep
         /\ \A c \in Batches : watch'[c].pc # "off" => watch[c].pc # "off" \/ c = b
         /\ watch'[b].pc # "off"
<1> DEFINE new == [pc |-> "run", sig |-> g]
<1>1. new \in WatchType /\ new.pc = "run" /\ new.sig = g
  BY DEF WatchType, Sourced, Heights
<1>2. watch \in [Batches -> WatchType]
  BY Typed DEF SettlementInv
<1>3. watch' = [watch EXCEPT ![b] = new] \/ (watch' = watch /\ watch[b].pc # "off")
  BY DEF startWatchTask
<1> HIDE DEF new
<1>4. CASE watch' = watch /\ watch[b].pc # "off"
  BY <1>2, <1>4, SameStep
<1>5. CASE watch' = [watch EXCEPT ![b] = new]
  <2>1. watch'[b] = new /\ \A c \in Batches : c # b => watch'[c] = watch[c]
    BY <1>2, <1>5
  <2>2. WatchStep
    <3> SUFFICES ASSUME NEW c \in Batches, watch'[c].pc # "off"
                 PROVE  Sourced(c, watch'[c].sig)
      BY DEF WatchStep
    <3>1. CASE c = b
      BY <1>1, <2>1, <3>1
    <3>2. CASE c # b
      BY <2>1, <3>2 DEF SettlementInv, SignaturesKnown, Sourced, Known
    <3> QED
      BY <3>1, <3>2
  <2> QED
    BY <1>1, <1>2, <1>5, <2>1, <2>2
<1> QED
  BY <1>3, <1>4, <1>5

LEMMA SubmitSendKeeps ==
  ASSUME SettlementInv, NEW b \in Batches, SubmitSend(b)
  PROVE  SettlementInv'
<1> USE DEF SettlementInv
<1> DEFINE g == sub[b].sig
<1>1. /\ UNCHANGED <<size, stray, msgs, accounts, phase, lane, ing, rec, height, published>>
      /\ sub[b].pc \in {"send", "sendBlank"} /\ phase = "up" /\ (Fault \/ UNCHANGED faults)
      /\ sub' = [sub EXCEPT ![b] = Idle]
  BY Running DEF SubmitSend
<1>2. UNCHANGED <<size, stray, msgs, accounts, phase, lanes, prepDirty, registry, ing, rec, height, published>>
  BY <1>1 DEF lane
<1>3. sub' \in [Batches -> SubType] /\ sub'[b] = Idle /\ \A c \in Batches : c # b => sub'[c] = sub[c]
  BY <1>1, IdleTypes, SetSub
<1>4. g \in Heights /\ Known(b, g) /\ Sourced(b, g)
  BY <1>1 DEF SignaturesKnown, Sourced, Known
<1>5. /\ chain' = Broadcast(b, g) \/ chain' = chain
      /\ watch' = startWatchTask(b, g) \/ watch' = watch
      /\ (rows' = rows /\ after' = after) \/ failSubmission(b, g, "submit", "release")
  BY DEF SubmitSend
<1>6. ChainStep
  BY <1>4, <1>5, BroadcastDoes, SameStep
<1>7. /\ watch' \in [Batches -> WatchType] /\ WatchStep
      /\ \A c \in Batches : watch'[c].pc # "off" => watch[c].pc # "off" \/ c = b
  BY <1>4, <1>5, StartWatchDoes, SameStep, Typed
<1>8. RowMoved(b, "submit") /\ (rows[b].status = "prepared" => rows'[b].status = "prepared")
  BY <1>5, NothingMoved, FailSubmissionMoves DEF Who, LaneEnd
<1>9. TypeOK'
  <2>1. rows' \in [Batches -> SubmissionRecord] /\ after' \in SUBSET TaskType
    BY <1>8 DEF RowMoved, RowsStep, TasksStep
  <2> QED
    BY <1>1, <1>2, <1>3, <1>6, <1>7, <2>1, FaultType
       DEF TypeOK, stray, TaskType, SubType, WatchType, ChainStep, ChainState
<1>10. SubStep
  BY <1>3, OtherSubs, IdleTypes
<1>11. \A c \in Batches : sub'[c].pc = "load" => sub[c].pc = "load" /\ rows'[c].status = "prepared"
  BY <1>3, <1>8, IdleTypes DEF LanesHeld, RowMoved
<1>12. \A a \in after' : a \in after \/ a.k # "processed"
  BY <1>5 DEF failSubmission, Task
<1> QED
  BY <1>1, <1>2, <1>6, <1>7, <1>8, <1>9, <1>10, <1>11, <1>12, SameEvents, SameStep, WorkKeeps, SameLoop DEF RowMoved

-----------------------------------------------------------------------------
(* watchSubmission *)

\* The other watch tasks are untouched.
LEMMA OtherWatches ==
  ASSUME SettlementInv, NEW b \in Batches, NEW w \in WatchType, watch' = [watch EXCEPT ![b] = w],
         w.pc # "off" => Sourced(b, w.sig)
  PROVE  /\ watch' \in [Batches -> WatchType] /\ WatchStep
         /\ watch'[b] = w /\ \A c \in Batches : c # b => watch'[c] = watch[c]
<1>1. watch' \in [Batches -> WatchType] /\ watch'[b] = w /\ \A c \in Batches : c # b => watch'[c] = watch[c]
  BY Typed DEF SettlementInv
<1> QED
  BY <1>1 DEF SettlementInv, SignaturesKnown, WatchStep, Sourced, Known

LEMMA WatchObserveKeeps ==
  ASSUME SettlementInv, NEW b \in Batches, WatchObserve(b)
  PROVE  SettlementInv'
<1> USE DEF SettlementInv
<1> DEFINE g == watch[b].sig
           w == IF after' = after THEN Idle ELSE [watch[b] EXCEPT !.pc = "ending"]
<1>1. /\ UNCHANGED <<size, stray, msgs, accounts, phase, lane, ing, sub, rec, world>>
      /\ watch[b].pc = "run" /\ phase # "down" /\ (Fault \/ UNCHANGED faults)
      /\ settleObserved(b, g, "watch") \/ (rows' = rows /\ after' = after)
      /\ watch' = [watch EXCEPT ![b] = w]
  BY Running DEF WatchObserve
<1>2. UNCHANGED <<size, stray, msgs, accounts, phase, lanes, prepDirty, registry, ing, sub, rec,
                  height, chain, published>>
  BY <1>1 DEF lane, world
<1>3. w \in WatchType /\ (w.pc # "off" => Sourced(b, w.sig))
  <2>1. watch[b] \in WatchType
    BY Typed
  <2>2. Sourced(b, g)
    BY <1>1 DEF SignaturesKnown, Sourced, Known
  <2> DEFINE e == [watch[b] EXCEPT !.pc = "ending"]
  <2>3. e \in WatchType /\ e.sig = g
    BY <2>1 DEF WatchType
  <2> HIDE DEF e
  <2>4. w = Idle \/ w = e
    BY DEF e
  <2> HIDE DEF w
  <2> QED
    BY <2>2, <2>3, <2>4, IdleTypes
<1> HIDE DEF w
<1>4. /\ watch' \in [Batches -> WatchType] /\ WatchStep
      /\ \A c \in Batches : c # b => watch'[c] = watch[c]
  BY <1>1, <1>3, OtherWatches
<1>5. RowMoved(b, "watch") /\ (rows[b].status = "prepared" => rows'[b].status = "prepared")
  BY <1>1, NothingMoved, SettleMoves DEF Who
<1>6. TypeOK'
  <2>1. rows' \in [Batches -> SubmissionRecord] /\ after' \in SUBSET TaskType
    BY <1>5 DEF RowMoved, RowsStep, TasksStep
  <2> QED
    BY <1>1, <1>2, <1>4, <2>1, FaultType DEF TypeOK, stray, TaskType, WatchType
<1>7. \A c \in Batches : sub'[c].pc = "load" => sub[c].pc = "load" /\ rows'[c].status = "prepared"
  BY <1>2, <1>5 DEF LanesHeld, RowMoved
<1>8. \A a \in after' : a \notin after => a.b = b
  BY <1>5 DEF RowMoved
<1>9. \A c \in Batches : watch'[c].pc # "off" => watch[c].pc # "off"
  BY <1>1, <1>4
<1> QED
  BY <1>1, <1>2, <1>4, <1>5, <1>6, <1>7, <1>8, <1>9, SameEvents, SameStep, WorkKeeps, SameLoop DEF RowMoved

LEMMA WatchRebroadcastKeeps ==
  ASSUME SettlementInv, NEW b \in Batches, WatchRebroadcast(b)
  PROVE  SettlementInv'
<1> USE DEF SettlementInv
<1>1. /\ UNCHANGED <<size, stray, db, phase, lane, procs, height, published, faults>>
      /\ watch[b].pc = "run" /\ phase # "down" /\ chain' = Broadcast(b, watch[b].sig)
  BY Running DEF WatchRebroadcast
<1>2. UNCHANGED <<size, stray, msgs, rows, accounts, phase, lanes, prepDirty, registry, ing, sub, watch, rec, after,
                  height, published, faults>>
  BY <1>1 DEF db, lane, procs
<1>3. ChainStep
  BY <1>1, BroadcastDoes DEF SignaturesKnown, Known
<1>4. TypeOK'
  BY <1>2, <1>3 DEF TypeOK, stray, ChainStep, ChainState
<1>5. LanesSame
  BY <1>2, SameLanes
<1> QED
  BY <1>1, <1>2, <1>3, <1>4, <1>5, QuietStep, SameEvents, SameStep, WorkKeeps DEF LanesSame

LEMMA WatchResignKeeps ==
  ASSUME SettlementInv, NEW b \in Batches, WatchResign(b)
  PROVE  SettlementInv'
<1> USE DEF SettlementInv
<1> DEFINE old == watch[b].sig
           new == [pc |-> "resend", sig |-> height]
           own == [watch[b] EXCEPT !.sig = rows[b].sig]
<1>1. /\ UNCHANGED <<size, stray, msgs, accounts, phase, lane, ing, sub, rec, after, height, chain, published>>
      /\ watch[b].pc = "run" /\ phase # "down" /\ (Fault \/ UNCHANGED faults) /\ isExpired(old)
      /\ rows' = ReplaceSignatureCAS(b, old, height)
      /\ \/ watch' = watch
         \/ rows' # rows /\ watch' = [watch EXCEPT ![b] = new]
         \/ rows' = rows /\ rows[b].status = "submitted" /\ watch' = [watch EXCEPT ![b] = own]
  BY Running DEF WatchResign
<1>2. UNCHANGED <<size, stray, msgs, accounts, phase, lanes, prepDirty, registry, ing, sub, rec, after,
                  height, chain, published>>
  BY <1>1 DEF lane
<1>3. height \in Heights
  BY Typed
<1>4. /\ rows' \in [Batches -> SubmissionRecord]
      /\ \A c \in Batches : c # b => rows'[c] = rows[c]
      /\ \/ rows' = rows
         \/ /\ rows[b].status = "submitted" /\ rows[b].sig = old /\ rows'[b].status = "submitted"
            /\ rows'[b].lane = rows[b].lane /\ rows'[b].sig = height
            /\ rows'[b].at = rows[b].at /\ rows'[b].warm = rows[b].warm
  BY <1>1, <1>3, ReplaceSignatureDoes
<1>5. RowsStep
  <2>1. rows' = rows \/ Resigned(b)
    BY <1>1, <1>4 DEF Resigned, Moved
  <2> QED
    BY <1>4, <2>1 DEF RowsStep, RowStep, RowKept, Kept
<1>6. TasksStep /\ FailuresStep
  <2>1. \A c \in Batches : ~FailedRow(c)
    BY <1>4 DEF FailedRow
  <2> QED
    BY <1>2, <2>1, SameTasksStep DEF FailuresStep
<1>7. /\ watch' \in [Batches -> WatchType] /\ WatchStep
      /\ \A c \in Batches : watch'[c].pc # "off" => watch[c].pc # "off"
  <2>1. CASE watch' = watch
    BY <2>1, SameStep, Typed
  <2>2. CASE rows' # rows /\ watch' = [watch EXCEPT ![b] = new]
    <3>1. new \in WatchType /\ new.sig = height
      BY <1>3 DEF WatchType, Heights
    <3>2. Sourced(b, height)
      BY <1>3, <1>4, <2>2 DEF Sourced
    <3> HIDE DEF new
    <3> QED
      BY <1>1, <2>2, <3>1, <3>2, OtherWatches
  <2>3. CASE rows' = rows /\ rows[b].status = "submitted" /\ watch' = [watch EXCEPT ![b] = own]
    <3>1. rows[b].sig \in 0..MaxHeight /\ watch[b] \in WatchType
      BY Typed, RowTypes
    <3>2. own \in WatchType /\ own.sig = rows[b].sig
      BY <3>1 DEF WatchType
    <3>3. Sourced(b, rows[b].sig)
      BY <2>3 DEF Sourced, RowsShaped
    <3> HIDE DEF own
    <3> QED
      BY <1>1, <2>3, <3>2, <3>3, OtherWatches
  <2> QED
    BY <1>1, <2>1, <2>2, <2>3
<1>8. TypeOK'
  BY <1>1, <1>2, <1>4, <1>7, FaultType DEF TypeOK, stray, WatchType
<1>9. \A c \in Batches : sub'[c].pc = "load" => sub[c].pc = "load" /\ rows'[c].status = "prepared"
  BY <1>2, <1>4 DEF LanesHeld
<1>10. \A c \in Batches : rows'[c].at = rows[c].at
  BY <1>4
<1> HIDE DEF new, own
<1> QED
  BY <1>1, <1>2, <1>5, <1>6, <1>7, <1>8, <1>9, <1>10, SameEvents, SameStep, WorkKeeps, SameLoop

LEMMA WatchResendKeeps ==
  ASSUME SettlementInv, NEW b \in Batches, WatchResend(b)
  PROVE  SettlementInv'
<1> USE DEF SettlementInv
<1> DEFINE g == watch[b].sig
           w == [watch[b] EXCEPT !.pc = "run"]
<1>1. /\ UNCHANGED <<size, stray, msgs, accounts, phase, lane, ing, sub, rec, height, published>>
      /\ watch[b].pc = "resend" /\ phase # "down" /\ (Fault \/ UNCHANGED faults)
      /\ chain' = chain \/ chain' = Broadcast(b, g)
      /\ failSubmission(b, g, "watch", "release") \/ (rows' = rows /\ after' = after)
      /\ watch' = [watch EXCEPT ![b] = w]
  BY Running DEF WatchResend
<1>2. UNCHANGED <<size, stray, msgs, accounts, phase, lanes, prepDirty, registry, ing, sub, rec,
                  height, published>>
  BY <1>1 DEF lane
<1>3. g \in Heights /\ Known(b, g) /\ Sourced(b, g)
  BY <1>1 DEF SignaturesKnown, Sourced, Known
<1>4. w \in WatchType /\ w.sig = g
  BY Typed DEF WatchType
<1> HIDE DEF w
<1>5. /\ watch' \in [Batches -> WatchType] /\ WatchStep
      /\ \A c \in Batches : c # b => watch'[c] = watch[c]
  BY <1>1, <1>3, <1>4, OtherWatches
<1>6. ChainStep
  BY <1>1, <1>3, BroadcastDoes, SameStep
<1>7. RowMoved(b, "watch") /\ (rows[b].status = "prepared" => rows'[b].status = "prepared")
  BY <1>1, NothingMoved, FailSubmissionMoves DEF Who, LaneEnd
<1>8. TypeOK'
  <2>1. rows' \in [Batches -> SubmissionRecord] /\ after' \in SUBSET TaskType
    BY <1>7 DEF RowMoved, RowsStep, TasksStep
  <2> QED
    BY <1>1, <1>2, <1>5, <1>6, <2>1, FaultType DEF TypeOK, stray, TaskType, WatchType, ChainStep, ChainState
<1>9. \A c \in Batches : sub'[c].pc = "load" => sub[c].pc = "load" /\ rows'[c].status = "prepared"
  BY <1>2, <1>7 DEF LanesHeld, RowMoved
<1>10. \A a \in after' : a \notin after => a.b = b
  BY <1>7 DEF RowMoved
<1>11. \A c \in Batches : watch'[c].pc # "off" => watch[c].pc # "off"
  BY <1>1, <1>5
<1> QED
  BY <1>1, <1>2, <1>5, <1>6, <1>7, <1>8, <1>9, <1>10, <1>11, SameEvents, SameStep, WorkKeeps, SameLoop DEF RowMoved

-----------------------------------------------------------------------------
(* What follows an applied compare-and-set *)

\* A task that is done goes, with its watch if it has one.
LEMMA EndTaskDoes ==
  ASSUME SettlementInv, NEW a \in after, EndTask(a)
  PROVE  /\ after' = after \ {a} /\ watch' \in [Batches -> WatchType] /\ WatchStep
         /\ \A c \in Batches : watch'[c].pc # "off" => watch[c].pc # "off"
<1>1. after' = after \ {a} /\ (watch' = watch \/ watch' = [watch EXCEPT ![a.b] = Idle]) /\ a.b \in Batches
  BY Typed DEF EndTask, SettlementInv, TaskType
<1>2. CASE watch' = watch
  BY <1>1, <1>2, SameStep, Typed DEF SettlementInv
<1>3. CASE watch' = [watch EXCEPT ![a.b] = Idle]
  BY <1>1, <1>3, OtherWatches, IdleTypes
<1> QED
  BY <1>1, <1>2, <1>3

LEMMA AfterProcessedKeeps ==
  ASSUME SettlementInv, NEW a \in after, AfterProcessed(a)
  PROVE  SettlementInv'
<1> USE DEF SettlementInv
<1> DEFINE m == MarketOf[a.b]
<1>1. /\ UNCHANGED <<size, stray, msgs, rows, phase, prepDirty, ing, sub, rec, world>>
      /\ a.k = "processed" /\ EndTask(a) /\ registry' = registry \cup {a.b}
      /\ accounts' = accounts \cup {a.b} \/ accounts' = accounts
      /\ Fault \/ UNCHANGED faults
      /\ lanes' = [lanes EXCEPT ![m].current = NoBatch]
      /\ phase # "down"
  BY Running DEF AfterProcessed, observeProcessedEvidence
<1>2. UNCHANGED <<size, stray, msgs, rows, phase, prepDirty, ing, sub, rec, height, chain, published>>
  BY <1>1 DEF world
<1>3. a.b \in Batches /\ Done(a.b) /\ m \in Markets /\ sub[a.b].pc # "load" /\ rows[a.b].status # "submitted"
  BY <1>1, Typed DEF TaskType, TasksBacked, LanesHeld, Done
<1>4. /\ after' = after \ {a} /\ watch' \in [Batches -> WatchType] /\ WatchStep
      /\ \A c \in Batches : watch'[c].pc # "off" => watch[c].pc # "off"
  BY <1>1, EndTaskDoes
<1>5. /\ lanes' \in [Markets -> LaneType]
      /\ lanes'[m].current = NoBatch /\ (lanes'[m].paused <=> lanes[m].paused)
      /\ \A n \in Markets : n # m => lanes'[n] = lanes[n]
  BY <1>1, <1>3, SetCurrent
<1>6. RowsStep /\ TasksStep /\ \A c \in Batches : ~FailedRow(c)
  BY <1>2, <1>4, SameRowsStep, SameTasksStep DEF FailedRow
<1>7. FailuresStep
  BY <1>1, <1>4, <1>6 DEF FailuresStep
<1>8. TypeOK'
  <2>1. after' \in SUBSET TaskType
    BY <1>6 DEF TasksStep
  <2> QED
    BY <1>1, <1>2, <1>3, <1>4, <1>5, <2>1, FaultType DEF TypeOK, stray, TaskType, LaneType, WatchType
<1>9. QueuedWillBePrepared'
  BY <1>2 DEF QueuedWillBePrepared
<1>10. RegistryStep
  BY <1>1, <1>3 DEF RegistryStep
<1>11. \E n \in Nat : \A b \in Batches : rows'[b].at <= n
  BY <1>2 DEF OrderKept
<1>12. DataStep
  BY <1>2, <1>4, <1>6, <1>9, <1>10, <1>11, SameEvents, SameStep DEF DataStep, stray
<1>13. \A c \in Batches : Engaged(c)' <=> Engaged(c)
  BY <1>2 DEF Engaged, Tidy, stray
<1>14. \A c \in Batches : (MarketOf[c] # m \/ c # a.b) /\ Held(c) => Held(c)' \/ (Lane(c).current = c /\ MarketOf[c] = m)
  BY <1>5, Typed DEF Held, Lane
<1>15. \A c \in after' : c.k = "processed" => c.b \in Batches /\ c \in after /\ c.b # a.b
  BY <1>1, <1>4, Typed DEF TasksBacked, TaskType
<1>16. ~Engaged(a.b)
  BY <1>3 DEF Engaged
<1>17. LanesHeld'
  <2>1. \A c, d \in Batches : c # d /\ MarketOf[c] = MarketOf[d] => ~(Engaged(c)' /\ Engaged(d)')
    BY <1>13 DEF LanesHeld
  <2>2. \A c \in Batches : sub'[c].pc = "load" => rows'[c].status = "prepared"
    BY <1>2 DEF LanesHeld
  <2>3. ASSUME phase' = "up"
        PROVE  /\ \A c \in Batches : Engaged(c)' => Held(c)'
               /\ \A c \in after' : c.k = "processed" /\ Tidy(c.b)' => Held(c.b)'
    <3>1. Tidy(a.b) => Held(a.b)
      BY <1>1, <1>2, <2>3 DEF LanesHeld
    <3>2. \A c \in Batches : Tidy(c) /\ c # a.b /\ Held(c) => Held(c)'
      BY <1>5, <3>1, Typed DEF Held, Lane, Tidy
    <3>3. \A c \in Batches : Engaged(c) => Tidy(c)
      BY DEF Engaged
    <3> QED
      BY <1>2, <1>13, <1>15, <1>16, <2>3, <3>2, <3>3 DEF LanesHeld, Tidy, stray
  <2>4. ASSUME phase' = "recover"
        PROVE  /\ \A b, c \in Batches : MarketOf[b] = MarketOf[c] /\ Resumed(b)' /\ Resumed(c)' => b = c
               /\ \A b \in Batches : Reached(b)' => Held(b)'
               /\ \A c \in after' : c.k = "processed" /\ c.by # "rec" /\ Tidy(c.b)' => Held(c.b)'
    <3>1. phase = "recover"
      BY <1>2, <2>4
    <3>2. \A b \in Batches : Resumed(b)' => Resumed(b)
      <4> SUFFICES ASSUME NEW b \in Batches, Resumed(b)'
                   PROVE  Resumed(b)
        OBVIOUS
      <4> Tidy(b)
        BY <1>2 DEF Resumed, Tidy, stray
      <4>1. CASE Lane(b)'.current = b
        BY <1>5, <4>1, Typed DEF Lane, Resumed
      <4>2. CASE rows'[b].status = "submitted" \/ rec'.b = b \/ watch'[b].pc # "off"
        BY <1>2, <1>4, <4>2 DEF Resumed
      <4>3. CASE \E c \in after' : c.k = "processed" /\ c.b = b
        BY <1>4, <4>3 DEF Resumed
      <4> QED
        BY <4>1, <4>2, <4>3 DEF Resumed
    <3>3. Tidy(a.b) => Resumed(a.b)
      BY <1>1 DEF Resumed
    <3>4. \A b \in Batches : b # a.b /\ Resumed(b) => MarketOf[b] # m
      <4>1. \A b \in Batches : Resumed(b) /\ MarketOf[b] = m => Tidy(a.b)
        BY DEF Resumed, Tidy
      <4> QED
        BY <1>3, <3>1, <3>3, <4>1 DEF LanesHeld
    <3>5. \A b \in Batches : MarketOf[b] # m /\ Held(b) => Held(b)'
      BY <1>5, Typed DEF Held, Lane
    <3>6. \A b \in Batches : Reached(b)' => Held(b)'
      <4> SUFFICES ASSUME NEW b \in Batches, Reached(b)'
                   PROVE  Held(b)'
        OBVIOUS
      <4>2. Reached(b)
        BY <1>2, <1>4 DEF Reached, Tidy, stray
      <4>1. Resumed(b) /\ b # a.b /\ Held(b)
        BY <1>3, <3>1, <4>2 DEF Reached, Resumed, LanesHeld
      <4> QED
        BY <3>4, <3>5, <4>1
    <3>7. \A c \in after' : c.k = "processed" /\ c.by # "rec" /\ Tidy(c.b)' => Held(c.b)'
      <4> SUFFICES ASSUME NEW c \in after', c.k = "processed", c.by # "rec", Tidy(c.b)'
                   PROVE  Held(c.b)'
        OBVIOUS
      <4>3. Tidy(c.b)
        BY <1>2 DEF Tidy, stray
      <4>1. c \in after /\ c.b \in Batches /\ c.b # a.b
        BY <1>15
      <4>2. Resumed(c.b) /\ Held(c.b)
        BY <3>1, <4>1, <4>3 DEF Resumed, LanesHeld
      <4> QED
        BY <3>4, <3>5, <4>1, <4>2
    <3> QED
      BY <3>1, <3>2, <3>6, <3>7 DEF LanesHeld
  <2> QED
    BY <2>1, <2>2, <2>3, <2>4 DEF LanesHeld
<1>18. FailureHeld'
  BY <1>1, <1>5, <1>6, <1>7, FailureKept
<1>19. DownHoldsNothing'
  BY <1>1, <1>2 DEF DownHoldsNothing
<1> QED
  BY <1>8, <1>12, <1>17, <1>18, <1>19, AssembleKeeps

\* A publish and its mark.
LEMMA PublishDoes ==
  ASSUME SettlementInv, NEW b \in Batches, NEW t \in {"confirmed", "failed"}, rows[b].status = t,
         PublishThenMark(t, b, MarkTerminalEventPublished(b))
  PROVE  /\ RowsStep /\ \A c \in Batches : Kept(rows'[c], rows[c])
         /\ \A c \in Batches : ~FailedRow(c)
         /\ EventsStep /\ published' \in SUBSET EventType /\ (Fault \/ UNCHANGED faults)
<1>1. /\ rows' = rows \/ rows' = MarkTerminalEventPublished(b)
      /\ published' \in {published, published \cup {Event(t, b)}} /\ (Fault \/ UNCHANGED faults)
  BY DEF PublishThenMark
<1>2. Event(t, b) \in EventType
  BY RowTypes DEF Event, EventType, SettlementInv
<1> QED
  BY <1>1, <1>2, MarkMoves, Typed DEF EventsStep, SettlementInv

LEMMA AfterFailedKeeps ==
  ASSUME SettlementInv, NEW a \in after, AfterFailed(a)
  PROVE  SettlementInv'
<1> USE DEF SettlementInv
<1> DEFINE new == [a EXCEPT !.k = "pause"]
<1>1. /\ UNCHANGED <<size, stray, msgs, accounts, phase, lane, ing, sub, watch, rec, height, chain>>
      /\ a.k = "failed" /\ PublishThenMark("failed", a.b, MarkTerminalEventPublished(a.b))
      /\ after' = (after \ {a}) \cup {new} /\ phase # "down"
  BY Running DEF AfterFailed
<1>2. UNCHANGED <<size, stray, msgs, accounts, phase, lanes, prepDirty, registry, ing, sub, watch, rec, height, chain>>
  BY <1>1 DEF lane
<1>3. a.b \in Batches /\ rows[a.b].status = "failed"
  BY <1>1, Typed DEF TaskType, TasksBacked
<1>4. new \in TaskType /\ new.b = a.b /\ new.k = "pause"
  BY Typed DEF TaskType
<1> HIDE DEF new
<1>5. /\ RowsStep /\ \A c \in Batches : Kept(rows'[c], rows[c])
      /\ \A c \in Batches : ~FailedRow(c)
      /\ EventsStep /\ published' \in SUBSET EventType /\ (Fault \/ UNCHANGED faults)
  BY <1>1, <1>3, PublishDoes
<1>6. TasksStep
  BY <1>1, <1>4, Typed DEF TasksStep
<1>7. FailuresStep
  BY <1>1, <1>4, <1>5 DEF FailuresStep
<1>8. TypeOK'
  <2>1. rows' \in [Batches -> SubmissionRecord] /\ after' \in SUBSET TaskType
    BY <1>5, <1>6 DEF RowsStep, TasksStep
  <2> QED
    BY <1>2, <1>5, <2>1, FaultType DEF TypeOK, stray, TaskType, EventType
<1>9. LanesSame
  BY <1>1, <1>2, <1>4, <1>5, SameLanes DEF Kept
<1> QED
  BY <1>1, <1>2, <1>5, <1>6, <1>7, <1>8, <1>9, SameEvents, SameStep, WorkKeeps DEF LanesSame, Kept

LEMMA AfterConfirmedKeeps ==
  ASSUME SettlementInv, NEW a \in after, AfterConfirmed(a)
  PROVE  SettlementInv'
<1> USE DEF SettlementInv
<1>1. /\ UNCHANGED <<size, stray, msgs, accounts, phase, lane, ing, sub, rec, height, chain>>
      /\ a.k = "confirmed" /\ EndTask(a)
      /\ PublishThenMark("confirmed", a.b, MarkTerminalEventPublished(a.b)) /\ phase # "down"
  BY Running DEF AfterConfirmed
<1>2. UNCHANGED <<size, stray, msgs, accounts, phase, lanes, prepDirty, registry, ing, sub, rec, height, chain>>
  BY <1>1 DEF lane
<1>3. a.b \in Batches /\ rows[a.b].status = "confirmed"
  BY <1>1, Typed DEF TaskType, TasksBacked
<1>4. /\ after' = after \ {a} /\ watch' \in [Batches -> WatchType] /\ WatchStep
      /\ \A c \in Batches : watch'[c].pc # "off" => watch[c].pc # "off"
  BY <1>1, EndTaskDoes
<1>5. /\ RowsStep /\ \A c \in Batches : Kept(rows'[c], rows[c])
      /\ \A c \in Batches : ~FailedRow(c)
      /\ EventsStep /\ published' \in SUBSET EventType /\ (Fault \/ UNCHANGED faults)
  BY <1>1, <1>3, PublishDoes
<1>6. TasksStep /\ FailuresStep
  BY <1>1, <1>4, <1>5, SameTasksStep DEF FailuresStep
<1>7. TypeOK'
  <2>1. rows' \in [Batches -> SubmissionRecord] /\ after' \in SUBSET TaskType
    BY <1>5, <1>6 DEF RowsStep, TasksStep
  <2> QED
    BY <1>2, <1>4, <1>5, <2>1, FaultType DEF TypeOK, stray, TaskType, EventType, WatchType
<1>8. \A c \in Batches : sub'[c].pc = "load" => sub[c].pc = "load" /\ rows'[c].status = "prepared"
  BY <1>2, <1>5 DEF LanesHeld, Kept
<1> QED
  BY <1>1, <1>2, <1>4, <1>5, <1>6, <1>7, <1>8, SameEvents, SameStep, WorkKeeps, SameLoop DEF Kept

LEMMA AfterPauseKeeps ==
  ASSUME SettlementInv, NEW a \in after, AfterPause(a)
  PROVE  SettlementInv'
<1> USE DEF SettlementInv
<1> DEFINE m == MarketOf[a.b]
           l == lanes[m]
           x == IF a.lane = "release" \/ (a.lane = "releaseByMatch" /\ l.current = a.b) THEN NoBatch ELSE l.current
           new == [paused |-> TRUE, current |-> x]
<1>1. /\ UNCHANGED <<size, stray, db, phase, prepDirty, registry, ing, sub, rec, world, faults>>
      /\ a.k = "pause" /\ EndTask(a) /\ phase # "down"
      /\ lanes' = [lanes EXCEPT ![m] = new]
  BY Running DEF AfterPause
<1>2. UNCHANGED <<size, stray, msgs, rows, accounts, phase, prepDirty, registry, ing, sub, rec, height, chain,
                  published, faults>>
  BY <1>1 DEF db, world
<1>3. a.b \in Batches /\ m \in Markets
  BY Typed DEF TaskType
<1>4. /\ after' = after \ {a} /\ watch' \in [Batches -> WatchType] /\ WatchStep
      /\ \A c \in Batches : watch'[c].pc # "off" => watch[c].pc # "off"
  BY <1>1, EndTaskDoes
<1>5. l \in LaneType /\ lanes \in [Markets -> LaneType]
  BY <1>3, Typed
<1>6. x \in Batches \cup {NoBatch} /\ (x = NoBatch \/ x = l.current)
  BY <1>5 DEF LaneType
<1> HIDE DEF x
<1>7. new \in LaneType
  BY <1>6 DEF LaneType
<1>8. new.paused /\ new.current = x
  OBVIOUS
<1> HIDE DEF new
<1>9. /\ lanes' \in [Markets -> LaneType] /\ lanes'[m].paused
      /\ lanes'[m].current = NoBatch \/ lanes'[m].current = lanes[m].current
      /\ \A n \in Markets : n # m => lanes'[n] = lanes[n]
  BY <1>1, <1>3, <1>5, <1>6, <1>7, <1>8
<1>10. RowsStep /\ TasksStep
  BY <1>2, <1>4, SameRowsStep, SameTasksStep
<1>11. TypeOK'
  <2>1. after' \in SUBSET TaskType
    BY <1>10 DEF TasksStep
  <2> QED
    BY <1>2, <1>4, <1>9, <2>1 DEF TypeOK, stray, TaskType, LaneType, WatchType
<1>12. QueuedWillBePrepared' /\ \E n \in Nat : \A b \in Batches : rows'[b].at <= n
  BY <1>2 DEF QueuedWillBePrepared, OrderKept
<1>13. DataStep
  BY <1>2, <1>4, <1>10, <1>12, SameEvents, SameStep DEF DataStep, stray
<1>14. \A c \in Batches : Held(c) => Held(c)'
  BY <1>9, Typed DEF Held, Lane
<1>15. \A c \in Batches : Engaged(c)' <=> Engaged(c)
  BY <1>2 DEF Engaged, Tidy, stray
<1>16. \A c \in after' : c \in after /\ c.b \in Batches
  BY <1>4, Typed DEF TaskType
<1>17. \A c \in Batches : Resumed(c)' => Resumed(c)
  <2> SUFFICES ASSUME NEW c \in Batches, Resumed(c)'
               PROVE  Resumed(c)
    OBVIOUS
  <2> Tidy(c)
    BY <1>2 DEF Resumed, Tidy, stray
  <2>1. CASE Lane(c)'.current = c
    BY <1>9, <2>1, Typed DEF Lane, Resumed
  <2>2. CASE rows'[c].status = "submitted" \/ rec'.b = c \/ watch'[c].pc # "off"
    BY <1>2, <1>4, <2>2 DEF Resumed
  <2>3. CASE \E d \in after' : d.k = "processed" /\ d.b = c
    BY <1>4, <2>3 DEF Resumed
  <2> QED
    BY <2>1, <2>2, <2>3 DEF Resumed
<1>18. LanesHeld'
  <2>1. \A c, d \in Batches : c # d /\ MarketOf[c] = MarketOf[d] => ~(Engaged(c)' /\ Engaged(d)')
    BY <1>15 DEF LanesHeld
  <2>2. \A c \in Batches : sub'[c].pc = "load" => rows'[c].status = "prepared"
    BY <1>2 DEF LanesHeld
  <2>3. phase' = "up" => /\ \A c \in Batches : Engaged(c)' => Held(c)'
                         /\ \A c \in after' : c.k = "processed" /\ Tidy(c.b)' => Held(c.b)'
    BY <1>2, <1>14, <1>15, <1>16 DEF LanesHeld, Tidy, stray
  <2>4. ASSUME phase' = "recover"
        PROVE  /\ \A b, c \in Batches : MarketOf[b] = MarketOf[c] /\ Resumed(b)' /\ Resumed(c)' => b = c
               /\ \A b \in Batches : Reached(b)' => Held(b)'
               /\ \A c \in after' : c.k = "processed" /\ c.by # "rec" /\ Tidy(c.b)' => Held(c.b)'
    <3>1. phase = "recover" /\ rows' = rows
      BY <1>2, <2>4
    <3>2. \A b \in Batches : (Tidy(b)' <=> Tidy(b)) /\ (Reached(b)' => Reached(b))
      BY <1>2, <1>4 DEF Reached, Tidy, stray
    <3> QED
      BY <1>4, <1>14, <1>16, <1>17, <3>1, <3>2 DEF LanesHeld
  <2> QED
    BY <2>1, <2>2, <2>3, <2>4 DEF LanesHeld
<1>19. FailureHeld'
  <2> SUFFICES ASSUME NEW b \in Batches, rows[b].status = "failed", ~Lane(b)'.paused
               PROVE  \E c \in after' : c.b = b /\ c.k \in {"failed", "pause"}
    BY <1>2 DEF FailureHeld
  <2>1. MarketOf[b] \in Markets /\ MarketOf[b] # m
    BY <1>9, Typed DEF Lane
  <2>2. ~Lane(b).paused /\ b # a.b
    BY <1>9, <2>1 DEF Lane
  <2> QED
    BY <1>1, <1>4, <2>2 DEF FailureHeld
<1>20. DownHoldsNothing'
  BY <1>1, <1>2 DEF DownHoldsNothing
<1> QED
  BY <1>11, <1>13, <1>18, <1>19, <1>20, AssembleKeeps

-----------------------------------------------------------------------------
(* runTerminalPoller and the reconciler *)

LEMMA PollTerminalKeeps ==
  ASSUME SettlementInv, NEW b \in Batches, PollTerminal(b)
  PROVE  SettlementInv'
<1> USE DEF SettlementInv
<1> DEFINE g == rows[b].sig
<1>1. /\ UNCHANGED <<size, stray, msgs, accounts, phase, lane, ing, sub, watch, rec, height, published, faults>>
      /\ phase = "up" /\ rows[b].status = "processed"
  BY DEF PollTerminal, ListProcessed
<1>2. UNCHANGED <<size, stray, msgs, accounts, phase, lanes, prepDirty, registry, ing, sub, watch, rec, height,
                  published, faults>>
  BY <1>1 DEF lane
<1>3. g \in Heights
  BY <1>1 DEF RowsShaped
<1>4. RowMoved(b, "poller") /\ ChainStep /\ \A a \in after' : a \in after \/ a.k # "processed"
  <2>1. CASE failSubmission(b, g, "poller", "pause") /\ UNCHANGED chain
    <3>1. \A a \in after' : a \in after \/ a.k # "processed"
      BY <2>1 DEF failSubmission, Task
    <3> QED
      BY <2>1, <3>1, FailSubmissionMoves, SameStep DEF Who, LaneEnd
  <2>2. CASE /\ chain[b][g] = "ok" /\ chain' = [chain EXCEPT ![b][g] = "okFinal"]
             /\ rows' = MarkConfirmedCAS(b, g)
             /\ after' = after \cup {Task(b, "confirmed", "poller", "pause")}
    <3>1. rows' = [rows EXCEPT ![b].status = "confirmed"] /\ "confirmed" \in Statuses
      BY <1>1, <2>2 DEF MarkConfirmedCAS, Statuses
    <3>2. /\ rows' \in [Batches -> SubmissionRecord]
          /\ \A c \in Batches : c # b => rows'[c] = rows[c]
          /\ rows'[b].status = "confirmed" /\ rows'[b].lane = rows[b].lane /\ rows'[b].sig = rows[b].sig
          /\ rows'[b].at = rows[b].at /\ rows'[b].warm = rows[b].warm
      BY <3>1, SetStatusDoes
    <3>3. chain \in [Batches -> [Heights -> ChainState]]
      BY Typed
    <3>4. /\ chain' \in [Batches -> [Heights -> ChainState]]
          /\ \A c \in Batches, h \in Heights :
               chain'[c][h] = IF c = b /\ h = g THEN "okFinal" ELSE chain[c][h]
      BY <1>3, <2>2, <3>3 DEF ChainState
    <3>5. ChainStep
      BY <2>2, <3>4 DEF ChainStep
    <3>6. Confirmed(b)
      BY <1>1, <1>3, <3>2, <3>4 DEF Confirmed, Moved
    <3>7. RowsStep
      BY <3>2, <3>6 DEF RowsStep, RowStep, RowKept, Kept
    <3> DEFINE new == Task(b, "confirmed", "poller", "pause")
    <3>8. new \in TaskType /\ new.b = b /\ new.k = "confirmed" /\ new.by = "poller"
      BY TaskFields DEF LaneEnd, Who
    <3>9. after' = after \cup {new}
      BY <2>2
    <3> HIDE DEF new
    <3>10. TasksStep
      BY <3>6, <3>8, <3>9, Typed DEF TasksStep
    <3>11. FailuresStep
      <4>1. \A c \in Batches : ~FailedRow(c)
        BY <3>2 DEF FailedRow
      <4> QED
        BY <3>9, <4>1 DEF FailuresStep
    <3> QED
      BY <3>2, <3>5, <3>7, <3>8, <3>9, <3>10, <3>11 DEF RowMoved
  <2> QED
    BY <2>1, <2>2 DEF PollTerminal
<1>5. TypeOK'
  <2>1. rows' \in [Batches -> SubmissionRecord] /\ after' \in SUBSET TaskType
    BY <1>4 DEF RowMoved, RowsStep, TasksStep
  <2> QED
    BY <1>2, <1>4, <2>1 DEF TypeOK, stray, TaskType, ChainStep, ChainState
<1>6. \A c \in Batches : sub'[c].pc = "load" => sub[c].pc = "load" /\ rows'[c].status = "prepared"
  BY <1>1, <1>2, <1>4 DEF LanesHeld, RowMoved
<1> QED
  BY <1>1, <1>2, <1>4, <1>5, <1>6, SameEvents, SameStep, WorkKeeps, SameLoop DEF RowMoved

LEMMA RepublishKeeps ==
  ASSUME SettlementInv, NEW b \in Batches, Republish(b)
  PROVE  SettlementInv'
<1> USE DEF SettlementInv
<1>1. /\ UNCHANGED <<size, stray, msgs, accounts, phase, lane, procs, height, chain, faults>> /\ phase # "down"
      /\ rows' = MarkSubmittedEventPublished(b) \/ rows' = MarkTerminalEventPublished(b)
      /\ \/ published' = published
         \/ /\ rows[b].status \in {"confirmed", "failed"}
            /\ published' = published \cup {Event(rows[b].status, b)}
  BY DEF Republish, ListUnpublishedTerminal
<1>2. UNCHANGED <<size, stray, msgs, accounts, phase, lanes, prepDirty, registry, ing, sub, watch, rec, after,
                  height, chain, faults>>
  BY <1>1 DEF lane, procs
<1>3. /\ RowsStep /\ \A c \in Batches : Kept(rows'[c], rows[c])
      /\ \A c \in Batches : ~FailedRow(c)
  BY <1>1, MarkMoves
<1>4. EventsStep
  BY <1>1 DEF EventsStep
<1>5. published' \in SUBSET EventType
  <2>1. rows[b].status \in {"confirmed", "failed"} => Event(rows[b].status, b) \in EventType
    BY RowTypes DEF Event, EventType
  <2> QED
    BY <1>1, <2>1, Typed
<1>6. TasksStep /\ FailuresStep
  BY <1>2, <1>3, SameTasksStep DEF FailuresStep
<1>7. TypeOK'
  <2>1. rows' \in [Batches -> SubmissionRecord]
    BY <1>3 DEF RowsStep
  <2> QED
    BY <1>2, <1>5, <2>1 DEF TypeOK, stray, EventType
<1>8. LanesSame
  BY <1>2, <1>3, SameLanes DEF Kept
<1> QED
  BY <1>1, <1>2, <1>3, <1>4, <1>6, <1>7, <1>8, SameEvents, SameStep, WorkKeeps DEF LanesSame, Kept

LEMMA ReconcileForwardKeeps ==
  ASSUME SettlementInv, NEW b \in Batches, ReconcileForward(b)
  PROVE  SettlementInv'
<1> USE DEF SettlementInv
<1>1. /\ UNCHANGED <<size, msgs, accounts, phase, lane, ing, sub, watch, rec, world>>
      /\ phase # "down" /\ rec = NoTask /\ (Fault \/ UNCHANGED faults)
      /\ tried' = tried \/ tried' = tried \cup {b}
      /\ strayed' = strayed \/ strayed' = strayed \cup {MarketOf[b]}
  BY DEF ReconcileForward, TriedOnce
<1>2. UNCHANGED <<size, msgs, accounts, phase, lanes, prepDirty, registry, ing, sub, watch, rec,
                  height, chain, published>>
  BY <1>1 DEF lane, world
<1>3. RowMoved(b, "rec") /\ (rows[b].status = "prepared" => rows'[b].status = "prepared")
  <2>1. CASE settleObserved(b, rows[b].sig, "rec")
    BY <2>1, SettleMoves DEF Who
  <2>2. CASE rows' = rows /\ after' = after
    BY <2>2, NothingMoved
  <2> QED
    BY <2>1, <2>2 DEF ReconcileForward
<1>4. TypeOK'
  <2>1. rows' \in [Batches -> SubmissionRecord] /\ after' \in SUBSET TaskType
    BY <1>3 DEF RowMoved, RowsStep, TasksStep
  <2>2. tried' \subseteq Batches /\ strayed' \subseteq Markets
    BY <1>1, Typed DEF TypeOK
  <2> QED
    BY <1>1, <1>2, <2>1, <2>2, FaultType DEF TypeOK, TaskType
<1>5. \A c \in Batches : sub'[c].pc = "load" => sub[c].pc = "load" /\ rows'[c].status = "prepared"
  BY <1>2, <1>3 DEF LanesHeld, RowMoved
<1>6. \A a \in after' : a \notin after => a.by = "rec"
  BY <1>3 DEF RowMoved
<1>7. LoopStep
  <2>1. strayed \subseteq strayed' /\ rows[b].status = "submitted"
    BY <1>1 DEF ReconcileForward, ListSubmitted
  <2>2. ASSUME NEW c \in Batches, Reached(c)', ~Reached(c), watch'[c].pc = "off", rows[c].status = "submitted"
        PROVE  FALSE
    <3>1. Tidy(c) /\ c \in tried' /\ rec.b # c /\ rows'[c].status = "submitted"
      BY <1>2, <2>1, <2>2 DEF Reached, Tidy
    <3>2. c = b /\ tried' # tried
      BY <1>1, <2>2, <3>1 DEF Reached
    <3>3. phase = "recover"
      BY <3>2 DEF ReconcileForward, TriedOnce
    <3>4. ~settleObserved(b, rows[b].sig, "rec")
      BY <2>1, <3>1, <3>2, SettleEnds DEF Who
    <3>5. MarketOf[b] \in strayed'
      BY <3>3, <3>4 DEF ReconcileForward
    <3> QED
      BY <2>2, <3>2, <3>5 DEF Reached, Tidy
  <2> QED
    BY <2>1, <2>2 DEF LoopStep
<1> QED
  BY <1>1, <1>2, <1>3, <1>4, <1>5, <1>6, <1>7, SameEvents, SameStep, WorkKeeps DEF RowMoved

LEMMA ReconcileMissKeeps ==
  ASSUME SettlementInv, NEW b \in Batches, ReconcileMiss(b)
  PROVE  SettlementInv'
<1> USE DEF SettlementInv
<1> DEFINE new == [b |-> b, sig |-> rows[b].sig]
<1>1. /\ UNCHANGED <<size, db, phase, lane, ing, sub, watch, after, world, faults, strayed>>
      /\ phase # "down" /\ rows[b].status = "submitted" /\ rec = NoTask /\ rec' = new
      /\ tried' = tried \/ tried' = tried \cup {b}
  BY DEF ReconcileMiss, ListSubmitted, TriedOnce
<1>2. UNCHANGED <<size, msgs, rows, accounts, phase, lanes, prepDirty, registry, ing, sub, watch, after,
                  height, chain, published, faults, strayed>>
  BY <1>1 DEF db, lane, world
<1>3. rows[b].sig \in Heights /\ rows[b].sig \in 0..MaxHeight
  BY <1>1, RowTypes DEF RowsShaped
<1>4. new \in RecType /\ new.b = b /\ new.sig = rows[b].sig
  BY <1>3 DEF RecType
<1> HIDE DEF new
<1>5. TypeOK'
  BY <1>1, <1>2, <1>4 DEF TypeOK, RecType
<1>6. RecStep
  BY <1>1, <1>2, <1>3, <1>4 DEF RecStep, Sourced
<1>7. \A c \in Batches : sub'[c].pc = "load" => sub[c].pc = "load" /\ rows'[c].status = "prepared"
  BY <1>2 DEF LanesHeld
<1>8. rec'.b # NoBatch
  BY <1>1, <1>4, SettlementAssumption
<1>9. LoopStep
  BY <1>1, <1>2, <1>4, IdleTypes, SettlementAssumption DEF LoopStep, Reached, Tidy
<1> QED
  BY <1>1, <1>2, <1>4, <1>5, <1>6, <1>7, <1>8, <1>9, SameEvents, SameStep, QuietStep, WorkKeeps

LEMMA ReconcileResumeKeeps ==
  ASSUME SettlementInv, ReconcileResume
  PROVE  SettlementInv'
<1> USE DEF SettlementInv
<1> DEFINE b == rec.b
           m == MarketOf[b]
<1>1. /\ UNCHANGED <<size, stray, db, phase, prepDirty, registry, ing, sub, after, world, faults>>
      /\ rec # NoTask /\ rec' = NoTask /\ phase # "down" /\ watch' = startWatchTask(b, rec.sig)
      /\ lanes' = IF lanes[m].current = NoBatch \/ phase = "recover"
                  THEN [lanes EXCEPT ![m].current = b] ELSE lanes
  BY Running DEF ReconcileResume
<1>2. UNCHANGED <<size, stray, msgs, rows, accounts, phase, prepDirty, registry, ing, sub, after,
                  height, chain, published, faults>>
  BY <1>1 DEF db, world
<1>3. b # NoBatch /\ b \in Batches /\ m \in Markets
  BY <1>1, Typed DEF DownHoldsNothing, RecType
<1>4. Sourced(b, rec.sig)
  BY <1>3 DEF SignaturesKnown, Sourced, Known
<1>5. /\ watch' \in [Batches -> WatchType] /\ WatchStep
      /\ \A c \in Batches : watch'[c].pc # "off" => watch[c].pc # "off" \/ c = b
  BY <1>1, <1>3, <1>4, StartWatchDoes
<1> HIDE DEF b
<1>6. /\ lanes' \in [Markets -> LaneType]
      /\ lanes'[m].current = b \/ (lanes'[m].current = lanes[m].current /\ phase # "recover" /\ lanes[m].current # NoBatch)
      /\ lanes[m].current # NoBatch => lanes'[m].current = lanes[m].current \/ phase = "recover"
      /\ lanes'[m].paused <=> lanes[m].paused
      /\ \A n \in Markets : n # m => lanes'[n] = lanes[n]
  <2>1. CASE lanes' = lanes /\ phase # "recover" /\ lanes[m].current # NoBatch
    BY <1>3, <2>1, Typed
  <2>2. CASE lanes' = [lanes EXCEPT ![m].current = b] /\ (lanes[m].current = NoBatch \/ phase = "recover")
    <3>1. b \in Batches \cup {NoBatch}
      BY <1>3
    <3> QED
      BY <1>3, <2>2, <3>1, SetCurrent
  <2> QED
    BY <1>1, <2>1, <2>2
<1>7. RowsStep /\ TasksStep /\ FailuresStep /\ \E n \in Nat : \A c \in Batches : rows'[c].at <= n
  BY <1>2, QuietStep
<1>8. rec' \in RecType /\ rec'.b = NoBatch
  BY <1>1, IdleTypes
<1>9. TypeOK'
  BY <1>2, <1>5, <1>6, <1>8 DEF TypeOK, stray, RecType, LaneType, WatchType
<1>10. QueuedWillBePrepared' /\ RecStep
  BY <1>2, <1>8 DEF QueuedWillBePrepared, RecStep
<1>11. DataStep
  BY <1>2, <1>5, <1>7, <1>10, SameEvents, SameStep DEF DataStep, stray
<1>12. \A c \in Batches : Engaged(c)' <=> Engaged(c)
  BY <1>2 DEF Engaged, Tidy, stray
<1>13. \A c \in after : c.b \in Batches
  BY Typed DEF TaskType
<1>14. LanesHeld'
  <2>1. \A c, d \in Batches : c # d /\ MarketOf[c] = MarketOf[d] => ~(Engaged(c)' /\ Engaged(d)')
    BY <1>12 DEF LanesHeld
  <2>2. \A c \in Batches : sub'[c].pc = "load" => rows'[c].status = "prepared"
    BY <1>2 DEF LanesHeld
  <2>3. ASSUME phase' = "up"
        PROVE  /\ \A c \in Batches : Engaged(c)' => Held(c)'
               /\ \A c \in after' : c.k = "processed" /\ Tidy(c.b)' => Held(c.b)'
    <3>1. phase = "up"
      BY <1>2, <2>3
    <3>2. \A c \in Batches : Held(c) => Held(c)'
      BY <1>6, <3>1, Typed DEF Held, Lane
    <3> QED
      BY <1>2, <1>12, <1>13, <3>1, <3>2 DEF LanesHeld, Tidy, stray
  <2>4. ASSUME phase' = "recover"
        PROVE  /\ \A c, d \in Batches : MarketOf[c] = MarketOf[d] /\ Resumed(c)' /\ Resumed(d)' => c = d
               /\ \A c \in Batches : Reached(c)' => Held(c)'
               /\ \A c \in after' : c.k = "processed" /\ c.by # "rec" /\ Tidy(c.b)' => Held(c.b)'
    <3>1. phase = "recover" /\ lanes'[m].current = b /\ (Tidy(b) => Resumed(b))
      BY <1>2, <1>6, <2>4 DEF Resumed, b
    <3>7. \A c \in Batches : Tidy(c)' <=> Tidy(c)
      BY <1>2 DEF Tidy, stray
    <3>8. \A c \in Batches : Resumed(c) /\ MarketOf[c] = m => Resumed(b)
      BY <3>1 DEF Resumed, Tidy
    <3>2. \A c \in Batches : Resumed(c)' => Resumed(c)
      <4> SUFFICES ASSUME NEW c \in Batches, Resumed(c)'
                   PROVE  Resumed(c)
        OBVIOUS
      <4> Tidy(c)
        BY <3>7 DEF Resumed
      <4>1. CASE Lane(c)'.current = c
        <5>1. CASE MarketOf[c] = m
          BY <3>1, <3>7, <4>1, <5>1 DEF Lane, Resumed
        <5>2. CASE MarketOf[c] # m
          BY <1>6, <4>1, <5>2, Typed DEF Lane, Resumed
        <5> QED
          BY <5>1, <5>2
      <4>2. CASE rows'[c].status = "submitted" \/ rec'.b = c
        BY <1>2, <1>8, <4>2, SettlementAssumption DEF Resumed
      <4>3. CASE watch'[c].pc # "off"
        BY <1>5, <3>1, <3>7, <4>3 DEF Resumed
      <4>4. CASE \E d \in after' : d.k = "processed" /\ d.b = c
        BY <1>2, <4>4 DEF Resumed
      <4> QED
        BY <4>1, <4>2, <4>3, <4>4 DEF Resumed
    <3>3. \A c \in Batches : c = b => Held(c)'
      BY <3>1 DEF Held, Lane
    <3>4. \A c \in Batches : Resumed(c) /\ Held(c) => Held(c)'
      <4> SUFFICES ASSUME NEW c \in Batches, Resumed(c), Held(c)
                   PROVE  Held(c)'
        OBVIOUS
      <4>1. CASE MarketOf[c] = m
        BY <1>3, <3>1, <3>3, <3>8, <4>1 DEF LanesHeld
      <4>2. CASE MarketOf[c] # m
        BY <1>6, <4>2, Typed DEF Lane, Held
      <4> QED
        BY <4>1, <4>2
    <3>5. \A c \in Batches : Reached(c)' => Held(c)'
      <4> SUFFICES ASSUME NEW c \in Batches, Reached(c)', c # b
                   PROVE  Held(c)'
        BY <3>3
      <4>1. Reached(c)
        BY <1>2, <1>5, <3>7 DEF Reached, b, stray
      <4> QED
        BY <3>1, <3>4, <4>1 DEF LanesHeld, Resumed, Reached
    <3>6. \A c \in after' : c.k = "processed" /\ c.by # "rec" /\ Tidy(c.b)' => Held(c.b)'
      <4> SUFFICES ASSUME NEW c \in after, c.k = "processed", c.by # "rec", Tidy(c.b)
                   PROVE  Held(c.b)'
        BY <1>2, <1>13, <3>7
      <4>1. c.b \in Batches /\ Resumed(c.b) /\ Held(c.b)
        BY <1>13, <3>1 DEF Resumed, LanesHeld
      <4> QED
        BY <3>4, <4>1
    <3> QED
      BY <3>1, <3>2, <3>5, <3>6 DEF LanesHeld
  <2> QED
    BY <2>1, <2>2, <2>3, <2>4 DEF LanesHeld
<1>15. FailureHeld'
  <2>1. \A n \in Markets : lanes[n].paused => lanes'[n].paused
    BY <1>6
  <2> QED
    BY <1>1, <1>7, <2>1, FailureKept
<1>16. DownHoldsNothing'
  BY <1>1, <1>2 DEF DownHoldsNothing
<1> QED
  BY <1>9, <1>11, <1>14, <1>15, <1>16, AssembleKeeps

LEMMA RecoverDoneKeeps ==
  ASSUME SettlementInv, RecoverDone
  PROVE  SettlementInv'
<1> USE DEF SettlementInv
<1>1. /\ UNCHANGED <<size, db, lanes, registry, procs, world, faults, strayed>>
      /\ phase = "recover" /\ phase' = "up" /\ ~Busy("rec") /\ prepDirty' = ListQueuedMarketIDs
      /\ \A b \in Batches : rows[b].status = "submitted" => b \in tried
      /\ rec = NoTask /\ tried' = {}
  BY DEF RecoverDone, ListSubmitted
<1>2. UNCHANGED <<size, msgs, rows, accounts, lanes, registry, ing, sub, watch, rec, after,
                  height, chain, published, faults, strayed>>
  BY <1>1 DEF db, procs, world
<1>3. RowsStep /\ TasksStep /\ FailuresStep /\ \E n \in Nat : \A c \in Batches : rows'[c].at <= n
  BY <1>2, QuietStep
<1>4. prepDirty' \subseteq Markets /\ QueuedWillBePrepared'
  <2>1. \A c \in Batches : rows[c].status = "queued" /\ rows[c].lane = "active" => MarketOf[c] \in prepDirty'
    BY <1>1 DEF ListQueuedMarketIDs
  <2>2. prepDirty' \subseteq Markets
    BY <1>1, Typed DEF ListQueuedMarketIDs
  <2> QED
    BY <1>2, <2>1, <2>2 DEF QueuedWillBePrepared
<1>5. TypeOK'
  BY <1>1, <1>2, <1>4 DEF TypeOK, stray
<1>6. DataStep
  BY <1>2, <1>3, <1>4, SameEvents, SameStep DEF DataStep, stray
<1>7. \A c \in Batches : (Engaged(c)' <=> Engaged(c)) /\ (Held(c)' <=> Held(c))
  BY <1>2 DEF Engaged, Held, Lane, Tidy
<1>8. \A c \in Batches : sub[c].pc = "off"
  BY <1>1 DEF DownHoldsNothing, Idle
<1>9. LanesHeld'
  <2>1. \A c \in Batches : Engaged(c)' => Held(c)'
    <3>1. \A c \in Batches : Engaged(c) => Reached(c)
      BY <1>1, <1>8, IdleTypes, SettlementAssumption DEF Engaged, Reached
    <3> QED
      BY <1>1, <1>7, <3>1 DEF LanesHeld
  <2>2. \A c \in after' : c.k = "processed" /\ Tidy(c.b)' => Held(c.b)'
    <3>1. \A c \in after : c.by # "rec" /\ c.b \in Batches
      BY <1>1, Typed DEF Busy, TaskType
    <3> QED
      BY <1>1, <1>2, <1>7, <3>1 DEF LanesHeld, Tidy
  <2>3. phase' # "recover"
    BY <1>1
  <2>4. \A c, d \in Batches : c # d /\ MarketOf[c] = MarketOf[d] => ~(Engaged(c)' /\ Engaged(d)')
    BY <1>7 DEF LanesHeld
  <2>5. \A c \in Batches : sub'[c].pc = "load" => rows'[c].status = "prepared"
    BY <1>2 DEF LanesHeld
  <2> QED
    BY <2>1, <2>2, <2>3, <2>4, <2>5 DEF LanesHeld
<1>10. FailureHeld'
  BY <1>1, <1>2, <1>3, FailureKept
<1>11. DownHoldsNothing'
  BY <1>1, <1>2 DEF DownHoldsNothing
<1> QED
  BY <1>5, <1>6, <1>9, <1>10, <1>11, AssembleKeeps

-----------------------------------------------------------------------------
(* Crash and restart *)

NoLane == [paused |-> FALSE, current |-> NoBatch]

\* A lane nobody holds.
LEMMA NoLaneType == NoLane \in LaneType
BY DEF NoLane, LaneType

LEMMA CrashKeeps ==
  ASSUME SettlementInv, Crash
  PROVE  SettlementInv'
<1> USE DEF SettlementInv
<1>1. /\ UNCHANGED <<size, db, world, strayed>> /\ Fault /\ phase' = "down" /\ tried' = {}
      /\ lanes' = [m \in Markets |-> NoLane] /\ prepDirty' = {} /\ registry' = {} /\ ing' = {}
      /\ sub' = [b \in Batches |-> Idle] /\ watch' = [b \in Batches |-> Idle]
      /\ rec' = NoTask /\ after' = {}
  BY DEF Crash, NoLane
<1>2. UNCHANGED <<size, msgs, rows, accounts, height, chain, published, strayed>>
  BY <1>1 DEF db, world
<1>3. RowsStep /\ TasksStep /\ \E n \in Nat : \A c \in Batches : rows'[c].at <= n
  BY <1>1, <1>2, SameRowsStep, SameTasksStep DEF OrderKept
<1>4. /\ lanes' \in [Markets -> LaneType] /\ sub' \in [Batches -> SubType]
      /\ watch' \in [Batches -> WatchType] /\ rec' \in RecType
  BY <1>1, IdleTypes, NoLaneType
<1>5. TypeOK'
  BY <1>1, <1>2, <1>4, FaultType DEF TypeOK, stray, LaneType, SubType, WatchType, RecType
<1>6. \A b \in Batches : sub'[b].pc = "off" /\ watch'[b].pc = "off"
  BY <1>1, IdleTypes
<1>7. WatchStep /\ SubStep /\ LoadStep /\ RecStep
  BY <1>1, <1>6, IdleTypes DEF WatchStep, SubStep, LoadStep, RecStep
<1>8. FetchedOnce' /\ QueuedWillBePrepared' /\ RegistryStep
  BY <1>1, <1>2 DEF FetchedOnce, QueuedWillBePrepared, RegistryStep
<1>9. DataStep
  BY <1>2, <1>3, <1>7, <1>8, SameEvents, SameStep DEF DataStep, stray
<1>10. LanesHeld'
  <2>1. \A c \in Batches : Engaged(c)' => Engaged(c)
    BY <1>2, <1>6 DEF Engaged, Tidy, stray
  <2>2. \A c, d \in Batches : c # d /\ MarketOf[c] = MarketOf[d] => ~(Engaged(c)' /\ Engaged(d)')
    BY <2>1 DEF LanesHeld
  <2>3. \A c \in Batches : sub'[c].pc = "load" => rows'[c].status = "prepared"
    BY <1>6
  <2> QED
    BY <1>1, <2>2, <2>3 DEF LanesHeld
<1>11. FailureHeld' /\ DownHoldsNothing'
  BY <1>1 DEF FailureHeld, DownHoldsNothing, NoLane
<1> QED
  BY <1>5, <1>9, <1>10, <1>11, AssembleKeeps

LEMMA RestartKeeps ==
  ASSUME SettlementInv, Restart
  PROVE  SettlementInv'
<1> USE DEF SettlementInv
<1> DEFINE l(m) == [paused |-> m \in ListPausedMarketIDs, current |-> NoBatch]
<1>1. /\ UNCHANGED <<size, stray, msgs, rows, prepDirty, procs, world, faults>>
      /\ phase = "down" /\ phase' = "recover" /\ lanes' = [m \in Markets |-> l(m)]
      /\ registry' = accounts \cup ListProcessed /\ accounts' = accounts \cup ListProcessed
  BY DEF Restart
<1>2. UNCHANGED <<size, stray, msgs, rows, prepDirty, ing, sub, watch, rec, after, height, chain, published, faults>>
  BY <1>1 DEF procs, world
<1>3. /\ watch = [b \in Batches |-> Idle] /\ sub = [b \in Batches |-> Idle]
      /\ ing = {} /\ rec = NoTask /\ after = {} /\ tried = {}
  BY <1>1 DEF DownHoldsNothing
<1>4. RowsStep /\ TasksStep /\ FailuresStep /\ \E n \in Nat : \A c \in Batches : rows'[c].at <= n
  BY <1>2, QuietStep
<1>5. \A m \in Markets : l(m) \in LaneType
  BY DEF LaneType
<1>6. \A m \in Markets : l(m).current = NoBatch /\ (m \in ListPausedMarketIDs => l(m).paused)
  OBVIOUS
<1> HIDE DEF l
<1>7. /\ lanes' \in [Markets -> LaneType]
      /\ \A m \in Markets : lanes'[m].current = NoBatch /\ (m \in ListPausedMarketIDs => lanes'[m].paused)
  BY <1>1, <1>5, <1>6
<1>8. \A b \in ListProcessed : b \in Batches /\ Done(b)
  <2>1. \A h \in Heights : h # 0
    BY SettlementAssumption DEF Heights
  <2> QED
    BY <2>1 DEF ListProcessed, Done, RowsShaped
<1>9. TypeOK'
  BY <1>1, <1>2, <1>7, <1>8 DEF TypeOK, stray, LaneType
<1>10. RegistryStep /\ QueuedWillBePrepared'
  BY <1>1, <1>8 DEF RegistryStep, QueuedWillBePrepared
<1>11. DataStep
  BY <1>2, <1>4, <1>10, SameEvents, SameStep DEF DataStep, stray
<1>12. LanesHeld'
  <2>1. \A c \in Batches : Engaged(c)' <=> Engaged(c)
    BY <1>2 DEF Engaged, Tidy, stray
  <2>2. \A c \in Batches : Resumed(c)' => Engaged(c)
    <3> SUFFICES ASSUME NEW c \in Batches, Resumed(c)', rows[c].status # "submitted"
                 PROVE  FALSE
      BY <1>2 DEF Engaged, Resumed, Tidy, stray
    <3>1. ~(rec'.b = c) /\ ~(watch'[c].pc # "off") /\ after' = {}
      BY <1>2, <1>3, IdleTypes, SettlementAssumption
    <3>2. ~(Lane(c)'.current = c)
      BY <1>7, Typed, SettlementAssumption DEF Lane
    <3> QED
      BY <1>2, <3>1, <3>2 DEF Resumed
  <2>3. \A c, d \in Batches : c # d /\ MarketOf[c] = MarketOf[d] => ~(Engaged(c)' /\ Engaged(d)')
    BY <2>1 DEF LanesHeld
  <2>4. \A c \in Batches : sub'[c].pc = "load" => rows'[c].status = "prepared"
    BY <1>2 DEF LanesHeld
  <2>5. \A c, d \in Batches : MarketOf[c] = MarketOf[d] /\ Resumed(c)' /\ Resumed(d)' => c = d
    BY <2>2 DEF LanesHeld
  <2>6. /\ \A c \in Batches : Reached(c)' => Held(c)'
        /\ \A c \in after' : c.k = "processed" /\ c.by # "rec" /\ Tidy(c.b)' => Held(c.b)'
    BY <1>2, <1>3, IdleTypes DEF Reached, stray
  <2> QED
    BY <1>1, <2>3, <2>4, <2>5, <2>6 DEF LanesHeld
<1>13. FailureHeld'
  <2> SUFFICES ASSUME NEW b \in Batches, rows[b].status = "failed"
               PROVE  Lane(b)'.paused
    BY <1>2 DEF FailureHeld
  <2>1. MarketOf[b] \in ListPausedMarketIDs
    BY DEF ListPausedMarketIDs, RowsShaped
  <2> QED
    BY <1>7, <2>1, Typed DEF Lane
<1>14. DownHoldsNothing'
  BY <1>1, <1>2, <1>3 DEF DownHoldsNothing
<1> QED
  BY <1>9, <1>11, <1>12, <1>13, <1>14, AssembleKeeps

-----------------------------------------------------------------------------
(* The cluster, and steps that change nothing *)

LEMMA WorldKeeps ==
  ASSUME SettlementInv, UNCHANGED <<size, stray, db, phase, lane, procs, published>>, ChainStep,
         height' \in Heights, height' >= height, faults' \in 0..MaxFaults
  PROVE  SettlementInv'
<1> USE DEF SettlementInv
<1>1. UNCHANGED <<size, stray, msgs, rows, accounts, phase, lanes, prepDirty, registry, ing, sub, watch, rec, after,
                  published>>
  BY DEF db, lane, procs
<1>2. RowsStep /\ TasksStep /\ FailuresStep /\ \E n \in Nat : \A c \in Batches : rows'[c].at <= n
  BY <1>1, QuietStep
<1>3. TypeOK'
  BY <1>1 DEF TypeOK, stray, ChainStep, ChainState
<1>4. QueuedWillBePrepared' /\ FetchedOnce'
  BY <1>1 DEF QueuedWillBePrepared, FetchedOnce
<1>5. DataStep
  BY <1>1, <1>2, <1>4, SameEvents, SameStep DEF DataStep, stray
<1>6. LanesHeld'
  BY <1>1 DEF LanesHeld, Engaged, Held, Lane, Resumed, Reached, Tidy, stray
<1>7. FailureHeld' /\ DownHoldsNothing'
  BY <1>1 DEF FailureHeld, DownHoldsNothing, Lane, stray
<1> QED
  BY <1>3, <1>5, <1>6, <1>7, AssembleKeeps

LEMMA ClusterKeeps ==
  ASSUME SettlementInv, Cluster
  PROVE  SettlementInv'
<1> USE DEF SettlementInv
<1>1. height \in Heights /\ height \in Nat /\ MaxHeight \in Nat /\ faults \in 0..MaxFaults
  BY Typed, SettlementAssumption DEF Heights
<1>2. CASE BlockProduced
  <2>1. UNCHANGED <<size, stray, db, phase, lane, procs, chain, published, faults>> /\ height < MaxHeight
        /\ height' = height + 1
    BY <1>2 DEF BlockProduced
  <2>2. height' \in Heights /\ height' >= height
    BY <1>1, <2>1 DEF Heights
  <2> QED
    BY <1>1, <2>1, <2>2, SameStep, WorldKeeps
<1>3. ASSUME NEW b \in Batches, NEW h \in Heights, Execute(b, h) \/ Fork(b, h)
      PROVE  SettlementInv'
  <2>1. PICK r \in ChainState : /\ chain' = [chain EXCEPT ![b][h] = r] /\ chain[b][h] \in {"sent", "ok", "err"}
                                /\ UNCHANGED <<size, stray, db, phase, lane, procs, height, published>>
                                /\ Fault \/ UNCHANGED faults
    BY <1>3 DEF Execute, Fork, ChainState
  <2>2. chain \in [Batches -> [Heights -> ChainState]]
    BY Typed
  <2>3. /\ chain' \in [Batches -> [Heights -> ChainState]]
        /\ \A c \in Batches, k \in Heights : (c = b /\ k = h) \/ chain'[c][k] = chain[c][k]
    BY <1>3, <2>1, <2>2
  <2>4. ChainStep
    <3>1. chain[b][h] # "okFinal" /\ chain[b][h] # "unsent"
      BY <2>1
    <3> QED
      BY <2>3, <3>1 DEF ChainStep
  <2>5. height' \in Heights /\ height' >= height /\ faults' \in 0..MaxFaults
    BY <1>1, <2>1, FaultType
  <2> QED
    BY <2>1, <2>4, <2>5, WorldKeeps
<1> QED
  BY <1>2, <1>3 DEF Cluster

LEMMA StutterKeeps ==
  ASSUME SettlementInv, UNCHANGED vars
  PROVE  SettlementInv'
<1>1. UNCHANGED <<size, stray, db, phase, lane, procs, published, height, chain, faults>>
  BY DEF vars, world
<1>2. height \in Heights /\ height' >= height /\ faults \in 0..MaxFaults
  BY <1>1, Typed, SameEvents DEF SettlementInv
<1> QED
  BY <1>1, <1>2, SameStep, WorldKeeps

-----------------------------------------------------------------------------
(* The invariant holds *)

\* The invariant holds at first, ...
LEMMA InitSettlementInv == Init => SettlementInv
<1> SUFFICES ASSUME Init PROVE SettlementInv
  OBVIOUS
<1>1. /\ rows = [b \in Batches |-> NoRow] /\ lanes = [m \in Markets |-> NoLane]
      /\ sub = [b \in Batches |-> Idle] /\ watch = [b \in Batches |-> Idle] /\ rec = NoTask
      /\ chain = [b \in Batches |-> [h \in Heights |-> "unsent"]]
      /\ phase = "up" /\ accounts = {} /\ prepDirty = {} /\ registry = {} /\ ing = {} /\ after = {}
      /\ height = 1 /\ published = {} /\ faults = 0 /\ msgs = Batches /\ size \in Sizes
      /\ tried = {} /\ strayed = {}
  BY DEF Init, NoLane
<1>2. NoRow \in SubmissionRecord
  <2>1. 0 \in 0..MaxHeight /\ 0 \in Nat /\ {} \in SUBSET UNION {OrdersOf[b] : b \in Batches}
    BY SettlementAssumption
  <2> QED
    BY <2>1 DEF SubmissionRecord, NoRow, Statuses
<1>3. NoRow.status = "absent" /\ NoRow.lane = "active" /\ NoRow.sig = 0 /\ NoRow.at = 0 /\ NoRow.warm = {}
  BY DEF NoRow
<1>4. \A b \in Batches : /\ rows[b].status = "absent" /\ rows[b].lane = "active" /\ rows[b].sig = 0
                         /\ rows[b].at = 0 /\ rows[b].warm = {}
                         /\ sub[b].pc = "off" /\ watch[b].pc = "off"
  BY <1>1, <1>3, IdleTypes
<1>5. TypeOK
  <2>1. /\ rows \in [Batches -> SubmissionRecord] /\ lanes \in [Markets -> LaneType]
        /\ sub \in [Batches -> SubType] /\ watch \in [Batches -> WatchType] /\ rec \in RecType
    BY <1>1, <1>2, NoLaneType, IdleTypes
  <2>2. chain \in [Batches -> [Heights -> ChainState]]
    BY <1>1 DEF ChainState
  <2>3. height \in Heights /\ faults \in 0..MaxFaults
    BY <1>1, SettlementAssumption DEF Heights
  <2>4. size \in [Batches -> {"fits", "estimated", "wire"}]
    BY <1>1, SettlementAssumption
  <2> QED
    BY <1>1, <2>1, <2>2, <2>3, <2>4 DEF TypeOK, stray, LaneType, SubType, WatchType, RecType, ChainState
<1>6. RowsShaped /\ TasksBacked /\ LanesHeld /\ FailureHeld /\ ConfirmedFinal
  BY <1>1, <1>4 DEF RowsShaped, TasksBacked, LanesHeld, Engaged, FailureHeld, ConfirmedFinal
<1>7. DownHoldsNothing /\ VerdictAgrees /\ RegistryTrue /\ FetchedOnce /\ QueuedWillBePrepared
  BY <1>1, <1>4 DEF DownHoldsNothing, VerdictAgrees, RegistryTrue, FetchedOnce, QueuedWillBePrepared
<1>8. SignaturesKnown
  <2>1. \A b \in Batches, h \in Heights : ~Known(b, h)
    BY <1>1, <1>4, IdleTypes, SettlementAssumption DEF Known
  <2> QED
    BY <1>1, <1>4, <2>1, IdleTypes DEF SignaturesKnown
<1>9. WarmOrdersWereProcessed
  BY <1>4 DEF WarmOrdersWereProcessed
<1>10. OrderKept
  <2>1. 0 \in Nat /\ \A b \in Batches : rows[b].at <= 0
    BY <1>4
  <2> QED
    BY <1>4, <2>1 DEF OrderKept
<1> QED
  BY <1>5, <1>6, <1>7, <1>8, <1>9, <1>10 DEF SettlementInv

\* ... and every step keeps it.
LEMMA NextSettlementInv ==
  ASSUME SettlementInv, [Next]_vars
  PROVE  SettlementInv'
<1>1. CASE Ingress \/ Prepare
  BY <1>1, FetchMessagesKeeps, InsertQueuedKeeps, InsertFailsKeeps, PrepareNothingKeeps,
     PrepareSubmissionKeeps, PrepareTooLargeKeeps DEF Ingress, Prepare
<1>2. ASSUME NEW b \in Batches, ScheduleClaim(b) \/ Submit(b)
      PROVE  SettlementInv'
  BY <1>2, ScheduleClaimKeeps, SubmitMarkKeeps, SubmitTooLargeKeeps, SubmitPublishKeeps,
     SubmitSendKeeps DEF Submit
<1>3. ASSUME NEW b \in Batches, Watch(b)
      PROVE  SettlementInv'
  BY <1>3, WatchObserveKeeps, WatchRebroadcastKeeps, WatchResignKeeps, WatchResendKeeps DEF Watch
<1>4. ASSUME NEW b \in Batches, PollTerminal(b) \/ Republish(b)
      PROVE  SettlementInv'
  BY <1>4, PollTerminalKeeps, RepublishKeeps
<1>5. ASSUME NEW a \in after, Finish(a)
      PROVE  SettlementInv'
  BY <1>5, AfterProcessedKeeps, AfterFailedKeeps, AfterPauseKeeps, AfterConfirmedKeeps DEF Finish
<1>6. CASE Reconcile
  BY <1>6, ReconcileForwardKeeps, ReconcileMissKeeps, ReconcileResumeKeeps, RecoverDoneKeeps DEF Reconcile
<1>7. CASE Crash \/ Restart \/ Cluster
  BY <1>7, CrashKeeps, RestartKeeps, ClusterKeeps
<1>8. CASE UNCHANGED vars
  BY <1>8, StutterKeeps
<1> QED
  BY <1>1, <1>2, <1>3, <1>4, <1>5, <1>6, <1>7, <1>8 DEF Next

\* The inductive invariant: rows, lanes, goroutines, signatures and the cluster agree after any
\* interleaving of the settlement service's goroutines, failed calls, crashes and forks.
THEOREM SettlementInvHolds == Spec => []SettlementInv
<1>1. SettlementInv /\ [Next]_vars => SettlementInv'
  BY NextSettlementInv
<1> QED
  BY InitSettlementInv, <1>1, PTL DEF Spec

\* The market lane of the settlement service: of one market at most one batch is submitted at a
\* time, and a failed batch pauses its market once the failing goroutine is done, also after a
\* restart (tryScheduleMarket, reconcileSubmitted, recoverState, failSubmission).
THEOREM LaneExclusiveHolds == Spec => []LaneExclusive
<1>1. SettlementInv => OneSubmittedPerMarket
  BY DEF SettlementInv, LanesHeld, Engaged, Tidy, OneSubmittedPerMarket
<1>2. SettlementInv => FailedPausesLane
  BY DEF SettlementInv, FailureHeld, Lane, FailedPausesLane
<1>3. SettlementInv => LaneExclusive
  BY <1>1, <1>2 DEF SettlementInv, LaneExclusive
<1> QED
  BY <1>3, SettlementInvHolds, PTL

\* The prepare worker: an order goes without its witness only after a batch with that order
\* reached the chain, and a queued batch of an active lane is never off the worker's list
\* (applyWarmOrderStates, prepareDirtyMarkets, recoverState).
THEOREM PreparedSoundlyHolds == Spec => []PreparedSoundly
<1>1. SettlementInv => PreparedSoundly
  BY DEF SettlementInv, PreparedSoundly
<1> QED
  BY <1>1, SettlementInvHolds, PTL

\* The only transaction of a batch the cluster may still execute is the one its row names:
\* submitMatch stores before it sends and resignSubmission replaces only what has expired.
THEOREM OnlyStoredSignatureLiveHolds == Spec => []OnlyStoredSignatureLive
<1>1. SettlementInv => OnlyStoredSignatureLive
  <2> SUFFICES ASSUME SettlementInv, NEW b \in Batches, NEW h \in Heights,
                      chain[b][h] = "sent", BlockhashValid(h)
               PROVE  rows[b].sig = h
    BY DEF OnlyStoredSignatureLive
  <2>1. Known(b, h)
    BY DEF Known
  <2>2. ~isExpired(h)
    <3>1. height \in Nat /\ h \in Nat /\ Valid \in Nat
      BY Typed, SettlementAssumption DEF SettlementInv, Heights
    <3> QED
      BY <3>1 DEF BlockhashValid, isExpired
  <2> QED
    BY <2>1, <2>2 DEF SettlementInv, SignaturesKnown
<1> QED
  BY <1>1, SettlementInvHolds, PTL

\* What evt.settlement.confirmed and evt.settlement.failed say of a batch is what its row says,
\* and a confirmed one has a finally successful transaction, whatever was published twice or
\* again after a crash (confirmSubmission, failSubmission, republishUnpublishedEvents).
THEOREM VerdictAgreesHolds == Spec => []VerdictAgrees
<1>1. SettlementInv => VerdictAgrees
  BY DEF SettlementInv
<1> QED
  BY <1>1, SettlementInvHolds, PTL

-----------------------------------------------------------------------------
(* The order of first submissions *)

\* Only submitMatch, past the load of its row, submits a prepared row.
LEMMA FirstSubmission ==
  ASSUME SettlementInv, [Next]_vars, NEW b \in Batches,
         rows[b].status = "prepared", rows'[b].status = "submitted"
  PROVE  sub[b].pc = "load"
<1> USE DEF SettlementInv
<1>1. RowsStep => sub[b].pc = "load"
  BY DEF RowsStep, RowStep, RowKept, Kept, Inserted, Prepared, Submitted, Processed, Confirmed,
     Resigned, FailedRow, PausedRow, LoadNextQueuedByMarket, FirstActive
<1>2. ASSUME NEW c, NEW who, RowMoved(c, who)
      PROVE  sub[b].pc = "load"
  BY <1>1, <1>2 DEF RowMoved
<1>3. rows' # rows
  OBVIOUS
<1>4. CASE Ingress
  <2>1. InsertQueued
    BY <1>3, <1>4 DEF Ingress, FetchMessages, InsertFails, db
  <2> QED
    BY <2>1, UpsertDoes DEF InsertQueued
<1>5. CASE Prepare
  <2>1. PICK c \in Batches : PrepareSubmission(c) \/ PrepareTooLarge(c)
    BY <1>3, <1>5 DEF Prepare, PrepareNothing, db
  <2>2. CASE PrepareSubmission(c)
    <3>1. WarmOrders(c) \in SUBSET Orders /\ rows' = MarkPreparedCAS(c, WarmOrders(c))
      BY <2>2 DEF WarmOrders, Orders, PrepareSubmission
    <3> QED
      BY <3>1, MarkPreparedDoes
  <2>3. CASE PrepareTooLarge(c)
    BY <1>2, <2>3, FailBeforeMoves DEF PrepareTooLarge, Who
  <2> QED
    BY <2>1, <2>2, <2>3
<1>6. ASSUME NEW c \in Batches, ScheduleClaim(c) \/ Submit(c)
      PROVE  sub[b].pc = "load"
  <2>1. CASE SubmitMark(c)
    <3>1. rows' = MarkSubmittedCAS(c, height) /\ height \in Heights /\ sub[c].pc = "load"
      BY <1>3, <2>1, Typed DEF SubmitMark
    <3> QED
      BY <3>1, MarkSubmittedDoes
  <2>2. CASE SubmitTooLarge(c)
    BY <1>2, <2>2, FailBeforeMoves DEF SubmitTooLarge, Who
  <2>3. CASE SubmitPublish(c)
    BY <1>1, <2>3, MarkMoves DEF SubmitPublish
  <2>4. CASE SubmitSend(c)
    BY <1>2, <1>3, <2>4, FailSubmissionMoves DEF SubmitSend, Who, LaneEnd
  <2> QED
    BY <1>3, <1>6, <2>1, <2>2, <2>3, <2>4 DEF Submit, ScheduleClaim, db
<1>7. ASSUME NEW c \in Batches, Watch(c)
      PROVE  sub[b].pc = "load"
  <2>1. CASE WatchObserve(c)
    BY <1>2, <1>3, <2>1, SettleMoves DEF WatchObserve, Who
  <2>2. CASE WatchRebroadcast(c)
    BY <1>3, <2>2 DEF WatchRebroadcast, db
  <2>3. CASE WatchResign(c)
    <3>1. rows' = ReplaceSignatureCAS(c, watch[c].sig, height) /\ height \in Heights
      BY <2>3, Typed DEF WatchResign
    <3> QED
      BY <3>1, ReplaceSignatureDoes
  <2>4. CASE WatchResend(c)
    BY <1>2, <1>3, <2>4, FailSubmissionMoves DEF WatchResend, Who, LaneEnd
  <2> QED
    BY <1>7, <2>1, <2>2, <2>3, <2>4 DEF Watch
<1>8. ASSUME NEW c \in Batches, PollTerminal(c)
      PROVE  sub[b].pc = "load"
  <2>1. CASE failSubmission(c, rows[c].sig, "poller", "pause")
    BY <1>2, <2>1, FailSubmissionMoves DEF Who, LaneEnd
  <2>2. CASE rows' = MarkConfirmedCAS(c, rows[c].sig)
    <3>1. rows' = [rows EXCEPT ![c].status = "confirmed"] /\ "confirmed" \in Statuses
      BY <1>3, <2>2 DEF MarkConfirmedCAS, Statuses
    <3> QED
      BY <3>1, SetStatusDoes
  <2> QED
    BY <1>8, <2>1, <2>2 DEF PollTerminal
<1>9. ASSUME NEW c \in Batches, Republish(c)
      PROVE  sub[b].pc = "load"
  BY <1>1, <1>9, MarkMoves DEF Republish
<1>10. ASSUME NEW a \in after, Finish(a)
      PROVE  sub[b].pc = "load"
  <2>1. a.b \in Batches /\ (rows' = rows \/ rows' = MarkTerminalEventPublished(a.b))
    BY <1>10, Typed DEF Finish, AfterProcessed, AfterFailed, AfterPause, AfterConfirmed, PublishThenMark,
       TaskType, db
  <2> QED
    BY <1>1, <2>1, MarkMoves
<1>11. CASE Reconcile
  <2>1. PICK c \in Batches : ReconcileForward(c)
    BY <1>3, <1>11 DEF Reconcile, ReconcileMiss, ReconcileResume, RecoverDone, db
  <2> QED
    BY <1>2, <2>1, SettleMoves DEF ReconcileForward, Who
<1>12. CASE Crash \/ Restart \/ Cluster \/ UNCHANGED vars
  BY <1>3, <1>12 DEF Crash, Restart, Cluster, BlockProduced, Execute, Fork, db, vars
<1> QED
  BY <1>4, <1>5, <1>6, <1>7, <1>8, <1>9, <1>10, <1>11, <1>12 DEF Next

\* Batches of a market are first submitted in the order they were stored: none overtakes an
\* earlier one that is still on its way with the lane active (LoadNextPreparedByMarket,
\* tryScheduleMarket, MarkSubmittedCAS).
THEOREM SubmittedInOrderHolds == Spec => SubmittedInOrder
<1>1. ASSUME SettlementInv, [Next]_vars, NEW b \in Batches, NEW c \in Batches,
             rows[b].status = "prepared", rows'[b].status = "submitted",
             MarketOf[c] = MarketOf[b], MarketOf[b] \notin strayed,
             rows[c].status # "absent", rows[c].at < rows[b].at
      PROVE  rows[c].lane = "paused" \/ rows[c].status \in {"processed", "confirmed", "failed"}
  <2>1. sub[b].pc = "load"
    BY <1>1, FirstSubmission
  <2>2. ~Waits(c)
    BY <1>1, <2>1 DEF SettlementInv, OrderKept, Tidy
  <2>3. rows[c].status \in Statuses /\ rows[c].lane \in {"active", "paused"}
    BY <1>1, RowTypes DEF SettlementInv
  <2> QED
    BY <1>1, <2>2, <2>3 DEF Waits, Statuses
<1>2. SettlementInv /\ [Next]_vars =>
        [\A b, c \in Batches :
           (/\ rows[b].status = "prepared" /\ rows'[b].status = "submitted"
            /\ MarketOf[c] = MarketOf[b] /\ MarketOf[b] \notin strayed /\ rows[c].status # "absent" /\ rows[c].at < rows[b].at)
           => rows[c].lane = "paused" \/ rows[c].status \in {"processed", "confirmed", "failed"}]_vars
  BY <1>1
<1> QED
  BY SettlementInvHolds, <1>2, PTL DEF Spec, SubmittedInOrder
=============================================================================
