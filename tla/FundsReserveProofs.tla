------------------------- MODULE FundsReserveProofs -------------------------
(***************************************************************************)
(* Proofs about FundsReserve for every set of orders and markets and every *)
(* number of deposits and faults: its types, which contain that no balance *)
(* goes below zero, and that an order is booked at most once.              *)
(***************************************************************************)
EXTENDS FundsReserve, ArithmeticProofs

\* A handler that is not idle works on an event of the stream.
Handled == \A k \in Kinds : own[k].at # "idle" => own[k].pos \in DOMAIN evts

\* ReserveOrder is only reached for an order it has not decided yet.
MoveIsFresh ==
    own["reserved"].at = "move" => /\ locks[OrderOf("reserved")] = 0
                                   /\ OrderOf("reserved") \notin failed

\* A decided order is in the SubmitStore, or the handler that decided it has
\* still to put it there.
Decided ==
    \A o \in Orders : locks[o] # 0 \/ o \in failed =>
        \/ o \in submits
        \/ own["reserved"].at \in {"mark", "delete"} /\ OrderOf("reserved") = o

ReserveInv == TypeOK /\ Handled /\ MoveIsFresh /\ Decided /\ LockedOnce

-----------------------------------------------------------------------------
\* The initial state satisfies the invariant.
LEMMA InitReserve == Init => ReserveInv
<1> SUFFICES ASSUME Init PROVE ReserveInv
    OBVIOUS
<1>1. TypeOK
  BY ReserveAssumption DEF Init, TypeOK, IdleSub, IdleOwn, Kinds, SubSteps, OwnSteps
<1>2. Handled /\ MoveIsFresh /\ Decided /\ LockedOnce
  BY DEF Init, Handled, MoveIsFresh, Decided, LockedOnce, IdleOwn, Kinds
<1> QED
  BY <1>1, <1>2 DEF ReserveInv

\* While the submit handler works, its record has all three fields.
LEMMA Active ==
    ASSUME TypeOK, sub.at # "idle"
    PROVE  sub \in [at : SubSteps, seen : Nat, order : Orders]
BY DEF TypeOK

\* Moving the submit handler on keeps its type.
LEMMA ThenType ==
    ASSUME TypeOK, sub.at # "idle", NEW step \in SubSteps, NEW n \in Nat
    PROVE  /\ [sub EXCEPT !.at = step] \in [at : SubSteps, seen : Nat, order : Orders]
           /\ [sub EXCEPT !.at = step, !.seen = n]
                 \in [at : SubSteps, seen : Nat, order : Orders]
BY Active

\* Moving one of the event handlers on keeps its type.
LEMMA StepType ==
    ASSUME TypeOK, NEW k \in Kinds, NEW step \in OwnSteps
    PROVE  [own EXCEPT ![k].at = step] \in [Kinds -> [at : OwnSteps \union {"idle"}, pos : Nat]]
BY DEF TypeOK

\* A new event keeps the types of the stream and of the positions in it.
LEMMA StoredType ==
    ASSUME TypeOK, sub.at # "idle", NEW kind \in Kinds, Stored(kind)
    PROVE  /\ evts' \in Seq([kind : Kinds, order : Orders])
           /\ unacked' \subseteq DOMAIN evts' /\ DOMAIN evts \subseteq DOMAIN evts'
           /\ \A i \in DOMAIN evts : evts'[i] = evts[i]
<1> DEFINE e == [kind |-> kind, order |-> sub.order]
<1>1. e \in [kind : Kinds, order : Orders]
  BY Active
<1>2. evts \in Seq([kind : Kinds, order : Orders]) /\ unacked \subseteq DOMAIN evts
  BY DEF TypeOK
<1>3. CASE UNCHANGED <<evts, unacked>>
  BY <1>2, <1>3
<1>4. CASE evts' = Append(evts, e) /\ unacked' = unacked \union {Len(evts) + 1}
  <2> HIDE DEF e
  <2> QED
    BY <1>1, <1>2, <1>4
<1> QED
  BY <1>3, <1>4 DEF Stored

\* The order of an event handler that is not idle is one of Orders.
LEMMA OrderOfType ==
    ASSUME TypeOK, Handled, NEW k \in Kinds, own[k].at # "idle"
    PROVE  OrderOf(k) \in Orders
<1>1. own[k].pos \in DOMAIN evts /\ evts \in Seq([kind : Kinds, order : Orders])
  BY DEF TypeOK, Handled
<1>2. \A T : \A q \in Seq(T) : \A i \in DOMAIN q : q[i] \in T
  OBVIOUS
<1>3. evts[own[k].pos] \in [kind : Kinds, order : Orders]
  BY <1>1, <1>2
<1> QED
  BY <1>3 DEF OrderOf

\* Every step of the three handlers keeps the types.
LEMMA TypeStep == TypeOK /\ Handled /\ [Next]_vars => TypeOK'
<1> SUFFICES ASSUME TypeOK, Handled, [Next]_vars PROVE TypeOK'
    OBVIOUS
<1> USE ReserveAssumption DEF stores
<1>1. ASSUME NEW o \in Orders, Fetch(o) PROVE TypeOK'
  <2>1. sub' \in [at : SubSteps, seen : Nat, order : Orders]
    BY <1>1 DEF Fetch, SubSteps
  <2> QED
    BY <1>1, <2>1 DEF Fetch, TypeOK
<1>2. CASE CheckSubmits \/ CheckPending \/ ReadBalance \/ Validate
  <2>1. sub.at # "idle"
    BY <1>2 DEF CheckSubmits, CheckPending, ReadBalance, Validate
  <2>2. PICK step \in SubSteps, n \in Nat :
            sub' = [sub EXCEPT !.at = step] \/ sub' = [sub EXCEPT !.at = step, !.seen = n]
    BY <1>2 DEF CheckSubmits, CheckPending, ReadBalance, Validate, Then, SubSteps, TypeOK
  <2>3. sub' \in [at : SubSteps, seen : Nat, order : Orders]
    BY <2>1, <2>2, ThenType
  <2>4. UNCHANGED <<queue, evts, unacked, stores, own, deposits, faults>>
    BY <1>2 DEF CheckSubmits, CheckPending, ReadBalance, Validate
  <2> QED
    BY <2>3, <2>4 DEF TypeOK
<1>3. CASE Publish
  <2>1. sub.at # "idle" /\ sub.at \in Kinds /\ Stored(sub.at)
    BY <1>3 DEF Publish, Kinds
  <2>2. PICK step \in SubSteps : sub' = [sub EXCEPT !.at = step]
    BY <1>3 DEF Publish, Then, SubSteps
  <2>3. sub' \in [at : SubSteps, seen : Nat, order : Orders]
    BY <2>1, <2>2, ThenType
  <2>4. evts' \in Seq([kind : Kinds, order : Orders]) /\ unacked' \subseteq DOMAIN evts'
    BY <2>1, StoredType
  <2> QED
    BY <1>3, <2>3, <2>4 DEF Publish, TypeOK
<1>4. CASE PublishFails
  <2>1. sub.at # "idle" /\ sub.at \in Kinds
    BY <1>4 DEF PublishFails, Kinds
  <2>2. evts' \in Seq([kind : Kinds, order : Orders]) /\ unacked' \subseteq DOMAIN evts'
    <3>1. CASE Stored(sub.at)
      BY <2>1, <3>1, StoredType
    <3>2. CASE UNCHANGED <<evts, unacked>>
      BY <3>2 DEF TypeOK
    <3> QED
      BY <1>4, <3>1, <3>2 DEF PublishFails
  <2> QED
    BY <1>4, <2>2 DEF PublishFails, IdleSub, TypeOK
<1>5. CASE MarkPending
  <2>1. sub.at # "idle" /\ sub' = [sub EXCEPT !.at = "ack"]
    BY <1>5 DEF MarkPending, Then
  <2>2. sub' \in [at : SubSteps, seen : Nat, order : Orders] /\ sub.order \in Orders
    BY <2>1, ThenType, Active DEF SubSteps
  <2>3. pending' \subseteq Orders /\ agg' \in [Markets -> Nat]
    BY <1>5, <2>2 DEF MarkPending, Mark, TypeOK
  <2> QED
    BY <1>5, <2>2, <2>3 DEF MarkPending, TypeOK
<1>6. CASE AckSubmit \/ AckSubmitLost
  <2>1. sub' \in [at : {"idle"}, seen : Nat]
    BY <1>6 DEF AckSubmit, AckSubmitLost, IdleSub
  <2>2. queue' \subseteq Orders /\ faults' \in 0 .. MaxFaults
    BY <1>6 DEF AckSubmit, AckSubmitLost, TypeOK
  <2>3. UNCHANGED <<evts, unacked, stores, own, deposits>>
    BY <1>6 DEF AckSubmit, AckSubmitLost
  <2> QED
    BY <2>1, <2>2, <2>3 DEF TypeOK
<1>7. ASSUME NEW k \in Kinds, FetchOwn(k) PROVE TypeOK'
  <2>1. PICK i \in unacked :
            own' = [own EXCEPT ![k] = [at |-> IF k = "reserved" THEN "check" ELSE "delete",
                                       pos |-> i]]
    BY <1>7 DEF FetchOwn
  <2>2. i \in Nat
    BY DEF TypeOK
  <2>3. own' \in [Kinds -> [at : OwnSteps \union {"idle"}, pos : Nat]]
    BY <2>1, <2>2 DEF TypeOK, OwnSteps
  <2> QED
    BY <1>7, <2>3 DEF FetchOwn, TypeOK
<1>8. CASE CheckBooked
  <2>1. PICK step \in OwnSteps : own' = [own EXCEPT !["reserved"].at = step]
    BY <1>8 DEF CheckBooked, Step, OwnSteps
  <2>2. own' \in [Kinds -> [at : OwnSteps \union {"idle"}, pos : Nat]]
    BY <2>1, StepType DEF Kinds
  <2> QED
    BY <1>8, <2>2 DEF CheckBooked, TypeOK
<1>9. CASE ReserveOrder
  <2>1. PICK step \in OwnSteps : own' = [own EXCEPT !["reserved"].at = step]
    BY <1>9 DEF ReserveOrder, Step, OwnSteps
  <2>2. own' \in [Kinds -> [at : OwnSteps \union {"idle"}, pos : Nat]]
    BY <2>1, StepType DEF Kinds
  <2>3. PICK o \in Orders : o = OrderOf("reserved")
    BY <1>9, OrderOfType DEF ReserveOrder, Kinds
  <2>4. avail' \in Nat /\ locked' \in Nat /\ locks' \in [Orders -> Nat] /\ failed' \subseteq Orders
    <3> PICK n \in Nat : n = Need[o]
      OBVIOUS
    <3>1. avail \in Nat /\ locked \in Nat /\ locks \in [Orders -> Nat] /\ failed \subseteq Orders
      BY DEF TypeOK
    <3>2. CASE avail >= n
      BY <1>9, <2>3, <3>1, <3>2 DEF ReserveOrder
    <3>3. CASE ~(avail >= n)
      BY <1>9, <2>3, <3>1, <3>3 DEF ReserveOrder
    <3> QED
      BY <3>2, <3>3
  <2> QED
    BY <1>9, <2>2, <2>4 DEF ReserveOrder, TypeOK
<1>10. ASSUME NEW k \in Kinds, DeletePending(k) PROVE TypeOK'
  <2>1. PICK step \in OwnSteps : own' = [own EXCEPT ![k].at = step]
    BY <1>10 DEF DeletePending, Step, OwnSteps
  <2>2. own' \in [Kinds -> [at : OwnSteps \union {"idle"}, pos : Nat]]
    BY <2>1, StepType
  <2>3. PICK o \in Orders : o = OrderOf(k)
    BY <1>10, OrderOfType DEF DeletePending
  <2>4. pending' \subseteq Orders /\ agg' \in [Markets -> Nat]
    <3>1. pending \subseteq Orders /\ agg \in [Markets -> Nat]
      BY DEF TypeOK
    <3>2. Delete(o)
      BY <1>10, <2>3 DEF DeletePending
    <3>3. PICK m \in Markets, n \in Nat : m = MarketOf[o] /\ n = Need[o]
      OBVIOUS
    <3>4. Floor(agg[m], n) \in Nat
      BY <3>1 DEF Floor
    <3> QED
      BY <3>1, <3>2, <3>3, <3>4 DEF Delete
  <2> QED
    BY <1>10, <2>2, <2>4 DEF DeletePending, TypeOK
<1>11. ASSUME NEW k \in Kinds, MarkSubmit(k) PROVE TypeOK'
  <2>1. PICK step \in OwnSteps : own' = [own EXCEPT ![k].at = step]
    BY <1>11 DEF MarkSubmit, Step, OwnSteps
  <2>2. own' \in [Kinds -> [at : OwnSteps \union {"idle"}, pos : Nat]]
    BY <2>1, StepType
  <2>3. submits' \subseteq Orders
    BY <1>11, OrderOfType DEF MarkSubmit, TypeOK
  <2> QED
    BY <1>11, <2>2, <2>3 DEF MarkSubmit, TypeOK
<1>12. ASSUME NEW k \in Kinds, AckOwn(k) \/ AckOwnLost(k) PROVE TypeOK'
  <2>1. own' \in [Kinds -> [at : OwnSteps \union {"idle"}, pos : Nat]]
    <3>1. own' = [own EXCEPT ![k] = IdleOwn]
      BY <1>12 DEF AckOwn, AckOwnLost
    <3> QED
      BY <3>1 DEF IdleOwn, TypeOK
  <2>2. unacked' \subseteq unacked /\ faults' \in 0 .. MaxFaults
    BY <1>12 DEF AckOwn, AckOwnLost, TypeOK
  <2>3. UNCHANGED <<queue, evts, stores, sub, deposits>>
    BY <1>12 DEF AckOwn, AckOwnLost
  <2> QED
    BY <2>1, <2>2, <2>3 DEF TypeOK
<1>13. CASE Deposit
  BY <1>13 DEF Deposit, TypeOK
<1>14. CASE UNCHANGED vars
  BY <1>14 DEF vars, TypeOK
<1> QED
  BY <1>1, <1>2, <1>3, <1>4, <1>5, <1>6, <1>7, <1>8, <1>9, <1>10, <1>11, <1>12, <1>13, <1>14
  DEF Next, Submit, Own
-----------------------------------------------------------------------------
\* Every step leaves the events of the stream where they are.
LEMMA Grows ==
    ASSUME TypeOK, [Next]_vars
    PROVE  DOMAIN evts \subseteq DOMAIN evts' /\ \A i \in DOMAIN evts : evts'[i] = evts[i]
<1>1. CASE UNCHANGED evts
  BY <1>1
<1>2. CASE Publish
  BY <1>2, StoredType DEF Publish, Kinds
<1>3. CASE PublishFails
  <2>1. CASE Stored(sub.at)
    BY <1>3, <2>1, StoredType DEF PublishFails, Kinds
  <2> QED
    BY <1>1, <1>3, <2>1 DEF PublishFails
<1> QED
  BY <1>1, <1>2, <1>3
  DEF Next, Submit, Own, Fetch, CheckSubmits, CheckPending, ReadBalance, Validate,
      MarkPending, AckSubmit, AckSubmitLost, FetchOwn, CheckBooked, ReserveOrder,
      DeletePending, MarkSubmit, AckOwn, AckOwnLost, Deposit, vars

\* What a step does to the handler of one kind: it fetches an event not acked,
\* moves on with its event, is idle again, or does nothing.
LEMMA OwnMoves ==
    ASSUME TypeOK, [Next]_vars, NEW k \in Kinds
    PROVE  \/ own'[k] = own[k]
           \/ own'[k].pos \in unacked
           \/ own[k].at # "idle" /\ own'[k].pos = own[k].pos
           \/ own'[k].at = "idle"
<1> USE DEF TypeOK
<1>1. CASE UNCHANGED own
  BY <1>1
<1>2. ASSUME NEW j \in Kinds, FetchOwn(j) PROVE own'[k] = own[k] \/ own'[k].pos \in unacked
  BY <1>2 DEF FetchOwn
<1>3. ASSUME NEW j \in Kinds, DeletePending(j) \/ MarkSubmit(j)
      PROVE own'[k] = own[k] \/ (own[k].at # "idle" /\ own'[k].pos = own[k].pos)
  BY <1>3 DEF DeletePending, MarkSubmit, Step
<1>4. CASE CheckBooked \/ ReserveOrder
  <2>1. own["reserved"].at # "idle"
    BY <1>4 DEF CheckBooked, ReserveOrder
  <2>2. PICK step : own' = [own EXCEPT !["reserved"].at = step]
    BY <1>4 DEF CheckBooked, ReserveOrder, Step
  <2> QED
    BY <2>1, <2>2
<1>5. ASSUME NEW j \in Kinds, AckOwn(j) \/ AckOwnLost(j)
      PROVE own'[k] = own[k] \/ own'[k].at = "idle"
  BY <1>5 DEF AckOwn, AckOwnLost, IdleOwn
<1> QED
  BY <1>1, <1>2, <1>3, <1>4, <1>5
  DEF Next, Submit, Own, Fetch, CheckSubmits, CheckPending, ReadBalance, Validate,
      Publish, PublishFails, MarkPending, AckSubmit, AckSubmitLost, Deposit, vars

\* A handler keeps working on an event of the stream.
LEMMA HandledStep == TypeOK /\ Handled /\ [Next]_vars => Handled'
<1> SUFFICES ASSUME TypeOK, Handled, [Next]_vars, NEW k \in Kinds, own'[k].at # "idle"
             PROVE  own'[k].pos \in DOMAIN evts
  BY Grows DEF Handled
<1> QED
  BY OwnMoves DEF Handled, TypeOK

\* A step that changes neither the reserved handler nor what it has decided
\* keeps the safety part of the invariant.
LEMMA Quiet ==
    ASSUME ReserveInv, [Next]_vars, own'["reserved"] = own["reserved"],
           UNCHANGED <<locks, failed>>, submits \subseteq submits'
    PROVE  MoveIsFresh' /\ Decided' /\ LockedOnce'
<1>1. own["reserved"].at # "idle" => OrderOf("reserved")' = OrderOf("reserved")
  BY Grows DEF ReserveInv, Handled, Kinds, OrderOf
<1> QED
  BY <1>1 DEF ReserveInv, MoveIsFresh, Decided, LockedOnce

\* Every step keeps the safety part: the duplicate check before ReserveOrder,
\* and Mark after it, are what it rests on.
LEMMA SafetyStep == ReserveInv /\ [Next]_vars => MoveIsFresh' /\ Decided' /\ LockedOnce'
<1> SUFFICES ASSUME ReserveInv, [Next]_vars PROVE MoveIsFresh' /\ Decided' /\ LockedOnce'
    OBVIOUS
<1>a. TypeOK /\ Handled
  BY DEF ReserveInv
<1>b. "reserved" \in Kinds
  BY DEF Kinds
<1>1. CASE UNCHANGED <<own, locks, failed, submits>>
  BY <1>1, Quiet
<1>2. ASSUME NEW k \in Kinds, k # "reserved",
             FetchOwn(k) \/ DeletePending(k) \/ MarkSubmit(k) \/ AckOwn(k) \/ AckOwnLost(k)
      PROVE  MoveIsFresh' /\ Decided' /\ LockedOnce'
  <2>1. own'["reserved"] = own["reserved"]
    BY <1>a, <1>b, <1>2 DEF FetchOwn, DeletePending, MarkSubmit, AckOwn, AckOwnLost, Step, TypeOK
  <2>2. UNCHANGED <<locks, failed>> /\ submits \subseteq submits'
    BY <1>2 DEF FetchOwn, DeletePending, MarkSubmit, AckOwn, AckOwnLost, stores
  <2> QED
    BY <2>1, <2>2, Quiet
<1>3. CASE FetchOwn("reserved")
  <2>1. own["reserved"].at = "idle" /\ own'["reserved"].at = "check"
    BY <1>a, <1>b, <1>3 DEF FetchOwn, TypeOK
  <2>2. UNCHANGED <<locks, failed, submits>>
    BY <1>3 DEF FetchOwn, stores
  <2> QED
    BY <2>1, <2>2 DEF ReserveInv, MoveIsFresh, Decided, LockedOnce
<1>4. CASE CheckBooked
  <2>1. OrderOf("reserved")' = OrderOf("reserved") /\ OrderOf("reserved") \in Orders
    BY <1>a, <1>b, <1>4, OrderOfType DEF CheckBooked, Step, OrderOf, TypeOK
  <2>2. /\ own["reserved"].at = "check"
        /\ own'["reserved"].at = IF OrderOf("reserved") \in submits THEN "delete" ELSE "move"
    BY <1>a, <1>b, <1>4 DEF CheckBooked, Step, TypeOK
  <2>3. UNCHANGED <<locks, failed, submits>>
    BY <1>4 DEF CheckBooked, stores
  <2> QED
    BY <2>1, <2>2, <2>3 DEF ReserveInv, MoveIsFresh, Decided, LockedOnce
<1>5. CASE ReserveOrder
  <2>0. evts' = evts /\ own'["reserved"].pos = own["reserved"].pos
    BY <1>a, <1>b, <1>5 DEF ReserveOrder, Step, TypeOK
  <2>1. PICK o \in Orders : o = OrderOf("reserved") /\ o = OrderOf("reserved")'
    BY <1>a, <1>b, <1>5, <2>0, OrderOfType DEF ReserveOrder, OrderOf
  <2>2. own["reserved"].at = "move" /\ own'["reserved"].at \in {"mark", "delete"}
    BY <1>a, <1>b, <1>5 DEF ReserveOrder, Step, TypeOK
  <2>3. \/ locks' = [locks EXCEPT ![o] = @ + 1] /\ failed' = failed
        \/ locks' = locks /\ failed' = failed \union {o}
    BY <1>5, <2>1 DEF ReserveOrder
  <2>4. locks[o] = 0 /\ o \notin failed
    BY <2>1, <2>2 DEF ReserveInv, MoveIsFresh
  <2>5. submits' = submits /\ locks \in [Orders -> Nat]
    BY <1>a, <1>5 DEF ReserveOrder, TypeOK
  <2>6. MoveIsFresh'
    BY <2>2 DEF MoveIsFresh
  <2>7. Decided'
    BY <2>1, <2>2, <2>3, <2>5 DEF ReserveInv, Decided
  <2>8. LockedOnce'
    BY <2>3, <2>4, <2>5 DEF ReserveInv, LockedOnce
  <2> QED
    BY <2>6, <2>7, <2>8
<1>6. CASE DeletePending("reserved")
  <2>1. OrderOf("reserved")' = OrderOf("reserved") /\ OrderOf("reserved") \in Orders
    BY <1>a, <1>b, <1>6, OrderOfType DEF DeletePending, Step, OrderOf, TypeOK
  <2>2. /\ own["reserved"].at = "delete"
        /\ own'["reserved"].at = IF OrderOf("reserved") \in submits THEN "ack" ELSE "mark"
    BY <1>a, <1>b, <1>6 DEF DeletePending, Step, Booked, TypeOK
  <2>3. UNCHANGED <<locks, failed, submits>>
    BY <1>6 DEF DeletePending
  <2> QED
    BY <2>1, <2>2, <2>3 DEF ReserveInv, MoveIsFresh, Decided, LockedOnce
<1>7. CASE MarkSubmit("reserved")
  <2>1. own["reserved"].at = "mark" /\ own'["reserved"].at \in {"delete", "ack"}
    BY <1>a, <1>b, <1>7 DEF MarkSubmit, Step, TypeOK
  <2>2. submits' = submits \union {OrderOf("reserved")} /\ UNCHANGED <<locks, failed>>
    BY <1>7 DEF MarkSubmit
  <2> QED
    BY <2>1, <2>2 DEF ReserveInv, MoveIsFresh, Decided, LockedOnce
<1>8. CASE AckOwn("reserved") \/ AckOwnLost("reserved")
  <2>1. own["reserved"].at = "ack" /\ own'["reserved"].at = "idle"
    BY <1>a, <1>b, <1>8 DEF AckOwn, AckOwnLost, IdleOwn, TypeOK
  <2>2. UNCHANGED <<locks, failed, submits>>
    BY <1>8 DEF AckOwn, AckOwnLost, stores
  <2> QED
    BY <2>1, <2>2 DEF ReserveInv, MoveIsFresh, Decided, LockedOnce
<1> QED
  BY <1>1, <1>2, <1>3, <1>4, <1>5, <1>6, <1>7, <1>8
  DEF Next, Submit, Own, Fetch, CheckSubmits, CheckPending, ReadBalance, Validate,
      Publish, PublishFails, MarkPending, AckSubmit, AckSubmitLost, Deposit, vars, stores

\* ReserveInv is inductive.
THEOREM ReserveInvariance == Spec => []ReserveInv
<1>1. ReserveInv /\ [Next]_vars => ReserveInv'
  BY TypeStep, HandledStep, SafetyStep DEF ReserveInv
<1> QED
  BY <1>1, InitReserve, PTL DEF Spec

\* The types, and with them that ReserveOrder never takes a balance below zero.
THEOREM ReserveTypeCorrect == Spec => []TypeOK
BY ReserveInvariance, PTL DEF ReserveInv

\* handleReservedMessage books an order at most once, and never after it failed
\* to, for every number of deliveries, lost acks and repeated decisions.
THEOREM LockedOnceHolds == Spec => []LockedOnce
BY ReserveInvariance, PTL DEF ReserveInv

-----------------------------------------------------------------------------
(* The sums *)

\* From its look at the pending store to Mark, the order of the submit handler is not pending: only
\* this handler marks, the other two delete.
NotPending ==
    sub.at \in {"read", "validate", "reserved", "rejected", "mark"} => sub.order \notin pending

BooksInv == ReserveInv /\ NotPending /\ ReservesAgree

\* What the orders need that are pending in a market, and what the booked ones need, as sums.
PendingIn(m) == {o \in pending : MarketOf[o] = m}
Booking == [o \in Orders |-> Need[o] * locks[o]]

\* What a set of orders needs is a sum.
LEMMA NeedIsSum == ASSUME NEW S PROVE NeedOf(S) = SumOver(Need, S)
BY SumOfMap DEF NeedOf

\* The two books as sums, ...
LEMMA BooksNow ==
    /\ Conserved <=> /\ avail + locked = Balance + deposits
                     /\ locked = SumOver(Booking, Orders)
    /\ AggAgrees <=> \A m \in Markets : agg[m] = SumOver(Need, PendingIn(m))
<1>1. IsFiniteSet(Orders)
  BY ReserveAssumption
<1>2. MapThenSumSet(LAMBDA o : Need[o] * locks[o], Orders) = SumOver(Booking, Orders)
  BY <1>1, SumOfProducts, Zenon DEF Booking
<1>3. Conserved <=> /\ avail + locked = Balance + deposits
                    /\ locked = SumOver(Booking, Orders)
  BY <1>2, Zenon DEF Conserved
<1>4. AggAgrees <=> \A m \in Markets : agg[m] = NeedOf(PendingIn(m))
  BY Zenon DEF AggAgrees, PendingIn
<1> QED
  BY <1>3, <1>4, NeedIsSum

\* ... before a step and after it.
LEMMA BooksAreSums ==
    /\ Conserved <=> /\ avail + locked = Balance + deposits
                     /\ locked = SumOver(Booking, Orders)
    /\ Conserved' <=> /\ avail' + locked' = Balance + deposits'
                      /\ locked' = SumOver(Booking', Orders)
    /\ AggAgrees <=> \A m \in Markets : agg[m] = SumOver(Need, PendingIn(m))
    /\ AggAgrees' <=> \A m \in Markets : agg'[m] = SumOver(Need, PendingIn(m)')
<1>1. (/\ Conserved <=> /\ avail + locked = Balance + deposits
                        /\ locked = SumOver(Booking, Orders)
       /\ AggAgrees <=> \A m \in Markets : agg[m] = SumOver(Need, PendingIn(m)))'
  BY BooksNow, PTL
<1> QED
  BY <1>1, BooksNow

\* The pending orders of a market are finitely many orders with natural numbers.
LEMMA PendingFinite ==
    ASSUME TypeOK, NEW m
    PROVE  /\ PendingIn(m) \subseteq Orders /\ IsFiniteSet(PendingIn(m))
           /\ \A o \in Orders : Need[o] \in Nat /\ Need[o] \in Int
<1>1. PendingIn(m) \subseteq Orders
  BY DEF PendingIn, TypeOK
<1>2. IsFiniteSet(PendingIn(m))
  BY <1>1, ReserveAssumption, FS_Subset
<1> QED
  BY <1>1, <1>2, ReserveAssumption

\* The initial state satisfies the invariant.
LEMMA InitBooks == Init => BooksInv
<1> SUFFICES ASSUME Init PROVE BooksInv
  OBVIOUS
<1>1. NotPending
  BY DEF Init, NotPending
<1>2. Conserved
  <2>1. \A o \in Orders : Booking[o] = 0
    BY ReserveAssumption DEF Init, Booking
  <2>2. SumOver(Booking, Orders) = SumOver([o \in Orders |-> 0], Orders)
    BY <2>1, ReserveAssumption, SumOverSame
  <2>3. SumOver([o \in Orders |-> 0], Orders) = 0
    BY ReserveAssumption, SumOverZero
  <2> QED
    BY <2>2, <2>3, BooksAreSums, ReserveAssumption DEF Init
<1>3. AggAgrees
  <2>1. \A m \in Markets : agg[m] = 0 /\ PendingIn(m) = {}
    BY DEF Init, PendingIn
  <2>2. \A m \in Markets : agg[m] = SumOver(Need, PendingIn(m))
    BY <2>1, SumOverEmpty
  <2> QED
    BY <2>2, BooksAreSums
<1> QED
  BY <1>1, <1>2, <1>3, InitReserve DEF BooksInv, ReservesAgree

\* A step that leaves the account and its bookings alone keeps the account, ...
LEMMA AccountKept ==
    ASSUME Conserved, UNCHANGED <<avail, locked, locks, deposits>>
    PROVE  Conserved'
<1>1. Booking' = Booking
  BY DEF Booking
<1> QED
  BY <1>1, BooksAreSums

\* ... and one that leaves the pending store alone keeps that.
LEMMA AggKept ==
    ASSUME AggAgrees, UNCHANGED <<pending, agg>>
    PROVE  AggAgrees'
BY Zenon DEF AggAgrees

\* ReserveOrder moves what it books.
LEMMA ReserveOrderBooks ==
    ASSUME BooksInv, ReserveOrder
    PROVE  Conserved'
<1> USE ReserveAssumption
<1>1. TypeOK /\ Handled /\ MoveIsFresh /\ Conserved
  BY DEF BooksInv, ReserveInv, ReservesAgree
<1>2. PICK o \in Orders : o = OrderOf("reserved")
  BY <1>1, OrderOfType DEF ReserveOrder, Kinds
<1>3. CASE UNCHANGED <<avail, locked, locks>>
  BY <1>1, <1>3, AccountKept DEF ReserveOrder
<1>4. CASE avail' = avail - Need[o] /\ locked' = locked + Need[o] /\ locks' = [locks EXCEPT ![o] = @ + 1]
  <2>1. locks[o] = 0 /\ deposits' = deposits
    BY <1>1, <1>2 DEF ReserveOrder, MoveIsFresh
  <2>2. /\ avail \in Nat /\ locked \in Nat /\ locks \in [Orders -> Nat] /\ Need[o] \in Nat
        /\ deposits \in Nat
    BY <1>1 DEF TypeOK
  <2>3. Booking[o] = 0 /\ Booking'[o] = Need[o]
    BY <1>4, <2>1, <2>2 DEF Booking
  <2>4. \A x \in Orders : Booking[x] \in Int
    BY <2>2 DEF Booking
  <2>5. \A x \in Orders \ {o} : Booking'[x] = Booking[x]
    BY <1>4, <2>2 DEF Booking
  <2>6. \A x \in Orders : Booking'[x] \in Int
    BY <2>2, <2>3, <2>4, <2>5
  <2>7. SumOver(Booking', Orders) = SumOver(Booking, Orders) + (Booking'[o] - Booking[o])
    BY <2>4, <2>5, <2>6, SumOverChange
  <2>8. locked = SumOver(Booking, Orders) /\ avail + locked = Balance + deposits
    BY <1>1, BooksAreSums
  <2>9. locked' = SumOver(Booking', Orders)
    BY <1>4, <2>2, <2>3, <2>7, <2>8
  <2>10. avail' + locked' = Balance + deposits'
    BY <1>4, <2>1, <2>2, <2>8
  <2> QED
    BY <2>9, <2>10, BooksAreSums
<1> QED
  BY <1>2, <1>3, <1>4 DEF ReserveOrder

\* Mark adds an order that is not pending: its market's aggregate goes up by what it needs.
LEMMA MarkAdds ==
    ASSUME TypeOK, AggAgrees, NEW o \in Orders, o \notin pending, Mark(o)
    PROVE  AggAgrees'
<1> USE ReserveAssumption
<1>1. ASSUME NEW m \in Markets PROVE agg'[m] = SumOver(Need, PendingIn(m)')
  <2>1. agg[m] = SumOver(Need, PendingIn(m)) /\ agg \in [Markets -> Nat] /\ pending \subseteq Orders
    BY BooksAreSums DEF TypeOK
  <2>2. CASE m # MarketOf[o]
    <3>1. PendingIn(m)' = PendingIn(m)
      BY <2>2 DEF PendingIn, Mark
    <3>2. agg'[m] = agg[m]
      BY <2>1, <2>2 DEF Mark
    <3> QED
      BY <2>1, <3>1, <3>2
  <2>3. CASE m = MarketOf[o]
    <3>1. PendingIn(m)' = PendingIn(m) \cup {o} /\ o \notin PendingIn(m)
      BY <2>3 DEF PendingIn, Mark
    <3>2. agg'[m] = agg[m] + Need[o]
      BY <2>1, <2>3 DEF Mark
    <3>3. SumOver(Need, PendingIn(m) \cup {o}) = Need[o] + SumOver(Need, PendingIn(m))
      <4>1. \A y \in PendingIn(m) \cup {o} : Need[y] \in Int
        BY PendingFinite
      <4> QED
        BY <3>1, <4>1, PendingFinite, SumOverAdd
    <3> QED
      BY <2>1, <3>1, <3>2, <3>3
  <2> QED
    BY <2>2, <2>3
<1> QED
  BY <1>1, BooksAreSums

\* Delete takes an order out that is pending: the aggregate is at least what it needs.
LEMMA DeleteTakes ==
    ASSUME TypeOK, AggAgrees, NEW o \in Orders, Delete(o)
    PROVE  AggAgrees'
<1> USE ReserveAssumption
<1>1. CASE o \notin pending
  BY <1>1, AggKept DEF Delete
<1>2. CASE o \in pending
  <2>1. ASSUME NEW m \in Markets PROVE agg'[m] = SumOver(Need, PendingIn(m)')
    <3>1. agg[m] = SumOver(Need, PendingIn(m)) /\ agg \in [Markets -> Nat] /\ pending \subseteq Orders
      BY BooksAreSums DEF TypeOK
    <3>2. CASE m # MarketOf[o]
      <4>1. PendingIn(m)' = PendingIn(m)
        BY <1>2, <3>2 DEF PendingIn, Delete
      <4>2. agg'[m] = agg[m]
        BY <1>2, <3>1, <3>2 DEF Delete
      <4> QED
        BY <3>1, <4>1, <4>2
    <3>3. CASE m = MarketOf[o]
      <4>1. PendingIn(m)' = PendingIn(m) \ {o} /\ o \in PendingIn(m)
        BY <1>2, <3>3 DEF PendingIn, Delete
      <4>2. agg'[m] = Floor(agg[m], Need[o])
        BY <1>2, <3>1, <3>3 DEF Delete
      <4>3. \A y \in PendingIn(m) : Need[y] \in Nat /\ Need[y] \in Int
        BY PendingFinite
      <4>4. SumOver(Need, PendingIn(m)) = Need[o] + SumOver(Need, PendingIn(m) \ {o})
        BY <4>1, <4>3, PendingFinite, SumOverRemove
      <4>5. SumOver(Need, PendingIn(m) \ {o}) \in Nat
        <5>1. IsFiniteSet(PendingIn(m) \ {o})
          BY PendingFinite, FS_RemoveElement
        <5> QED
          BY <4>3, <5>1, SumOverNat
      <4>6. Need[o] \in Nat
        BY <4>1, <4>3
      <4>7. \A a, b, c \in Nat : a = b + c => Floor(a, b) = c
        BY DEF Floor
      <4> QED
        BY <3>1, <4>1, <4>2, <4>4, <4>5, <4>6, <4>7
    <3> QED
      BY <3>2, <3>3
  <2> QED
    BY <2>1, BooksAreSums
<1> QED
  BY <1>1, <1>2

\* Every step keeps the books.
LEMMA BooksStep == BooksInv /\ [Next]_vars => ReservesAgree'
<1> SUFFICES ASSUME BooksInv, [Next]_vars PROVE Conserved' /\ AggAgrees'
  BY DEF ReservesAgree
<1> USE DEF stores
<1>1. TypeOK /\ Handled /\ NotPending /\ Conserved /\ AggAgrees
  BY DEF BooksInv, ReserveInv, ReservesAgree
<1>2. CASE UNCHANGED <<avail, locked, locks, deposits, pending, agg>>
  BY <1>1, <1>2, AccountKept, AggKept
<1>3. CASE MarkPending
  <2>1. sub.order \in Orders /\ sub.order \notin pending /\ Mark(sub.order)
    BY <1>1, <1>3, Active DEF MarkPending, NotPending
  <2>2. UNCHANGED <<avail, locked, locks, deposits>>
    BY <1>3 DEF MarkPending
  <2> QED
    BY <1>1, <2>1, <2>2, MarkAdds, AccountKept
<1>4. CASE ReserveOrder
  <2>1. UNCHANGED <<pending, agg>>
    BY <1>4 DEF ReserveOrder
  <2> QED
    BY <1>1, <1>4, <2>1, ReserveOrderBooks, AggKept
<1>5. ASSUME NEW k \in Kinds, DeletePending(k) PROVE Conserved' /\ AggAgrees'
  <2>1. OrderOf(k) \in Orders /\ Delete(OrderOf(k))
    BY <1>1, <1>5, OrderOfType DEF DeletePending
  <2>2. UNCHANGED <<avail, locked, locks, deposits>>
    BY <1>5 DEF DeletePending
  <2> QED
    BY <1>1, <2>1, <2>2, DeleteTakes, AccountKept
<1>6. CASE Deposit
  <2>1. avail' = avail + 1 /\ deposits' = deposits + 1 /\ UNCHANGED <<locked, locks, pending, agg>>
    BY <1>6 DEF Deposit
  <2>2. Booking' = Booking
    BY <2>1 DEF Booking
  <2>3. avail \in Nat /\ locked \in Nat /\ deposits \in Nat /\ Balance \in Nat
    BY <1>1, ReserveAssumption DEF TypeOK
  <2>4. avail + locked = Balance + deposits /\ locked = SumOver(Booking, Orders)
    BY <1>1, BooksAreSums
  <2>5. avail' + locked' = Balance + deposits'
    <3>1. \A a, l, b, d \in Nat : a + l = b + d => (a + 1) + l = b + (d + 1)
      OBVIOUS
    <3>2. (avail + 1) + locked = Balance + (deposits + 1)
      BY <2>3, <2>4, <3>1
    <3> QED
      BY <2>1, <3>2
  <2>6. locked' = SumOver(Booking', Orders)
    BY <2>1, <2>2, <2>4, Zenon
  <2>7. Conserved'
    BY <2>5, <2>6, BooksAreSums
  <2> QED
    BY <1>1, <2>1, <2>7, AggKept
<1> QED
  BY <1>2, <1>3, <1>4, <1>5, <1>6
  DEF Next, Submit, Own, Fetch, CheckSubmits, CheckPending, ReadBalance, Validate,
      Publish, PublishFails, AckSubmit, AckSubmitLost, FetchOwn, CheckBooked,
      MarkSubmit, AckOwn, AckOwnLost, vars

\* Every step keeps NotPending: CheckPending establishes it, and the next one to mark is MarkPending.
LEMMA NotPendingStep == BooksInv /\ [Next]_vars => NotPending'
<1> SUFFICES ASSUME BooksInv, [Next]_vars PROVE NotPending'
  OBVIOUS
<1> USE DEF stores
<1>1. TypeOK /\ NotPending
  BY DEF BooksInv, ReserveInv
<1>2. CASE sub' = sub /\ pending' \subseteq pending
  BY <1>1, <1>2 DEF NotPending
<1>3. CASE sub'.at \in {"idle", "has", "hasPending", "ack"}
  BY <1>3 DEF NotPending
<1>4. ASSUME NEW o \in Orders, Fetch(o) PROVE NotPending'
  BY <1>4 DEF Fetch, NotPending
<1>5. CASE CheckSubmits
  BY <1>5, <1>1, Active DEF CheckSubmits, Then, NotPending
<1>6. CASE CheckPending
  BY <1>6, <1>1, Active DEF CheckPending, Then, NotPending
<1>7. CASE ReadBalance
  BY <1>7, <1>1, Active DEF ReadBalance, NotPending
<1>8. CASE Validate
  BY <1>8, <1>1, Active DEF Validate, Then, NotPending
<1>9. CASE Publish
  BY <1>9, <1>1, Active DEF Publish, Then, NotPending, Kinds
<1>10. CASE PublishFails \/ AckSubmit \/ AckSubmitLost
  BY <1>10 DEF PublishFails, AckSubmit, AckSubmitLost, IdleSub, NotPending
<1>11. CASE MarkPending
  BY <1>11, <1>1, Active DEF MarkPending, Then, NotPending
<1>12. ASSUME NEW k \in Kinds, DeletePending(k) PROVE NotPending'
  BY <1>2, <1>12 DEF DeletePending, Delete
<1> QED
  BY <1>2, <1>4, <1>5, <1>6, <1>7, <1>8, <1>9, <1>10, <1>11, <1>12
  DEF Next, Submit, Own, FetchOwn, CheckBooked, ReserveOrder, MarkSubmit, AckOwn, AckOwnLost,
      Deposit, vars

\* The account and the pending store agree with the orders behind them at every step: no interleaving
\* of the three goroutines makes, loses or double counts a reserve, for every set of orders and
\* markets, every balance and every number of deposits and faults.
THEOREM ReservesAgreeHolds == Spec => []ReservesAgree
<1>1. BooksInv /\ [Next]_vars => BooksInv'
  BY TypeStep, HandledStep, SafetyStep, BooksStep, NotPendingStep DEF BooksInv, ReserveInv
<1> QED
  BY <1>1, InitBooks, PTL DEF Spec, BooksInv
=============================================================================
