---------------------------- MODULE FundsLedger ----------------------------
(***************************************************************************)
(* What the funds service promises about the balances it has written to    *)
(* Postgres, whatever crashes, replays and redeliveries went before: the   *)
(* money of a match batch moves forward only, along exactly one of two     *)
(* ways out, and a deposit or withdrawal is booked at most once and never  *)
(* taken back.  FundsService implements it (FundsService!Ledger).          *)
(***************************************************************************)
EXTENDS Integers

CONSTANTS Batches, Transfers

VARIABLES
    entry,      \* entry[b]: where the money of batch b is
    booked      \* booked[t]: how often transfer t has been booked

vars == <<entry, booked>>

\* "open": not matched yet; "pending": matched, settlement outstanding;
\* "paid": settled, the shares are available; "refunded": settlement failed.
Entries == {"open", "pending", "paid", "refunded"}

Init ==
    /\ entry = [b \in Batches |-> "open"]
    /\ booked = [t \in Transfers |-> 0]

\* One durable write may carry the effect of several events of one batch.
Forward(from, to) ==
    \/ from = to
    \/ from = "open"
    \/ from = "pending" /\ to # "open"

\* One projector transaction.
Write ==
    /\ entry' \in [Batches -> Entries]
    /\ \A b \in Batches : Forward(entry[b], entry'[b])
    /\ booked' \in [Transfers -> 0..1]
    /\ \A t \in Transfers : booked[t] <= booked'[t]

Spec == Init /\ [][Write]_vars

=============================================================================
