---------------------------- MODULE ConfirmWait ----------------------------
(***************************************************************************)
(* What chainconfirm.Waiter promises: a wait for a signature ends with     *)
(* "ok" only when its transaction is confirmed without an error, and       *)
(* otherwise with "expired" at the caller's deadline.  Router, shards and  *)
(* connections do not show.                                                *)
(***************************************************************************)
CONSTANT Sigs
VARIABLES txs, outcome

wvars == <<txs, outcome>>

Init == txs = [s \in Sigs |-> "none"] /\ outcome = [s \in Sigs |-> "idle"]

Land(s) ==
    /\ txs[s] = "none"
    /\ \E r \in {"ok", "err"} : txs' = [txs EXCEPT ![s] = r]
    /\ UNCHANGED outcome

Start(s) ==
    /\ outcome[s] # "waiting"
    /\ outcome' = [outcome EXCEPT ![s] = "waiting"] /\ UNCHANGED txs

Confirmed(s) ==
    /\ outcome[s] = "waiting" /\ txs[s] = "ok"
    /\ outcome' = [outcome EXCEPT ![s] = "ok"] /\ UNCHANGED txs

Expired(s) ==
    /\ outcome[s] = "waiting"
    /\ outcome' = [outcome EXCEPT ![s] = "expired"] /\ UNCHANGED txs

Next == \E s \in Sigs : Land(s) \/ Start(s) \/ Confirmed(s) \/ Expired(s)
Spec == Init /\ [][Next]_wvars
=============================================================================
