------------------------------ MODULE MCWriter ------------------------------
(* Two bids and an ask that each of them fills in part. *)
EXTENDS Writer, TLC
CONSTANTS b1, b2, a1
MCSideOf == (b1 :> "bid") @@ (b2 :> "bid") @@ (a1 :> "ask")
MCQtyOf  == (b1 :> 1) @@ (b2 :> 1) @@ (a1 :> 2)
=============================================================================
