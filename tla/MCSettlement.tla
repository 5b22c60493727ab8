---------------------------- MODULE MCSettlement ----------------------------
(* One market and up to two batches that share an order. *)
EXTENDS Settlement, TLC
CONSTANTS m1, b1, b2, o1
MCMarketOf == [b \in Batches |-> m1]
MCOrdersOf == [b \in Batches |-> {o1}]
AllFit == [b \in Batches |-> "fits"]
MCSizes == {AllFit} \cup {[AllFit EXCEPT ![b] = z] : b \in Batches, z \in {"estimated", "wire"}}
BatchSymmetry == Permutations(Batches)
=============================================================================
