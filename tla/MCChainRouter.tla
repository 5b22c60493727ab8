--------------------------- MODULE MCChainRouter ---------------------------
(* Two signatures on one shard. *)
EXTENDS ChainRouter
CONSTANTS h1
MCShardOf == [s \in Sigs |-> h1]
=============================================================================
