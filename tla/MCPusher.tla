------------------------------ MODULE MCPusher ------------------------------
(* Two levels, one browser with two connections. *)
EXTENDS Pusher
=============================================================================
