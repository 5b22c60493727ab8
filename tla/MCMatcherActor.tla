--------------------------- MODULE MCMatcherActor ---------------------------
(* Instances of MatcherActor for TLC. *)
EXTENDS MatcherActor

FirstTakes == {1}
FirstCloses == {1}
=============================================================================
