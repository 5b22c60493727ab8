--------------------------- MODULE MCFundsService ---------------------------
(* Small instances of FundsService for TLC. *)
EXTENDS FundsService, TLC

CONSTANTS b1, b2, d1, w1, r1

OneBatch == {b1}
TwoBatches == {b1, b2}
OneDeposit == {d1}
OneWithdrawal == {w1}
OneRelease == {r1}
None == {}

\* Batches are interchangeable.
BatchSymmetry == Permutations({b1, b2})

=============================================================================
