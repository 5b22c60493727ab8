---------------------------- MODULE Confirmation ----------------------------
(***************************************************************************)
(* What the router of confirmations and the workers that wait on it have   *)
(* in common: the transactions, by signature, and calls that may fail.     *)
(***************************************************************************)
EXTENDS Integers

CONSTANTS
    Sigs,      \* transaction signatures
    MaxFaults  \* bound: failed calls, lost acks and connections, and crashes together

VARIABLE faults

\* A call fails, a connection or an acknowledgement is lost, the process dies.
Fault == faults < MaxFaults /\ faults' = faults + 1
=============================================================================
