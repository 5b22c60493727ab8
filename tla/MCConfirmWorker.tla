-------------------------- MODULE MCConfirmWorker --------------------------
(* One signature, posted to any of the three endpoints. *)
EXTENDS ConfirmWorker
MCKindsOf == [Sigs -> Kinds]
=============================================================================
