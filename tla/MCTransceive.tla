---------------------------- MODULE MCTransceive ----------------------------
(* Finite instances of Transceive. *)
EXTENDS Transceive

CONSTANTS t1, t2

TwoThreads == {t1, t2}
AllButLate == FaultKinds \ {"late"}
=============================================================================
