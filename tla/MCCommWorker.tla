---------------------------- MODULE MCCommWorker ----------------------------
(* Finite instances of CommWorker. *)
EXTENDS CommWorker

CONSTANTS i1, i2, i3

ThreeItems == {i1, i2, i3}
None == {}
OnlyFirst == {i1}
=============================================================================
