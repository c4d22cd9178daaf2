---------------------------- MODULE MCTaskResult ----------------------------
(***************************************************************************)
(* Values of SemInit for TLC: what rescLimit_ may hold at first, below     *)
(* zero, zero and above zero.                                              *)
(***************************************************************************)
EXTENDS TaskResult

AnyCount == {-1, 0, 1}
=============================================================================
