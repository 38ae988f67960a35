--------------------------- MODULE MCTimerManager ---------------------------
(***************************************************************************)
(* Instances of TimerManager.                                              *)
(***************************************************************************)
EXTENDS TimerManager, TLC

\* Worker threads are interchangeable: sound for the safety this run checks.
WaiterSymmetry == Permutations(Waiters)
=============================================================================
