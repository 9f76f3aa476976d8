---------------------------- MODULE MCTimerWheel ----------------------------
(* Symmetry for checking TimerWheel with TLC.                              *)
EXTENDS TimerWheel, TLC

Symmetry == Permutations(Timer)
=============================================================================
