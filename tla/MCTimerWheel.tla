----------------------------- MODULE MCTimerWheel -----------------------------
(* The timing wheel with one bit per digit: a time of five bits.           *)
EXTENDS TimerWheel, TLC

Symmetry == Permutations(Timers) \cup Permutations(Keys)
=============================================================================
