------------------------------ MODULE MCFixQueue ------------------------------
(* CCLockfreeFixQueue on few threads.  Producers are alike, and so are     *)
(* consumers.                                                              *)
EXTENDS FixQueue, TLC

Symmetry == Permutations(Producers) \cup Permutations(Consumers)
=============================================================================
