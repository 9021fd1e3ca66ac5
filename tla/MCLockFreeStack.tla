--------------------------- MODULE MCLockFreeStack ---------------------------
(* CCLockfreeStack on few threads and nodes.  Threads are alike, and so    *)
(* are nodes.                                                              *)
EXTENDS LockFreeStack, TLC

Symmetry == Permutations(Threads) \cup Permutations(Nodes)
=============================================================================
