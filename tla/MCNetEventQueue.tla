--------------------------- MODULE MCNetEventQueue ---------------------------
(* A small instance of NetEventQueue.                                      *)
EXTENDS NetEventQueue, TLC

CONSTANTS u1, n1, n2, s1, s2

OneUser == {u1}
TwoThreads == {n1, n2}
TwoSockets == {s1, s2}
OneEach == (s1 :> n1) @@ (s2 :> n2)
=============================================================================
