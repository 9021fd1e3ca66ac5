----------------------------- MODULE MCLogChannel -----------------------------
(* The log with few writers and channels.                                  *)
EXTENDS LogChannel, TLC

Symmetry == Permutations(Writers)
=============================================================================
