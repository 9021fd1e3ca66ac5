---------------------------- MODULE MCListenSocket ----------------------------
(* A listening server with one user, its timer and three descriptors.      *)
EXTENDS ListenSocket
=============================================================================
