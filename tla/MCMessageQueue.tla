---------------------------- MODULE MCMessageQueue ----------------------------
(* The queue with few threads and values, which are alike.                 *)
EXTENDS MessageQueue, TLC

=============================================================================
