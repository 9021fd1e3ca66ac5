-------------------------- MODULE MCTransferSession ---------------------------
(* Small instances of TransferSession.                                     *)
EXTENDS TransferSession

CONSTANTS u1, u2

NoUsers == {}
OneUser == {u1}
TwoUsers == {u1, u2}
=============================================================================
