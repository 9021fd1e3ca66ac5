\* A user listens once and closes up to four times; fairness.
SPECIFICATION FairSpec
CONSTANTS
  Users = {u}
  Timer = timer
  Sockets = {s1, s2, s3}
  NoSocket = NoSocket
  MaxListen = 1
  MaxClose = 4
  MaxQueue = 4
INVARIANT NoSocketLost
PROPERTY ListensUnlessClosing
CHECK_DEADLOCK FALSE
