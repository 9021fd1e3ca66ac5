\* One connection, connect succeeding at once or not; fairness.
CONSTANTS
  u1 = u1
  u2 = u2
  Timer = Timer
  Net = Net
  Users <- OneUser
  AtOnce = TRUE
  MaxConns = 1
  MaxSends = 2
  MaxQueue = 2
SPECIFICATION FairSpec
INVARIANT InOrder
PROPERTY ClosedInTheEnd
CHECK_DEADLOCK FALSE
