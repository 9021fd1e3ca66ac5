\* Two connections one after the other, connect never succeeding at once.
CONSTANTS
  u1 = u1
  u2 = u2
  Timer = Timer
  Net = Net
  Users <- OneUser
  AtOnce = FALSE
  MaxConns = 2
  MaxSends = 2
  MaxQueue = 1
SPECIFICATION Spec
INVARIANTS Flushed 
CHECK_DEADLOCK FALSE
