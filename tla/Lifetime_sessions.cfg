\* A user thread and the network thread own one session each; fairness.
CONSTANTS
  u1 = u1
  s1 = s1
  s2 = s2
  Net = Net
  Timer = Timer
  None = None
  Users <- OneUser
  Sessions <- TwoSessions
  Owner <- OwnedByBoth
  Calls <- AllCalls
  SyncLookups <- OneSession
  MaxPosts = 1
  MaxDeletes = 1
  MaxConnects = 1
SPECIFICATION Spec
INVARIANTS TimerListAlive FreedClosed RefsExact 
PROPERTY FreedUnlessPosted
