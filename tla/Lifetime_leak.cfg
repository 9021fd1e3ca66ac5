\* A session deleted by a user thread; fairness.
CONSTANTS
  u1 = u1
  s1 = s1
  s2 = s2
  Net = Net
  Timer = Timer
  None = None
  Users <- OneUser
  Sessions <- OneSession
  Owner <- OwnedByUser
  Calls <- UserCalls
  SyncLookups <- NoSession
  MaxPosts = 2
  MaxDeletes = 1
  MaxConnects = 1
SPECIFICATION Spec
PROPERTY FreedInTheEnd
