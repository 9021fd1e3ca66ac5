\* One user and two network threads, each of which serves a socket: all post
\* to both; fairness; no symmetry.
CONSTANTS
  u1 = u1
  n1 = n1
  n2 = n2
  s1 = s1
  s2 = s2
  None = None
  Users <- OneUser
  NetThreads <- TwoThreads
  Sockets <- TwoSockets
  ThreadOf <- OneEach
  MaxPosts = 1
SPECIFICATION Spec
INVARIANTS TypeOK RegisteredOnce NoStrandedItem NoLostWakeup RefLedger
PROPERTIES MailboxKept MailboxServed
CHECK_DEADLOCK FALSE
