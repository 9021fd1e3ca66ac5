\* Three threads, two nodes; fairness; no symmetry.
SPECIFICATION FairSpec
CONSTANTS
  Threads = {t1, t2, t3}
  Nodes = {a, b}
  Null = Null
INVARIANTS ListSound ListedIsCounted NoneLost
PROPERTIES Exclusive LockFree
