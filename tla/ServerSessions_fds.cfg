\* Four connections on three descriptors, one of them served by the listening thread.
CONSTANTS
  s1 = s1
  s2 = s2
  s3 = s3
  s4 = s4
  f1 = f1
  f2 = f2
  f3 = f3
  Limit = 1
  Invalid = Invalid
  None = None
  Sessions <- FourSessions
  Inline <- OneInline
  Fds <- ThreeFds
SPECIFICATION Spec
INVARIANTS ConnectedIsListed AdmittedWithinLimit
CHECK_DEADLOCK FALSE
