\* A ring of one slot grows to four and goes round; a pop that leaves two
\* values warns.
SPECIFICATION Spec
CONSTANTS
  Threads = {t1, t2}
  Values = {v1, v2}
  None = none
  Cap0 = 1
  Overload = 1
  MaxItems = 3
  Nested = FALSE
INVARIANT RingInv
PROPERTIES FifoKept CallsEnd
