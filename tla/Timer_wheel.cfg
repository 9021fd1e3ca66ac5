\* Two timers with delays up to 8 on five wheels of two slots each.
SPECIFICATION Spec
CONSTANTS
  Timers = {n1, n2}
  Keys = {k1, k2}
  None = None
  Near = 2
  Level = 2
  MaxDelay = 8
  OncePerKey = TRUE
SYMMETRY Symmetry
INVARIANTS MapSound Deletable
 
