\* Twice round a ring of three slots.
SPECIFICATION QueueSpec
CONSTANTS
  Producers = {p1, p2, p3}
  Consumers = {c1, c2, c3}
  Size = 3
  MaxPush = 6
  Polite = TRUE
SYMMETRY Symmetry
INVARIANTS NoErrorPop SlotIsPrivate PopsInOrder AllVisible PlacesGivenBack
