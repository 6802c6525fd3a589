SPECIFICATION Spec
CONSTANTS
  Moves = 1
  TrajLen = 2
  RingCapacity = 3
  MaxStops = 1
  StopWhilePlanning = TRUE
  Settles = TRUE
INVARIANTS NothingDroppedPlays
