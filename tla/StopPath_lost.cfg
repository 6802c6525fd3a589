SPECIFICATION FairSpec
CONSTANTS
  Moves = 2
  TrajLen = 3
  RingCapacity = 6
  MaxStops = 1
  StopWhilePlanning = FALSE
  Settles = TRUE
PROPERTIES EveryMoveAnswered
