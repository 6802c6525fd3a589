SPECIFICATION MCSpec
CONSTANTS
  Parts = {"core", "stop"}
  StopMoves = 3
  StopTrajLen = 3
  StopRing = 6
  StopStops = 2
  StopPlanning = TRUE
  StopSettles = TRUE
  SettleTicks = 2
  StreamTimeout = 2
  HbTimeout = 1
  SelfcheckTick = 1
  RecoverySettle = 1
  HoldTicks = 1
INVARIANTS NoWorkUnderAFault CancelledNeverPlayed EstopHaltsJaws StopIsExact
