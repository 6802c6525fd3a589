SPECIFICATION Spec
CONSTANTS
  Kinds = {"move", "blend", "jog", "select", "pause", "resume", "stop"}
  Stride = 2
  Lookahead = 2
  BeginPaused = TRUE
  MaxCommands = 3
INVARIANTS HeldIsOnRecord
CHECK_DEADLOCK FALSE
