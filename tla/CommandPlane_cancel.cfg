SPECIFICATION Spec
CONSTANTS
  k1 = k1
  k2 = k2
  k3 = k3
  k4 = k4
  k5 = k5
  k6 = k6
  QueueCapacity = 2
  DedupWindow = 1
  BlendLookahead = 2
  Keys = {k1, k2, k3}
  Kinds = {"move", "blend", "tool", "stop"}
  Streams = {}
  ShapeSets = {}
  Snaps <- ReadyOnly
  Ops = {"stop", "estop", "reset", "reset_state"}
  MaxIndex = 3
  MaxTag = 2
  MaxChan = 4
SYMMETRY KeySymmetry
INVARIANTS Accounted PlannerInStep
