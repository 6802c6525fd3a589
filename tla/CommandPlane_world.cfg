SPECIFICATION Spec
CONSTANTS
  k1 = k1
  k2 = k2
  k3 = k3
  k4 = k4
  k5 = k5
  k6 = k6
  QueueCapacity = 2
  DedupWindow = 1
  BlendLookahead = 1
  Keys = {k1, k2}
  Kinds = {"move", "select", "stop"}
  Streams = {"jogl"}
  ShapeSets = {"plain", "attached", "stale"}
  Snaps <- WorldSnaps
  Ops = {"bus", "reset_state", "drive_tool", "estop", "reset", "pause", "teleport"}
  MaxIndex = 2
  MaxTag = 2
  MaxChan = 2
SYMMETRY KeySymmetry
INVARIANTS NoMotionOnStaleGeometry EstopSilencesQueue
