SPECIFICATION Spec
CONSTANTS
  k1 = k1
  k2 = k2
  k3 = k3
  k4 = k4
  k5 = k5
  k6 = k6
  QueueCapacity = 3
  DedupWindow = 1
  BlendLookahead = 3
  Keys = {k1, k2, k3, k4, k5, k6}
  Kinds = {"blend"}
  Streams = {}
  ShapeSets = {}
  Snaps <- ReadyOnly
  Ops = {}
  MaxIndex = 6
  MaxTag = 0
  MaxChan = 2
SYMMETRY KeySymmetry
INVARIANTS DedupCoversLive
