SPECIFICATION Spec
CONSTANTS
  Joints = 1
  Capacity = 2
  Driven = {"ssg"}
  Known = {"flange", "ssg"}
  Attempts = 2
  SimChoices = {TRUE, FALSE}
  Safe_park = TRUE
  ParkTicks = 2
  SettleTicks = 2
  MaxOps = 2
  MaxCmds = 1
  MaxFaults = 1
  MaxDeaths = 1
INVARIANTS BusClaimStands
CHECK_DEADLOCK FALSE
