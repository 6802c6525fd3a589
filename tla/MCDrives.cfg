SPECIFICATION MCSpec
CONSTANTS
  Parts = {"snapshot", "ring", "homing", "poll", "bus", "gripper", "sim", "link", "box",
           "wire", "capture"}
  MaxPublish = 5
  BusNodes = {0, 2}
  BusTargets <- JointAndGripper
  BusGripper = 2
  BusStale = 2
  BusLost = 3
  BusShots = {3}
  BusSelfcheck = 1
  BusSettle = 1
  BusOps = {"clear", "flash"}
  InitUps = {{0, 2}}
  BusCuts = 1
  BusCmds = 2
  RingCapacity = 2
  RingMarkers = {"server", "planner"}
  RingPushes = 3
  RingGenerations = 3
  HomeJoints = {"j1", "j2"}
  HomeGripper = "g"
  HomeGripperMode = "firmware"
  HomeHalls = {"j1"}
  HomeTwoPass = {"j2"}
  HomeReleases = {"j2"}
  HomePosts = {"j2"}
  HomeSteps <- HomingSteps
  HomeGlobalPost <- HomingPost
  HomeTimeout = 5
  HomeBackoff = 1
  HomeRamp = 1
  HomeDwell = 1
  HomePause = 1
  HomeSettle = 1
  HomePreclear = 3
  HomeStall = 1
  HomeGuard = 0
  HomeHold = 1
  HomeSample = 1
  HomePostTicks = 1
  HomeStreak = 1
  HomePrePost = 1
  HomeMove = 1
  HomeMoveTo = 1
  HomeCalTimeout = 3
  HomeCalMin = 2
  HomeCheck = 1
  HomeSlack = 2
  HomeLosses = 1
  HomeRuns = 2
  LinkEvents = 2
  LinkClears = 1
  ScopeLen = 4
  ScopeWanted = {3, 5}
  ScopeDivisors = {0, 2}
  ScopePerTick = 3
  ScopeCaptures = 2
  ScopeDrops = 1
  PollTargets = 2
  PollFallback = 2
  PollSweep = 5
  PollWrap = 12
  PollRepeats = 1
  BoxReads = 3
  BoxWrites = 2
  JawsClosed = 2
  JawsObstacles <- FreeOrJammed
  JawsGrace = 3
  JawsDebounce = 2
  JawsMoveTimeout = 6
  JawsCalTimeout = 6
  JawsCalMin = 3
  JawsRepeats = 3
  JawsSweep = 2
  JawsWatchdog = 2
  JawsActions = 2
  JawsLosses = 1
  SimSpan = 2
  SimTurn = 2
  SimHallAt = 1
  SimWatchdog = 2
  SimDelay = 1
  SimRxCap = 2
  SimRxPerTick = 2
  SimInfoPeriod = 2
  SimIds = {1, 3}
  SimCommands <- SeekCommands
  SimOps = 1
  SimDrops = 0
INVARIANTS
  NeverTorn  SeekIsBounded FaultsStayVisible DrivesAccounted
  JawsAreHeard WireIsFaithful LinkIsTrusted ReadBackIsWhole
PROPERTIES RingIsAQueue SimIsCurrent PressIsSeen
CHECK_DEADLOCK FALSE
