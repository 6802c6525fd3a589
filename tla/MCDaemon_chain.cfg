SPECIFICATION MCSpec
CONSTANTS
  Parts = {"planner"}
  PlanCommands <- Chain
  PlanBatch = 2
  PlanStarts = 1
  CalPoses = 2
  CalLosses = 2
  WaitKinds <- ParkedKinds
  WaitCap = 2
  WaitScanIds = 1
  WaitSettle = 1
  WaitRequests = 2
  IntakeKinds <- Datagrams
  IntakeDrain = 2
  IntakeSent = 3
  ChunkRequests = {1, 2, 3}
  ChunkTransferOf <- SharedTransfer
  ChunkPartsOf <- ShortAndLong
  ChunkMaxParts = 3
  ChunkMaxTransfers = 1
  ChunkAttempts = 2
  ClientRequests = 2
  ClientOthers = 1
  ClientRestarts = 1
  ClientStatus = 1
  ClientErrors = 1
  ClientAttempts = 1
  ClientKept = 1
  ProcJoints = 1
  ProcCapacity = 2
  ProcDriven = {"ssg"}
  ProcKnown = {"flange", "ssg"}
  ProcAttempts = 2
  ProcSim = {TRUE, FALSE}
  ProcPark = TRUE
  ProcParkTicks = 1
  ProcSettleTicks = 2
  ProcOps = 2
  ProcCmds = 0
  ProcFaults = 0
  ProcDeaths = 1
  StatusStrides = {1, 2}
  StatusTransports = {"multicast"}
  StatusSendErrors = 3
  StatusStale = 0
  StatusTicks = 1
  StatusQueued = 2
  ViewKinds <- PreviewLines
  ViewStride = 2
  ViewLookahead = 2
  ViewCommands = 3
  RunKinds <- ProgramLines
  RunLength = 3
  RunStride = 2
  RunBudget = 4
  StatusFaults = 1
PROPERTIES NeverDrivenIn
CHECK_DEADLOCK FALSE
