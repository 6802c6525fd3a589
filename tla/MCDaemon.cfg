SPECIFICATION MCSpec
CONSTANTS
  Parts = {"bridge", "gate", "client", "calibrate", "preview", "run", "verdicts", "planner", "process", "intake", "status", "frames", "chunks"}
  PlanCommands <- Singles
  PlanBatch = 1
  PlanStarts = 2
  CalPoses = 2
  CalLosses = 2
  WaitKinds <- ParkedKinds
  WaitCap = 2
  WaitScanIds = 1
  WaitSettle = 1
  WaitRequests = 3
  IntakeKinds <- Datagrams
  IntakeDrain = 2
  IntakeSent = 3
  ChunkRequests = {1, 2, 3}
  ChunkTransferOf <- SharedTransfer
  ChunkPartsOf <- ShortAndLong
  ChunkMaxParts = 3
  ChunkMaxTransfers = 1
  ChunkAttempts = 2
  ClientRequests = 2
  ClientOthers = 1
  ClientRestarts = 1
  ClientStatus = 1
  ClientErrors = 1
  ClientAttempts = 1
  ClientKept = 1
  ProcJoints = 1
  ProcCapacity = 2
  ProcDriven = {"ssg"}
  ProcKnown = {"flange", "ssg"}
  ProcAttempts = 2
  ProcSim = {TRUE, FALSE}
  ProcPark = TRUE
  ProcParkTicks = 1
  ProcSettleTicks = 2
  ProcOps = 1
  ProcCmds = 0
  ProcFaults = 0
  ProcDeaths = 1
  StatusStrides = {1, 2}
  StatusTransports = {"multicast"}
  StatusSendErrors = 3
  StatusStale = 0
  StatusTicks = 1
  StatusQueued = 1
  ViewKinds <- PreviewLines
  ViewStride = 2
  ViewLookahead = 2
  ViewCommands = 3
  RunKinds <- ProgramLines
  RunLength = 3
  RunStride = 2
  RunBudget = 4
  StatusFaults = 1
INVARIANTS
  NoLinkLost GateHolds  LeftAsFound RowsAreTheLines RecordTellsTheRun
  OkIsEarned OpsBreakTheLoop  StatusHeard FrameIsCurrent
  TransfersAreSound
PROPERTIES NeverDrivenIn
CHECK_DEADLOCK FALSE
