SPECIFICATION FairRecorder
CONSTANTS
  QueueCap = 4
  MaxSegment = 5
  SEGMENT_FRAMES = 2
  SEGMENTS = 2
  STATE_LIMIT = 5
  SNAPSHOT_LIMIT = 2
  HISTORY_LIMIT = 3
  SnapshotSizes = {1, 2, 3}
  Machines = {0}
  Inputs = {0}
  Views = {0}
  SavedStates <- OneSaved
  InitialMachine = 0
  InitialView = 0
  Step <- SameStep
  EnvRecord = FALSE
  MaxFrames = 6
  MaxEvents = 2
INVARIANTS
  TypeOK
  HistoryWithinLimit
  LedgerExact
  DiskWithinLimit
  LedgerMatchesDisk
  WriterProtocol
PROPERTIES
  BeginReturns
