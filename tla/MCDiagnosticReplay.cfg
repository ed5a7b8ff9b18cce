SPECIFICATION Spec
CONSTANTS
  QueueCap = 4
  MaxSegment = 3
  SEGMENT_FRAMES = 2
  SEGMENTS = 2
  STATE_LIMIT = 2
  SNAPSHOT_LIMIT = 1
  HISTORY_LIMIT = 2
  SnapshotSizes = {1}
  Machines = {0, 1}
  Inputs = {0, 1}
  Views = {0, 1}
  SavedStates <- MixSaved
  InitialMachine = 0
  InitialView = 0
  Step <- MixStep
  EnvRecord = TRUE
  MaxFrames = 3
  MaxEvents = 2
INVARIANTS
  OwnTapesReplay
  ClosedTapesPass
  InterruptedTapeUsable
  OwnTapesInspected
  NoUnrecordedFrame
PROPERTIES
  ArchiveSpec
