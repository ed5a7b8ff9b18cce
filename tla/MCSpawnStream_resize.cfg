SPECIFICATION Spec
CONSTANTS
  Body <- MCBody
  Stages <- MCOpenStage
  Extras = {0, 86}
  EnvSpawn = TRUE
  ResizeAt = {64}
  Cameras <- MCResizeCameras
  Moves <- MCMoves
  RecordXs <- MCResizeRecords
  Tiers = {"generated"}
INVARIANTS
  NativeViewPopulated
