SPECIFICATION Spec
CONSTANTS
  Body <- MCBody
  Stages <- MCZeroStage
  Extras = {214}
  EnvSpawn = TRUE
  ResizeAt = {}
  Cameras <- MCZeroCameras
  Moves <- MCMoves
  RecordXs <- MCZeroRecords
  Tiers = {"generated"}
PROPERTIES
  EncounterWaits
