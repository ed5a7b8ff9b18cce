SPECIFICATION Spec
CONSTANTS
  Body <- MCBody
  Stages <- MCStages
  Extras = {0, 43, 86}
  EnvSpawn = TRUE
  ResizeAt = {390, 2225}
  Cameras <- MCCameras
  Moves <- MCMoves
  RecordXs <- MCRecords
  Tiers = {"generated", "interpreter"}
INVARIANTS
  NoPopIn
  TiersAgree
PROPERTIES
  AllocatedIsActive
  EncounterWaits
