SPECIFICATION FairPlayer
CONSTANTS
  Machines = {0, 1}
  Inputs = {0, 1}
  Views = {0, 1}
  Step <- MixStep
  Tapes <- MCTapes
  BootMachine = 0
  BootView = 0
  BootInput = 0
  Extended <- ExtendedView
INVARIANTS
  VerdictIsRight
  AllCheckpointsMatched
  InspectionAgrees
  UntilIsReproducible
PROPERTIES
  PlaybackEnds
