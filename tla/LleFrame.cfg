SPECIFICATION FairSpec
CONSTANTS
  Cpus = {0}
  BootCpu = 0
  Pcs = {1}
  ResetPc = 1
  Execs = {0, 1}
  BootExec = 0
  FrameClocks = 1
  Advances = {0, 5}
  Overrun = 1
  MaxSlices = 2
  MaxFrames = 2
  MaxLeaks = 0
INVARIANTS
  TypeOK
  CursorConsistent
  FrameCapped
PROPERTIES
  RoundTrip
  NoNmiInBootFrame
  FrameEnds
