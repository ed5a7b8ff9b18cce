SPECIFICATION PresentationSpec
CONSTANTS
  Drawables <- MCDrawables
  ResizedTo <- MCResizedTo
  ExtraMax <- MCExtraMax
  Cameras <- MCCameras
  Offsets <- MCOffsets
  Scenes <- MCScenes
  Rooms <- MCRooms
INVARIANTS
  FrameWidthUsable
  ViewportFits
  NoSeam
  ScrollRecovered
  OnlyBarsMove
  BarsReachTheEdges
