SPECIFICATION Spec
CONSTANTS
  Launches <- AnyStreams
  MaxIni = 2
INVARIANT SessionLogged
