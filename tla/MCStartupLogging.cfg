SPECIFICATION Spec
CONSTANTS
  Launches <- OpenStreams
  MaxIni = 2
INVARIANT DescriptorsReturned
INVARIANT SessionLogged
