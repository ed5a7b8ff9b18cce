SPECIFICATION Spec
CONSTANTS
  Size <- MCSize
  Carts <- MCCarts
  StreamAt <- MCStreamAt
  Authored <- MCAuthored
  ImmMax = 6
  ImmExpected = 5
  Extras <- MCExtras
  EnvSpawn = TRUE
  Probes <- MCProbes
INVARIANT RomMatchesView
INVARIANT EdgesWiden
INVARIANT OnlyKnownSitesChange
