SPECIFICATION Spec
CONSTANTS
  N = 4
  Name = {1, 2, 3, 4, 11, 21}
  Place = {1, 2}
  Catalogs <- AllGraphs
  Bootstrap <- MCBootstrap
  Launchers = {21}
  Units = {}
  Endless = {}
  MaxJobs = 0
  MaxFires = 0
  MaxSignals = 0
INVARIANTS
  WavesRespectDeps
  WavesAreEarliest
  SortIsComplete
  BootOrder
CHECK_DEADLOCK FALSE
