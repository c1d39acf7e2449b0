SPECIFICATION FairSpec
CONSTANTS
  N = 2
  Name = {1, 2, 11, 21}
  Place = {1}
  Catalogs <- SomeGraphs
  Bootstrap <- MCBootstrap
  Launchers = {21}
  Units = {2, 21}
  Endless = {2}
  MaxJobs = 1
  MaxFires = 2
  MaxSignals = 2
INVARIANTS
  BootedInOrder
  OneLateActivation
PROPERTY
  SeenRequestEnds
CHECK_DEADLOCK FALSE
