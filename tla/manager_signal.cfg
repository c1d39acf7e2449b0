SPECIFICATION FairSpec
CONSTANTS
  N = 2
  Name = {1, 2, 11, 21}
  Place = {1}
  Catalogs <- SomeGraphs
  Bootstrap <- MCBootstrap
  Launchers = {21}
  Units = {2, 21}
  Endless = {}
  MaxJobs = 0
  MaxFires = 0
  MaxSignals = 1
PROPERTY
  SignalIsExecuted
CHECK_DEADLOCK FALSE
