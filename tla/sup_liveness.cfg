SPECIFICATION FairSpec
CONSTANTS
  Pid = {p1, p2}
  NoPid = NoPid
  Slot = {s1}
  Configs <- LivenessConfigs
  FailureThreshold = 2
  MaxForks <- LivenessForks
  MaxBundles <- LivenessBundles
PROPERTIES
  ZombiesReaped
  ExitIsRestarted
  StopReturns
