SPECIFICATION Spec
CONSTANTS
  Pid = {p1, p2}
  NoPid = NoPid
  Slot = {s1, s2}
  Configs <- SafetyConfigs
  FailureThreshold = 2
  MaxForks <- SafetyForks
  MaxBundles <- SafetyBundles
SYMMETRY Symmetry
INVARIANTS
  TypeOK
  NoRespawnWhileAlive
  OnlyFailuresRestarted
  StoppedIsDead
  OneLateRespawn
