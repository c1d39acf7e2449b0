SPECIFICATION Spec
CONSTANTS
  None = None
  u1 = u1
  u2 = u2
  p1 = p1
  Uid = {u1, u2}
  Pid = {p1}
  MaxVt = 63
  MaxRequests = 3
  Capable = {"suspend"}
  IgnoresBlocks = {}
  IdlePolls = 1
  Workloads <- Loads
INVARIANTS
  PowerRespectsBlock
  DirLostOnlyByLateCleanup
  DeadOnSeatOnlyByOvertaking
PROPERTIES
  Answered
CHECK_DEADLOCK FALSE
