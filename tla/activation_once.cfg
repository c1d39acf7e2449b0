SPECIFICATION Spec
CONSTANTS
  None = None
  Lates <- MCLates
  Jumps <- MCJumps
  Modulus = 1073741824
  MaxFd = 9
  MaxFaults = 1
  MaxLaunch = 2
  Workloads <- MCPlain
PROPERTY EveryFireActivates
CHECK_DEADLOCK FALSE
