SPECIFICATION Spec
CONSTANTS
  None = None
  Lates <- MCLates
  Jumps <- MCJumps
  Modulus = 1073741824
  MaxFd = 9
  MaxFaults = 1
  MaxLaunch = 2
  Workloads <- MCWorkloads
INVARIANTS SleepsToTheNext OneFirePerInstant
  ConfinedAtExec SocketsInOrder ArgvAsQuoted
PROPERTIES OverdueIsSent FireIsTaken
CHECK_DEADLOCK FALSE
