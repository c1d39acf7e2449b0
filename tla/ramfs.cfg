SPECIFICATION RamfsSpec
CONSTANTS
  None = None
  Devices <- MCDevices
  Fallbacks <- MCFallbacks
  Machines <- MCMachines
  MaxFaults = 2
INVARIANTS AskedRootWins CleanedUp
  RunsWhatWasMeasuredIfAgreed
PROPERTIES BootEnds KeepsPromise
CHECK_DEADLOCK FALSE
