SPECIFICATION Spec
CONSTANTS
  MaxRestarts = 2
  Window = 3
  Horizon = 9
INVARIANTS
  BoundedInAnyWindow
PROPERTY
  GivesUpOnlyOnLoop
CHECK_DEADLOCK FALSE
