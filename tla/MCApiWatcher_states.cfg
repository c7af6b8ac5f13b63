SPECIFICATION Spec
CONSTANTS
  Body <- Cancelled
  Address = {1}
  MaxBlock = 2
  Base = 1
  MaxReorgs = 1
  MaxRestarts = 0
INVARIANTS
  StatesAreReplayed
CHECK_DEADLOCK FALSE
