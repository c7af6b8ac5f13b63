SPECIFICATION FairSpec
CONSTANTS
  Body <- Mixed
  Address = {1}
  MaxBlock = 3
  Base = 1
  MaxReorgs = 1
  MaxRestarts = 1
INVARIANTS
  TypeOK
  TablesAreReplayed
  WholeUntilRollback
PROPERTIES
  LastEventAgrees
  SuppliesAreTracked
CHECK_DEADLOCK FALSE
