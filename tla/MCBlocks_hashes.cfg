SPECIFICATION Spec
CONSTANTS
  Label = {1, 2}
  MaxHeight = 4
  MaxReorgs = 1
  MaxFailures = 0
  MaxCommands = 0
  TABLES <- MCTables
INVARIANTS
  HashesFollowTheChain
CHECK_DEADLOCK FALSE
