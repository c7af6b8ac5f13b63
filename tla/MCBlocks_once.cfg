SPECIFICATION FairSpec
CONSTANTS
  Label = {1, 2}
  MaxHeight = 4
  MaxReorgs = 1
  MaxFailures = 1
  MaxCommands = 1
  TABLES <- MCTables
INVARIANTS
  LinkedWithOneReorg
  RowsHaveTheirBlock
  AssertionsHold
PROPERTIES
  HandsOverAtTheTip
  AnnouncedBlocksAreFollowed
CHECK_DEADLOCK FALSE
