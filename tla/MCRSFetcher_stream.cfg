\* The fetcher stopped and started again, as catch_up() does.
SPECIFICATION FairSpec
CONSTANTS
  Label = {1, 2}
  Tips <- Four
  MaxHeight = 4
  Fetchers = {f1, f2}
  Capacity = 1
  ReorgWindow = 1
  MaxReorgs = 1
  MaxFailures = 1
  MaxStarts = 2
INVARIANTS
  OrderInvariant
PROPERTIES
  StreamSpec
  TipIsDelivered
CHECK_DEADLOCK FALSE
