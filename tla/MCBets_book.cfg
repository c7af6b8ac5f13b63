SPECIFICATION Spec
CONSTANTS
  Address = {"a", "b", "f"}
  Feed = {"f"}
  Funds <- Purse
  Message <- Sent
  News <- Said
  Unit = 3
  TwoWeeks = 2
  Times = {1, 5}
  FirstBlock = 1
  LastBlock = 3
  MaxTxs = 5
INVARIANTS
  TypeOK
  OddsAreKept
  WagerIsAccounted
  PendingIsUndecided
  BookIsNotCrossed
CHECK_DEADLOCK FALSE
