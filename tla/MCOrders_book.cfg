\* The exchange with three orders of two traders over five blocks.
SPECIFICATION Spec
CONSTANTS
  Addresses = {"alice", "bob"}
  BTC = "BTC"
  XCP = "XCP"
  Assets = {"A", "XCP"}
  Funds <- MCFunds
  Offers <- Market
  MinBTC = 2
  MatchLife = 1
  CleanAge = 2
  FirstBlock = 4
  MaxBlock = 7
  MaxOrders = 3
INVARIANTS
  TypeOK
  TradesAreFair
  PendingIsTimely
  BookIsNotCrossed
PROPERTIES
  EveryStepConserves
  SettledOnce
  DroppedForGood
CHECK_DEADLOCK FALSE
