\* check.asset_conservation at every step.
SPECIFICATION Spec
CONSTANTS
  Addresses = {"alice", "bob"}
  BTC = "BTC"
  XCP = "XCP"
  Assets = {"A", "XCP"}
  Funds <- MCFunds
  Offers <- Market
  MinBTC = 2
  MatchLife = 1
  CleanAge = 2
  FirstBlock = 4
  MaxBlock = 7
  MaxOrders = 3
INVARIANT AssetConservation
CHECK_DEADLOCK FALSE
