SPECIFICATION Spec
CONSTANTS
  Address = {"a", "b"}
  Asset = {"A", "B"}
  Oracle = {"o"}
  NoOracle = NoOracle
  Funds <- Purse
  Legacy <- Old
  Offer <- Offered
  Payment = {1, 4}
  Price <- Prices
  CloseDelay = 1
  MaxRefills = 1
  MaxDispenses = 2
  DustSize = 1
  FeePart = 1
  Mantissa = 8
  FirstBlock = 1
  LastBlock = 4
  MaxTxs = 5
INVARIANTS
  OneLiveDispenser
  EscrowIsAccounted
  StopsForAReason
PROPERTIES
  NoWayBack
CHECK_DEADLOCK FALSE
