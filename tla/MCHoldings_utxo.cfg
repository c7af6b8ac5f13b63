SPECIFICATION Spec
CONSTANTS
  alice = alice
  bob = bob
  carol = carol
  burned = burned
  Address = {alice, bob, carol, burned}
  Asset = {"XCP", "A"}
  XCP = "XCP"
  OpReturn = OpReturn
  Unspendable = burned
  Nobody = Nobody
  Genesis <- Owners
  Funds <- Purse
  Issuers <- IssuedAt
  Form <- All3
  Period = 1
  GasFee <- Gas
  SweepFee = 1
  FirstBlock = 1
  LastBlock = 3
  FollowsFrom = 2
  MaxTxs = 3
INVARIANTS
  TypeOK
  CacheCoversAttached
  NothingIsLeftBehind
PROPERTIES
  OnlyTheirOwn
CHECK_DEADLOCK FALSE
