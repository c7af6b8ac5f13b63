SPECIFICATION Spec
CONSTANTS
  Address = {"issuer", "minter"}
  Unspendable = "unspendable"
  NoAddress = "none"
  Asset = {"A", "S"}
  XCP = "XCP"
  NoAsset = "none"
  Parent <- ParentOf
  Named = {"A"}
  Funds <- XcpOf
  IssuanceFee = 1
  HolderFee = 1
  Unit = 2
  MaxInt = 5
  Issuance <- Messages
  Destroy = {1}
  PerUnit = {1}
  OrderQuantity = {1}
  MaxTxs = 4
  Terms <- TermsOffered
  MintQuantity = {1, 2}
  CommissionUnit = 4
  FirstBlock = 1
  LastBlock = 3
INVARIANTS MintEscrowIsCovered HardCapUnlessMisled MintingEnds
PROPERTIES RightsAreKept
CHECK_DEADLOCK FALSE
