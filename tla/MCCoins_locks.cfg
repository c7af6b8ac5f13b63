SPECIFICATION Spec
CONSTANTS
  t1 = t1
  t2 = t2
  Thread <- MCThread
  Coin <- MCCoin
  Address <- MCAddress
  Requests <- MCRequests
  Estimate = 20000
  FallsShort <- MCFallsShort
  MaxAge = 1
  MaxAddresses = 1
  MaxTime = 1
  MaxCompositions = 3
SYMMETRY ThreadsAreAlike
PROPERTIES
  LocksKeepCoinsApart
  CoinsPayForIt
  RefusedOnlyIfPoor
CHECK_DEADLOCK FALSE
