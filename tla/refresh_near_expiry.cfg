SPECIFICATION Spec
CONSTANTS
  MaxRefresh = 120
  MinRefresh = 4
  RetryBackoff = 2
  ExpiryMargin = 8
  DiscoverTimeout = 3
  Lifetimes <- MCNearExpiry
  Told = {TRUE}
  MayFail = FALSE
INVARIANT TokenNeverLapses
