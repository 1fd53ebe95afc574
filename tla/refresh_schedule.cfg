SPECIFICATION FairSpec
CONSTANTS
  MaxRefresh = 120
  MinRefresh = 4
  RetryBackoff = 2
  ExpiryMargin = 8
  DiscoverTimeout = 3
  Lifetimes <- MCLifetimes
  Told = {TRUE, FALSE}
  MayFail = TRUE
INVARIANTS TypeOK SoundTokenAlive SoundTokenReserve
PROPERTY LapseHeals
