SPECIFICATION GSpec
CONSTANTS
  cA = cA
  cB = cB
  Configs <- MCConfigs
  Size <- MCSize
  Handlers = {h1}
  NoConfig = NoConfig
  Torn = Torn
  Managed = TRUE
  VolumeMayFail = FALSE
  Conns = {c1}
  Sizes = {1}
  RelayLimit = 16777216
  BodyLimit = 1048576
  MaxSent = 1
INVARIANTS SettledOnDisk ReappliedIsLatest RunsOnVetted
PROPERTY ImplementsProxy
SYMMETRY Symmetry
