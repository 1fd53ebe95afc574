SPECIFICATION FairSpec
CONSTANTS
  cA = cA
  cB = cB
  Configs <- MCConfigs
  Size <- MCSize
  Handlers = {h1}
  NoConfig = NoConfig
  Torn = Torn
  Managed = TRUE
  VolumeMayFail = FALSE
PROPERTY GateReopens
