SPECIFICATION FairSpec
CONSTANTS
  cA = cA
  cB = cB
  Configs <- MCConfigs
  Size <- MCSize
  Handlers = {h1, h2}
  NoConfig = NoConfig
  Torn = Torn
  Managed = TRUE
  VolumeMayFail = TRUE
INVARIANTS TypeOK NoLostReload GateOpenOnlyConfigured
PROPERTY Converges
