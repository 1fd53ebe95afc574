SPECIFICATION Spec
CONSTANTS
  Vaults = {v1, v2}
  Requested = {n1}
  Generated = {}
  NoName = NoName
  NoVault = NoVault
  Clients = {c1, c2}
  AskedTypes = {"PublicKey", "SecretData"}
  AskedAlgs = {"AES", "HMAC"}
  StoredKinds = {"hmac", "other"}
  AskedKinds = {"aes", "none"}
  MaxAttrs = 2
  MaxStored = 1
  MaxKeys = 2
  MaxLate = 1
SYMMETRY MCSymmetry
INVARIANTS TypeOK CreatedIsThere AttributesTruthful
PROPERTY AtomicStore
