SPECIFICATION FairSpec
CONSTANTS
  Conns = {c1}
  Vaults <- MCVaults
  Sizes <- MCSizes
  RelayLimit = 16777216
  BodyLimit = 1048576
  MaxSent = 3
INVARIANTS TypeOK AnswersPaired OneInDoubt NoGap
PROPERTY AnsweredOrClosed
