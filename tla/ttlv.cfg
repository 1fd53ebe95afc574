SPECIFICATION Spec
CONSTANTS
  Tags <- MCTags
  Messages <- MCMessages
  Raw <- MCRaw
  NoMessage = NoMessage
INVARIANTS StripsExactly Idempotent FramingKept
CHECK_DEADLOCK FALSE
