SPECIFICATION Spec
CONSTANTS
  Ids = 5
  Loads <- StreamLoads
INVARIANTS
  SendBufInBounds
  NoFlushUnderCopy
PROPERTY
  StreamSpec
