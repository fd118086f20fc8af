SPECIFICATION Spec
CONSTANTS
  NSock = 2
  CtxBlocks = 2
  MaxCount = 2
  Blocks = {b1, b2, b3}
  Payloads = {"hello", "request", "alert", "plain"}
  Stalling = {1}
SYMMETRY BlockSymmetry
INVARIANTS
  NoLostWakeup
  
  ActiveHasContext
  ResponseOfSession
PROPERTY
  ConnectionsSpec
