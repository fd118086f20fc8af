SPECIFICATION FairSpec
CONSTANTS
  NSock = 2
  CtxBlocks = 2
  MaxCount = 2
  Blocks = {b1, b2}
  Payloads = {"hello", "request"}
  Stalling = {1}
PROPERTIES
  ServesWhileUp
  BytesAnswered
