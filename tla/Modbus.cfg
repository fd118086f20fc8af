SPECIFICATION Spec
CONSTANTS
  Requests = 3
  Parts = 3
  Room = 4
  MB_RETRY_MAX = 3
  Tokens = 2
  Faults = 3
  Loads <- Patient
INVARIANTS
  RepliesAnswer
  

  
