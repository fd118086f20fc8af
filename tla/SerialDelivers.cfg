SPECIFICATION LiveSpec
CONSTANTS
  Ids = 8
  Loads <- Steady
PROPERTY
  Delivered
