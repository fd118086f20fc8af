SPECIFICATION SpiSpec
CONSTANTS
  Packets = 2
  Rounds = 2
  DATA_BUF_SIZE = 2
  Tokens = 2
  Cores = {1}
  Stack <- Filled
  Loads <- Served

  
PROPERTIES
  
  ListensAgain
  ExchangesEnd
CHECK_DEADLOCK FALSE
