SPECIFICATION FairSpec
CONSTANTS
  NO_BANK = 3
  NO_BIND = 1
  MAX_XOFF_WAIT = 1
  CHECKTRAILER = {0, 1}
  NoFiles = 2
  LastSeq <- MCTwoFiles
  SocketSpace = 1
  RelaySpace = 1
  MaxLag = 8
  MayCrash = TRUE
INVARIANTS WholeStaysPrefix FinishedHasAll
PROPERTIES BypassCompletes CopyArrives EveryoneEnds
