SPECIFICATION FairSpec
CONSTANTS
  NO_BANK = 3
  NO_BIND = 1
  MAX_XOFF_WAIT = 2
  flag_bind = TRUE
  NoFiles = 2
  LastSeq <- MCTwoFiles
  Roles = {"middle"}
  MaxBehind = 0
  CHECKTRAILER = {0}
  SEARCH_FLAG = {0}
  GET_NAME_LEN = {0}
  Faults = {}
INVARIANT NoFaultNoExit
