SPECIFICATION FairSpec
CONSTANTS
  NO_BANK = 5
  NO_BIND = 2
  MAX_XOFF_WAIT = 2
  flag_bind = TRUE
  NoFiles = 2
  LastSeq <- MCLong
  Roles = {"middle"}
  MaxBehind = 0
  CHECKTRAILER = {0, 1}
  SEARCH_FLAG = {0, 1}
  GET_NAME_LEN = {0, 1}
  Faults = {}
INVARIANT ForwardedFirst
PROPERTIES ForwardsTheStream CopiesUnlessRefused
