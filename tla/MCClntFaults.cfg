SPECIFICATION FairSpec
CONSTANTS
  NO_BANK = 3
  NO_BIND = 1
  MAX_XOFF_WAIT = 2
  flag_bind = TRUE
  NoFiles = 2
  LastSeq <- MCFiveChunks
  Roles = {"middle", "last"}
  MaxBehind = 1
  CHECKTRAILER = {0, 1}
  SEARCH_FLAG = {0, 1}
  GET_NAME_LEN = {0, 1}
  Faults = {"disk", "inlost", "reconnect", "bind", "lost", "error", "refused", "xoff", "badcmd"}
INVARIANTS TypeOK BanksApart DiskIsPrefix DoneMeansCopied
PROPERTY EndsUnlessCut
CHECK_DEADLOCK FALSE
