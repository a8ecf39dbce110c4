SPECIFICATION FairSpec
CONSTANTS
  NO_BANK = 3
  NO_BIND = 1
  MAX_XOFF_WAIT = 2
  flag_bind = TRUE
  NoFiles = 2
  LastSeq <- MCTwoFiles
  NoHosts = 3
  CHECKTRAILER = {0, 1}
  MaxLag = 2
  Faults = {"disk","lost","error","refused","xoff","badcmd"}
INVARIANTS TypeOK HandIntact RecoveryServes RefusalJustified
PROPERTY AlwaysEnds
