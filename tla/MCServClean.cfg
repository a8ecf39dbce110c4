SPECIFICATION FairSpec
CONSTANTS
  NO_BANK = 5
  NO_BIND = 2
  MAX_XOFF_WAIT = 2
  flag_bind = TRUE
  NoFiles = 2
  LastSeq <- MCLong
  NoHosts = 1
  CHECKTRAILER = {1}
  MaxLag = 2
  Faults = {}
INVARIANTS BankExclusive BindHoldsBack
PROPERTY SendsTheStream
