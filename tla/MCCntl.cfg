SPECIFICATION FairSpec
CONSTANTS
  Askers = {"a", "b"}
  LastFd = 4
  Transfers <- MCTransfers
  Quitters = {"b"}
  CHECKTRAILER = {0, 1}
INVARIANTS ExpSockIsPort OnlyRequestsEnd
PROPERTY AskersGetOn
