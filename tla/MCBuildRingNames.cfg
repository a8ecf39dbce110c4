SPECIFICATION Spec
CONSTANTS
  NoHosts = 2
  MAXRETRY = 3
  GET_NAME_LEN = {0}
  NamePrefix <- MCNoPrefixes
  MAX_PACKET_ENTRY_NO = 8
  FaultSets <- MCNoFault
PROPERTY LengthOfTheName
CHECK_DEADLOCK FALSE
