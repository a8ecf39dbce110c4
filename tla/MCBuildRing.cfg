SPECIFICATION Spec
CONSTANTS
  NoHosts = 4
  MAXRETRY = 3
  GET_NAME_LEN = {0, 1}
  NamePrefix <- MCPrefixes
  MAX_PACKET_ENTRY_NO = 8
  FaultSets <- MCFaultSets
INVARIANTS TypeOK FindsItself RingIsClosed ListsAgree
PROPERTY RingIsBuilt
CHECK_DEADLOCK FALSE
