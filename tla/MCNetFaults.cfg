SPECIFICATION FairSpec
CONSTANTS
  NoPackets = 3
  Size <- PacketSizes
  SocketBuffer = 4
  MAX_XOFF_WAIT = 2
  MaxGarbage = 3
  FaultSets <- MCFaultSets
INVARIANT DeliveredIntact
PROPERTIES CallsReturn EverythingArrives
