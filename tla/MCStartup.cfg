SPECIFICATION Spec
CONSTANTS
  Names <- MCNames
  HostLists <- MCHostLists
  MostFiles = 2
  MAXFILES = 2
  MAXHOSTS = 3
  Flags = {"AVAIL_HOST", "BAD_HOST"}
  Garbage <- MCGarbage
  Half = 256
  NameLength <- MCNameLength
INVARIANTS ReadAsMeant CookedAsNamed  RingAgreesWithFile
