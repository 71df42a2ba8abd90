SPECIFICATION FairSpec
CONSTANTS
  NoMemory = TRUE
INVARIANTS NicOnRings RingsInUse DownIsQuiet
PROPERTIES WaitsEnd
