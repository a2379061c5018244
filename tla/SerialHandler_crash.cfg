SPECIFICATION Spec
CONSTANTS
  Port        = {p1, p2}
  NoPort      = NoPort
  Message     <- MCStoreMessages
  Noise       = {}
  MaxSends    = 3
  ReadSize    = {}
  Fault       = {"connect", "write", "kill"}
  GeneralFile <- MCNoFile
  ConfigFile  <- MCConfigFiles
SYMMETRY Ports
INVARIANTS
  TypeOK
  MutexOwner
  CopyIsFresh
  ServedIsAccepted
  ExistsMeansOnDisk
  MemoryIsOnDisk
  SuccessIsStored
PROPERTIES
  OnlyCommitsMove
  ImplementsConfigStore
