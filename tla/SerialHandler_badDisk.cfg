SPECIFICATION Spec
CONSTANTS
  Port        = {p1, p2}
  NoPort      = NoPort
  Message     <- MCDiskMessages
  Noise       = {}
  MaxSends    = 2
  ReadSize    = {}
  Fault       = {"timeout", "read", "open", "diskfull", "kill"}
  GeneralFile <- MCNoFile
  ConfigFile  <- MCConfigFiles
SYMMETRY Ports
INVARIANTS
  OnlyTornIsRefused
  ExistsMeansOnDisk
PROPERTIES
  OnlyCommitsMove
