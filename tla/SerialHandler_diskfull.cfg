SPECIFICATION Spec
CONSTANTS
  Port        = {p1, p2}
  NoPort      = NoPort
  Message     <- MCStoreMessages
  Noise       = {}
  MaxSends    = 2
  ReadSize    = {}
  Fault       = {"diskfull"}
  GeneralFile <- MCNoFile
  ConfigFile  <- MCConfigFiles
SYMMETRY Ports
INVARIANTS
  SuccessIsStored
