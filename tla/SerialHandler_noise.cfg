SPECIFICATION Spec
CONSTANTS
  Port        = {p1}
  NoPort      = NoPort
  Message     <- MCNoisyMessages
  Noise       <- MCNoise
  MaxSends    = 3
  ReadSize    = {1, 9}
  Fault       = {"timeout"}
  GeneralFile <- MCNoFile
  ConfigFile  <- MCNoFile
INVARIANTS
  OnlySentIsWritten
PROPERTIES
  WedgedForever
