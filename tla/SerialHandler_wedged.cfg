SPECIFICATION LiveSpec
CONSTANTS
  Port        = {p1}
  NoPort      = NoPort
  Message     <- MCGoodRequest
  Noise       <- MCBadPacket
  MaxSends    = 2
  ReadSize    = {}
  Fault       = {}
  GeneralFile <- MCNoFile
  ConfigFile  <- MCNoFile
PROPERTIES
  Answered
