SPECIFICATION LiveSpec
CONSTANTS
  Port        = {p1, p2}
  NoPort      = NoPort
  Message     <- MCFrameMessages
  Noise       = {}
  MaxSends    = 3
  ReadSize    = {1, 9}
  Fault       = {}
  GeneralFile <- MCNoFile
  ConfigFile  <- MCConfigEl
INVARIANTS
  RequestsKeepTheirFrame
  WheelIndexInRange
PROPERTIES
  Answered
