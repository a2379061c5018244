SPECIFICATION Spec
CONSTANTS
  Configs     <- MCGoodFiles
  EditValues  <- MCAllBytes
  NoiseValues = {}
CHECK_DEADLOCK FALSE
INVARIANTS
  LowBatteryIsBounded
