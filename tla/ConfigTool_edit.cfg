SPECIFICATION Spec
CONSTANTS
  Configs     <- MCGoodFiles
  EditValues  <- MCAllBytes
  NoiseValues <- MCAllBytes
CHECK_DEADLOCK FALSE
INVARIANTS
  WheelIndexInRange
  WrittenIsReadBack
  RejectionNamesEdit
PROPERTIES
  OnlyTheWrittenSectionMoves
