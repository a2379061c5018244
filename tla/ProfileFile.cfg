SPECIFICATION Spec
CONSTANTS
  Path       = {one, other}
  Order      <- MCOrder
  Number     = {7, 120}
  HandEdited <- MCHandEdited
  MaxCalls   = 4
SYMMETRY MCSymmetry
INVARIANTS
  TypeOK
  NumbersSurvive
  SavesAreCuts
  TornFilesLoseTheirTail
  ExistsMeansOnDisk
