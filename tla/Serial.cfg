SPECIFICATION Spec
CONSTANTS
  Object      = {first, second, third}
  Port        = {com1, com2}
  None        = None
  ReadMax     = 2
  MaxBytes    = 2
  MaxConnects = 3
SYMMETRY MCSymmetry
INVARIANTS
  TypeOK
  PortsAreOwned
  StreamIsKept
PROPERTIES
  BeliefsStayTrue
