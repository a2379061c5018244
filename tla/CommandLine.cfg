SPECIFICATION Spec
CONSTANTS
  Lines  <- MCLines
  Usages <- MCUsages
  Null   = Null
CHECK_DEADLOCK FALSE
INVARIANTS
  TypeOK
  NoNullArgument
  UsageIsUnderstood
PROPERTIES
  EveryLineEnds
