SPECIFICATION Spec
CONSTANTS
  Workers   = 2
  main      = 0
  Files     = {"general", "config"}
  NoThread  = NoThread
  Thread    <- MCThread
  MaxMisses = 1
  MaxRows   = 2
  MaxRounds = 1
INVARIANTS
  TypeOK
  LinesAreWhole
  LogsAgree
  ProfilesOutliveWorkers
  DumpsAreWhole
PROPERTIES
  EveryPortIsServed
