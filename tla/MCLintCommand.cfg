CONSTANTS
  c1 = c1
  c2 = c2
  d1 = d1
  d2 = d2
  d3 = d3
  Nobody = Nobody
  Commands <- MCCommands
  Daemons <- MCDaemons
  MaxRetries = 2
SPECIFICATION Spec
INVARIANTS
  TypeOK
  OneDaemon
PROPERTIES
  OnlyStaleSocketsGo
  EveryLintEnds
  UnreachableEnds
CHECK_DEADLOCK FALSE
