CONSTANTS
  a = a
  b = b
  c = c
  Nothing = Nothing
  Files <- MCFiles
  Imports <- MCImports
  Texts = {"good", "bad"}
  Faulty = {"bad"}
  MaxEvents = 4
SPECIFICATION Spec
INVARIANTS
  TypeOK
  TsIsCurrent
  ShownIsHeld
PROPERTIES
  NoNewGhosts
  DisposedIsUnused
  TsCatchesUp
CHECK_DEADLOCK FALSE
