CONSTANTS
  a = a
  b = b
  c = c
  v1 = v1
  v2 = v2
  o1 = o1
  Absent = Absent
  Nothing = Nothing
  NoOverrides = NoOverrides
  Solid <- MCSolid
  Css <- MCCss
  Contents <- MCContents
  Overrides <- MCOverrides
  MaxEdits = 2
  MaxRequests = 3
SPECIFICATION Spec
SYMMETRY MCSymmetry
INVARIANTS
  TypeOK
  VersionsMatchTrees
  CrossAnswerIsCold
  SingleAnswerIsCold
CHECK_DEADLOCK FALSE
