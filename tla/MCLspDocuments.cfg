CONSTANTS
  a = a
  c = c
  v1 = v1
  v2 = v2
  Absent = Absent
  Nothing = Nothing
  Solid <- MCSolid
  Css <- MCCss
  Contents <- MCContents
  MaxEvents = 4
  MaxBuilds = 2
SPECIFICATION Spec
INVARIANTS
  TypeOK
  SingleIsCurrent
  CrossHasOwnText
PROPERTIES
  ClosedStaysClear
  CatchesUp
CHECK_DEADLOCK FALSE
