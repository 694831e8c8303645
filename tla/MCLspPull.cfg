CONSTANTS
  a = a
  c = c
  v1 = v1
  v2 = v2
  Absent = Absent
  Nothing = Nothing
  Solid <- MCSolid
  Css <- MCCss
  Contents <- MCContents
  MaxEvents = 3
  MaxBuilds = 2
SPECIFICATION Spec
PROPERTIES
  PullIsFresh
CHECK_DEADLOCK FALSE
