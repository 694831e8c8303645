CONSTANTS
  page = page
  item = item
  itemCss = itemCss
  theme = theme
  mixins = mixins
  NoFile = NoFile
  None = None
  Solid <- MCSolid
  Css <- MCCss
  Scss <- MCScss
  Colocated <- MCColocated
  Trees <- MCTrees
  Bases <- MCBases
  Batches <- MCBatches
  MaxChanges = 2
SPECIFICATION EditSpec
INVARIANT
  EditsKeepCss
CHECK_DEADLOCK FALSE
