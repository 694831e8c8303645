CONSTANTS
  page = page
  item = item
  itemCss = itemCss
  theme = theme
  mixins = mixins
  NoFile = NoFile
  None = None
  Solid <- MCSolid
  Css <- MCCss
  Scss <- MCScss
  Colocated <- MCColocated
  Trees <- MCTrees
  Bases <- MCBases
  Batches <- MCBatches
  MaxChanges = 2
  inlineStyle = inlineStyle
  Inline <- inlineStyle
  FileOrder <- MCFileOrder
  Rules <- MCRules
  Layers <- MCLayers
  x = x
  y = y
  Wild = Wild
  Dynamic = Dynamic
  Values <- MCValues
  Selectors <- MCSelectors
  Document <- MCDocument
SPECIFICATION TableSpec
INVARIANTS
  TypeOK
  ResultsAreOwn
  PerFileIsOwn
  LocalScopeIsStale
  OnlyNamesakesAreLost
  LatestEditStands
  WinnerIsStrongest
  MatchesHold
  LayersStandInOrder
  NoMatchIsMissed
CHECK_DEADLOCK FALSE
