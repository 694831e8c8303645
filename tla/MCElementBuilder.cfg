CONSTANTS
  app = app
  menu = menu
  panels = panels
  barrel = barrel
  lib = lib
  kit = kit
  NoFile = NoFile
  None = None
  Solid <- MCSolid
  Css = {}
  Scss = {}
  Colocated <- MCColocated
  Trees <- MCTrees
  Bases <- MCBases
  Batches <- MCBatches
  MaxChanges = 3
  External <- MCExternal
  ExternalTree <- MCExternalTree
  MaxExternal = 1
  HtmlTags <- MCHtmlTags
  Identifiers <- MCIdentifiers
  MaxNodes = 5
SPECIFICATION BuilderSpec
INVARIANTS
  BuilderTypeOK
  HostsAreTheirOwn
  UnstaleElementsStay
  ElementsStandInOrder
