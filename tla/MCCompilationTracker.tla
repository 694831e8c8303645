------------------------ MODULE MCCompilationTracker ------------------------
(* A page and the item component it imports, the item's colocated CSS, a   *)
(* theme that the page or the item may import bare or the item's CSS may   *)
(* @import, and an SCSS file of mixins.  Batches edit one or two files.    *)
EXTENDS CompilationTracker, TLC
CONSTANTS page, item, itemCss, theme, mixins

MCSolid == {page, item}
MCCss == {itemCss, theme, mixins}
MCScss == {mixins}
MCColocated == (item :> itemCss) @@ (page :> NoFile)

SolidTree(imports, bare) == [imports |-> imports, bare |-> bare]
CssTree(imports, text) == [imports |-> imports, text |-> text]

MCTrees ==
  (page :> {SolidTree({item}, {}), SolidTree({mixins}, {theme})})
  @@ (item :> {SolidTree({}, {}), SolidTree({theme}, {})})
  @@ (itemCss :> {CssTree({}, 1), CssTree({theme}, 1)})
  @@ (theme :> {CssTree({}, 1), CssTree({}, 2)})
  @@ (mixins :> {CssTree({}, 1)})

(* All files, or all but the item's colocated CSS, which appears later.    *)
MCBases ==
  {[solid |-> [f \in MCSolid |-> IF f = page THEN p ELSE SolidTree({}, {})],
    css |-> [f \in C |-> CASE f = itemCss -> c [] f = theme -> t [] OTHER -> CssTree({}, 1)]] :
     p \in MCTrees[page], c \in MCTrees[itemCss], t \in MCTrees[theme],
     C \in {MCCss, MCCss \ {itemCss}}}

Edits(f) == MCTrees[f] \cup (IF f \in MCSolid THEN {None} ELSE {})
MCBatches ==
  UNION {{(f :> t) @@ (g :> u) : t \in Edits(f), u \in Edits(g)} : f, g \in MCSolid \cup MCCss}
==============================================================================
