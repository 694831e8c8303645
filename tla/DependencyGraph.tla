--------------------------- MODULE DependencyGraph ---------------------------
(***************************************************************************)
(* The dependency graph of a compilation (packages/ganko/src/compilation/  *)
(* incremental/dependency-graph.ts): its edges, the CSS files in scope of  *)
(* a solid file, and the files a change reaches backwards along the edges. *)
(*                                                                         *)
(* A compilation k has k.solid and k.css, functions from the files that    *)
(* have a tree to their trees.  A solid tree has the files it imports with *)
(* specifiers (imports) and the CSS files it imports bare (bare), a CSS    *)
(* tree has its @imports; type-only imports are left out, as they are by   *)
(* the code.  Path resolution is abstracted: an import names its target,   *)
(* and resolves iff the target has a tree.                                 *)
(***************************************************************************)
EXTENDS Naturals

CONSTANTS
  Solid, Css,   \* solid and CSS files, Scss among the latter
  Scss,
  NoFile,
  Colocated     \* Colocated[s]: the CSS file with the stem of s, or NoFile

ASSUME FilesAssumption == Solid \cap Css = {} /\ Scss \subseteq Css
ASSUME ColocatedAssumption ==
  NoFile \notin Css /\ Colocated \in [Solid -> Css \cup {NoFile}]

Files == Solid \cup Css

(* What a breadth-first search along R from x reaches, x included: every   *)
(* set of files that has x and is closed under R contains it.              *)
Reach(R, x) ==
  {y \in Files : \A S \in SUBSET Files :
     (x \in S /\ \A e \in R : e[1] \in S => e[2] \in S) => y \in S}
------------------------------------------------------------------------------
(* The solid and the CSS files that have a tree.                           *)
Solids(k) == DOMAIN k.solid
Sheets(k) == DOMAIN k.css
HasTree(k) == Solids(k) \cup Sheets(k)

(* Colocated CSS is a plain .css file (CSS_COLOCATED_EXTENSIONS).          *)
ColocatedCss(k, s) == {Colocated[s]} \cap (Sheets(k) \ Scss)
CssImports(k, s) == (k.solid[s].imports \cup k.solid[s].bare) \cap Sheets(k)
BareImports(k, s) == k.solid[s].bare \cap Sheets(k)
JsImports(k, s) == k.solid[s].imports \cap Solids(k)
AtImports(k) == {e \in Sheets(k) \X Sheets(k) : e[2] \in k.css[e[1]].imports}

(* addEdge, by kind: colocated and css-import, js-import, css-at-import.   *)
(* The kind "global-side-effect" is declared but no edge has it.           *)
SolidEdges_NoColocated(k, s) == CssImports(k, s) \cup JsImports(k, s)
SolidEdges_Css(k, s) == ColocatedCss(k, s) \cup CssImports(k, s)
SolidEdges(k, s) == ColocatedCss(k, s) \cup CssImports(k, s) \cup JsImports(k, s)
Edges(k) == AtImports(k) \cup UNION {{s} \X SolidEdges(k, s) : s \in Solids(k)}

ReverseEdges(k) == {<<e[2], e[1]>> : e \in Edges(k)}

(* getTransitivelyAffected                                                 *)
Affected(k, f) == Reach(ReverseEdges(k), f)

(* getOrCollectTransitiveScope                                             *)
TransitiveScope(k, c) == Reach(AtImports(k), c)

(* The CSS files a solid file's own scope starts from: its colocated one,  *)
(* those it imports, those colocated with the components it imports.       *)
ScopeEntries(k, s) ==
  ColocatedCss(k, s) \cup CssImports(k, s)
  \cup UNION {ColocatedCss(k, t) : t \in JsImports(k, s)}
LocalScope(k, s) == UNION {TransitiveScope(k, c) : c \in ScopeEntries(k, s)}

(* CSS imported bare anywhere is in scope everywhere.                      *)
GlobalScope(k) ==
  UNION {TransitiveScope(k, c) : c \in UNION {BareImports(k, s) : s \in Solids(k)}}

(* getCSSScope                                                             *)
CssScope(k, s) == LocalScope(k, s) \cup GlobalScope(k)

(* propagateChanges, filterStaleSolidFiles: the stale files of a compiled  *)
(* workspace some of whose files have changed.                             *)
StaleFiles(k, changed) ==
  changed \cup {s \in Solids(k) : \E f \in changed : s \in Affected(k, f)}
==============================================================================
