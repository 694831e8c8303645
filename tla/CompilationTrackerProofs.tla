----------------------- MODULE CompilationTrackerProofs -----------------------
(***************************************************************************)
(* Safety of the compilation tracker, for every workspace, every set of    *)
(* edits and every bound on their number.                                  *)
(*                                                                         *)
(* LocalScopeIsStale is not inductive: that a file is not stale says       *)
(* nothing of what it was before.  What an operation keeps is that a file  *)
(* that is not among the changed ones still has its first tree; that       *)
(* staleness then covers a file's scope is a fact of the dependency graph  *)
(* (LocalScopeIsAffected), whatever the compilation.                       *)
(***************************************************************************)
EXTENDS CompilationTracker, TLAPS

(* What reverse edges reach, in any compilation.                           *)

(* A search reaches where it starts from.                                  *)
LEMMA ReachStart == ASSUME NEW R, NEW x \in Files PROVE x \in Reach(R, x)
BY DEF Reach

(* A search stays in a set that has its start and is closed under R.       *)
LEMMA ReachWithin ==
  ASSUME NEW R, NEW x \in Files, NEW S \in SUBSET Files, x \in S,
         \A e \in R : e[1] \in S => e[2] \in S
  PROVE  Reach(R, x) \subseteq S
BY DEF Reach

(* The edges from a solid file, backwards.                                 *)
LEMMA SolidEdgeReversed ==
  ASSUME NEW k, NEW s \in Solids(k), NEW f \in SolidEdges(k, s)
  PROVE  <<f, s>> \in ReverseEdges(k)
<1>1. <<s, f>> \in {s} \X SolidEdges(k, s)
  OBVIOUS
<1>2. <<s, f>> \in Edges(k)
  BY <1>1 DEF Edges
<1> QED  BY <1>2 DEF ReverseEdges

(* The edges of the @imports, backwards.                                   *)
LEMMA AtImportReversed ==
  ASSUME NEW k, NEW e \in AtImports(k)
  PROVE  <<e[2], e[1]>> \in ReverseEdges(k)
BY DEF ReverseEdges, Edges

(* The transitive scope of a CSS file that has a tree is one of such files.*)
LEMMA ScopeHasTrees ==
  ASSUME NEW k, Sheets(k) \subseteq Css, NEW c \in Sheets(k)
  PROVE  TransitiveScope(k, c) \subseteq Sheets(k)
<1>1. \A e \in AtImports(k) : e[1] \in Sheets(k) => e[2] \in Sheets(k)
  BY DEF AtImports
<1>2. c \in Files /\ Sheets(k) \in SUBSET Files
  BY DEF Files
<1> QED  BY <1>1, <1>2, ReachWithin DEF TransitiveScope

(* What @imports lead to from c leads back to c along reverse edges.       *)
LEMMA ScopeLeadsBack ==
  ASSUME NEW k, Sheets(k) \subseteq Css, NEW c \in Sheets(k),
         NEW d \in TransitiveScope(k, c),
         NEW S \in SUBSET Files, d \in S,
         \A e \in ReverseEdges(k) : e[1] \in S => e[2] \in S
  PROVE  c \in S
<1> DEFINE T == {y \in Files : y \in S => c \in S}
<1>1. c \in T
  BY DEF Files
<1>2. ASSUME NEW e \in AtImports(k), e[1] \in T PROVE e[2] \in T
  <2>1. e[1] \in Files /\ e[2] \in Files
    BY DEF AtImports, Files
  <2>2. <<e[2], e[1]>> \in ReverseEdges(k)
    BY AtImportReversed
  <2>3. e[2] \in S => e[1] \in S
    BY <2>2
  <2> QED  BY <1>2, <2>1, <2>3
<1>3. T \in SUBSET Files /\ c \in Files
  BY DEF Files
<1> HIDE DEF T
<1>4. Reach(AtImports(k), c) \subseteq T
  BY <1>1, <1>2, <1>3, ReachWithin
<1> QED  BY <1>4 DEF TransitiveScope, T

(* A change of any CSS file of a solid file's own scope reaches it.        *)
THEOREM LocalScopeIsAffected ==
  ASSUME NEW k, Solids(k) \subseteq Solid, Sheets(k) \subseteq Css,
         NEW s \in Solids(k), NEW c \in LocalScope(k, s)
  PROVE  s \in Affected(k, c)
<1>1. PICK entry \in ScopeEntries(k, s) : c \in TransitiveScope(k, entry)
  BY DEF LocalScope
<1>2. entry \in Sheets(k)
  BY DEF ScopeEntries, ColocatedCss, CssImports
<1>3. s \in Files
  BY DEF Files
<1>4. SUFFICES ASSUME NEW S \in SUBSET Files, c \in S,
                      \A e \in ReverseEdges(k) : e[1] \in S => e[2] \in S
               PROVE  s \in S
  BY <1>3 DEF Affected, Reach
<1>5. entry \in S
  BY <1>1, <1>2, <1>4, ScopeLeadsBack
<1>6. ASSUME NEW t \in Solids(k), NEW f \in SolidEdges(k, t), f \in S PROVE t \in S
  <2>1. <<f, t>> \in ReverseEdges(k)
    BY SolidEdgeReversed
  <2>2. <<f, t>>[1] \in S => <<f, t>>[2] \in S
    BY ONLY <1>4, <2>1
  <2> QED  BY <1>6, <2>2
<1>7. CASE entry \in ColocatedCss(k, s) \cup CssImports(k, s)
  BY <1>5, <1>6, <1>7 DEF SolidEdges
<1>8. CASE \E t \in JsImports(k, s) : entry \in ColocatedCss(k, t)
  <2>1. PICK t \in JsImports(k, s) : entry \in ColocatedCss(k, t)
    BY <1>8
  <2>2. t \in Solids(k) /\ t \in SolidEdges(k, s) /\ entry \in SolidEdges(k, t)
    BY <2>1 DEF JsImports, SolidEdges
  <2> QED  BY <1>5, <1>6, <2>2
<1> QED  BY <1>1, <1>7, <1>8 DEF ScopeEntries
------------------------------------------------------------------------------

(* The parts of the invariant, of one handle.                              *)
Typed(h) == h \in Handles /\ WellTyped(h.compilation)

StaleIsComputed(h) == h.stale = StaleFiles(h.compilation, h.changed)

ChangesAreRecorded(h, b) ==
  \A f \in HasTree(h.compilation) \ h.changed : TreeOf(h.compilation, f) = TreeOf(b, f)

(* No cached results are from a later generation, and those of this one    *)
(* are of this compilation.                                                *)
ResultsAreCurrent(h) ==
  /\ h.resultsGeneration <= h.generation
  /\ h.resultsGeneration = h.generation => h.resultsOf \in {None, h.compilation}

PerFileIsCurrent(h) ==
  \A f \in Files : h.perFile[f] # None => TreeOf(h.perFile[f], f) = TreeOf(h.compilation, f)

HandleOK(h, b) ==
  /\ Typed(h) /\ StaleIsComputed(h) /\ ChangesAreRecorded(h, b)
  /\ ResultsAreCurrent(h) /\ PerFileIsCurrent(h)

(* The inductive invariant of the tracker.                                 *)
IInv == base \in Compilations /\ HandleOK(tracker, base) /\ HandleOK(held, base)
------------------------------------------------------------------------------
(* What it is to be a compilation.                                         *)
LEMMA CompilationShape ==
  ASSUME NEW k
  PROVE  k \in Compilations <=>
           \E S \in SUBSET Solid, C \in SUBSET Css : k \in CompilationsOver(S, C)
BY DEF Compilations

(* The files of a compilation are files of the workspace.                  *)
LEMMA CompilationFiles ==
  ASSUME NEW k \in Compilations
  PROVE  Solids(k) \subseteq Solid /\ Sheets(k) \subseteq Css /\ HasTree(k) \subseteq Files
<1>1. PICK S \in SUBSET Solid, C \in SUBSET Css : k \in CompilationsOver(S, C)
  BY CompilationShape
<1>2. DOMAIN k.solid = S /\ DOMAIN k.css = C
  BY <1>1 DEF CompilationsOver
<1> QED  BY <1>1, <1>2 DEF Solids, Sheets, HasTree, Files

(* So are the stale files.                                                 *)
LEMMA StaleFilesAreFiles ==
  ASSUME NEW k \in Compilations, NEW changed \in SUBSET Files
  PROVE  StaleFiles(k, changed) \in SUBSET Files
BY CompilationFiles DEF StaleFiles, HasTree

(* Replacing the trees of F leaves those of the other files alone, and     *)
(* makes no file appear outside F.                                         *)
LEMMA ReplaceKeeps ==
  ASSUME NEW k \in Compilations, NEW F \in SUBSET Files, NEW t, NEW f \in Files \ F
  PROVE  /\ TreeOf(Replace(k, F, t), f) = TreeOf(k, f)
         /\ f \in HasTree(Replace(k, F, t)) => f \in HasTree(k)
BY CompilationFiles, FilesAssumption DEF Replace, TreeOf, HasTree, Solids, Sheets, Files

(* Replacing trees gives a compilation of trees the files may have.        *)
LEMMA ReplaceTyped ==
  ASSUME NEW k \in Compilations, WellTyped(k), NEW F \in SUBSET Files, NEW t,
         \A f \in F : t[f] # None => t[f] \in Trees[f]
  PROVE  Replace(k, F, t) \in Compilations /\ WellTyped(Replace(k, F, t))
<1> DEFINE r == Replace(k, F, t)
           S == (Solids(k) \ F) \cup {g \in F \cap Solid : t[g] # None}
           C == (Sheets(k) \ F) \cup {g \in F \cap Css : t[g] # None}
<1>1. S \in SUBSET Solid /\ C \in SUBSET Css
  BY CompilationFiles
<1>2. r = [solid |-> [f \in S |-> IF f \in F THEN t[f] ELSE k.solid[f]],
           css |-> [f \in C |-> IF f \in F THEN t[f] ELSE k.css[f]]]
  BY DEF Replace
<1> HIDE DEF r, S, C
<1>3. ASSUME NEW f \in S PROVE r.solid[f] \in Trees[f]
  <2>1. CASE f \in F
    BY <1>2, <1>3, <2>1 DEF S
  <2>2. CASE f \notin F
    BY <1>2, <1>3, <2>2 DEF S, WellTyped, HasTree, TreeOf
  <2> QED  BY <2>1, <2>2
<1>4. ASSUME NEW f \in C PROVE r.css[f] \in Trees[f]
  <2>1. CASE f \in F
    BY <1>2, <1>4, <2>1 DEF C
  <2>2. CASE f \notin F
    <3>1. f \in Sheets(k) /\ f \notin Solids(k)
      BY <1>4, <2>2, CompilationFiles, FilesAssumption DEF C
    <3> QED  BY <1>2, <1>4, <2>2, <3>1 DEF WellTyped, HasTree, TreeOf
  <2> QED  BY <2>1, <2>2
<1>5. Solids(r) = S /\ Sheets(r) = C
  BY <1>2 DEF Solids, Sheets
<1>6. r.solid \in [S -> UNION {Trees[f] : f \in Solid}]
  BY <1>1, <1>2, <1>3
<1>7. r.css \in [C -> UNION {Trees[f] : f \in Css}]
  BY <1>1, <1>2, <1>4
<1>8. r \in CompilationsOver(S, C)
  BY <1>2, <1>6, <1>7 DEF CompilationsOver
<1>9. r \in Compilations
  BY <1>1, <1>8, CompilationShape
<1>10. WellTyped(r)
  BY <1>3, <1>4, <1>5 DEF WellTyped, HasTree, TreeOf
<1> QED  BY <1>9, <1>10 DEF r
------------------------------------------------------------------------------
(* The handle an edit derives: applyChange, applyDeletion and applyBatch.  *)
LEMMA ChangeOK ==
  ASSUME NEW h, NEW b, HandleOK(h, b), h.generation < MaxChanges, NEW t, DOMAIN t \in SUBSET Files,
         \A f \in DOMAIN t : t[f] # None => t[f] \in Trees[f]
  PROVE  HandleOK(Change(h, t), b)
<1> DEFINE F == DOMAIN t
           k == Replace(h.compilation, F, t)
           n == Change(h, t)
<1>1. /\ h.compilation \in Compilations /\ WellTyped(h.compilation)
      /\ h.changed \in SUBSET Files /\ h.generation \in 0..MaxChanges
      /\ h.resultsGeneration \in -1..MaxChanges
      /\ h.perFile \in [Files -> Compilations \cup {None}]
  BY DEF HandleOK, Typed, Handles
<1>2. k \in Compilations /\ WellTyped(k)
  BY <1>1, ReplaceTyped
<1>3. h.resultsGeneration <= h.generation /\ h.generation \in Nat /\ MaxChanges \in Nat
  BY <1>1, BoundAssumption DEF HandleOK, ResultsAreCurrent
<1>4. n = [compilation |-> k, changed |-> h.changed \cup F,
           stale |-> StaleFiles(k, h.changed \cup F),
           generation |-> h.generation + 1, resultsGeneration |-> h.resultsGeneration,
           resultsOf |-> None,
           perFile |-> [f \in Files |-> IF f \in F THEN None ELSE h.perFile[f]]]
  <2>1. h.resultsGeneration # h.generation + 1
    BY <1>1, <1>3
  <2> QED  BY <2>1 DEF Change, Derived, ChangedWith, PerFileWithout, NextGeneration
<1> HIDE DEF n, k
<1>5. Typed(n)
  <2>1. StaleFiles(k, h.changed \cup F) \in SUBSET Files
    BY <1>1, <1>2, StaleFilesAreFiles
  <2>2. h.generation + 1 \in 0..MaxChanges
    BY <1>1, <1>3
  <2> QED  BY <1>1, <1>2, <1>4, <2>1, <2>2 DEF Typed, Handles
<1>6. StaleIsComputed(n)
  BY <1>4 DEF StaleIsComputed
<1>7. ChangesAreRecorded(n, b)
  <2> SUFFICES ASSUME NEW f \in HasTree(k) \ (h.changed \cup F)
               PROVE  TreeOf(k, f) = TreeOf(b, f)
    BY <1>4 DEF ChangesAreRecorded
  <2>1. f \in Files \ F
    BY <1>2, CompilationFiles
  <2>2. TreeOf(k, f) = TreeOf(h.compilation, f) /\ f \in HasTree(h.compilation)
    BY <1>1, <2>1, ReplaceKeeps DEF k
  <2> QED  BY <2>2 DEF HandleOK, ChangesAreRecorded
<1>8. ResultsAreCurrent(n)
  BY <1>1, <1>3, <1>4 DEF ResultsAreCurrent
<1>9. PerFileIsCurrent(n)
  <2> SUFFICES ASSUME NEW f \in Files, n.perFile[f] # None
               PROVE  TreeOf(n.perFile[f], f) = TreeOf(k, f)
    BY <1>4 DEF PerFileIsCurrent
  <2>1. f \in Files \ F /\ n.perFile[f] = h.perFile[f]
    BY <1>4
  <2>2. TreeOf(h.perFile[f], f) = TreeOf(h.compilation, f)
    BY <2>1 DEF HandleOK, PerFileIsCurrent
  <2> QED  BY <1>1, <2>1, <2>2, ReplaceKeeps DEF k
<1> QED  BY <1>5, <1>6, <1>7, <1>8, <1>9 DEF HandleOK, n

(* The handle applyInputChange derives.                                    *)
LEMMA InputChangeOK ==
  ASSUME HandleOK(tracker, base), ApplyInputChange
  PROVE  HandleOK(tracker', base)
<1> DEFINE k == tracker.compilation
<1>1. /\ k \in Compilations /\ WellTyped(k)
      /\ tracker.generation \in Nat /\ tracker.generation < MaxChanges /\ MaxChanges \in Nat
  BY BoundAssumption DEF HandleOK, Typed, Handles, ApplyInputChange
<1>2. tracker' = [compilation |-> k, changed |-> HasTree(k), stale |-> StaleFiles(k, HasTree(k)),
                  generation |-> tracker.generation + 1,
                  resultsGeneration |-> tracker.generation + 1,
                  resultsOf |-> None, perFile |-> NoPerFile]
  BY DEF ApplyInputChange, Derived
<1> HIDE DEF k
<1>3. HasTree(k) \in SUBSET Files /\ StaleFiles(k, HasTree(k)) \in SUBSET Files
  BY <1>1, CompilationFiles, StaleFilesAreFiles
<1>4. tracker.generation + 1 \in 0..MaxChanges
  BY <1>1
<1>5. Typed(tracker')
  BY <1>1, <1>2, <1>3, <1>4 DEF Typed, Handles, NoPerFile
<1>6. StaleIsComputed(tracker') /\ ResultsAreCurrent(tracker')
  BY <1>1, <1>2 DEF StaleIsComputed, ResultsAreCurrent
<1>7. HasTree(tracker'.compilation) \ tracker'.changed = {}
  BY <1>2
<1>8. ChangesAreRecorded(tracker', base)
  BY <1>7 DEF ChangesAreRecorded
<1>9. PerFileIsCurrent(tracker')
  BY <1>2 DEF PerFileIsCurrent, NoPerFile
<1> QED  BY <1>5, <1>6, <1>8, <1>9 DEF HandleOK

(* A handle whose results are set or dropped, in place.                    *)
LEMMA MutationOK ==
  ASSUME NEW h, NEW b, HandleOK(h, b)
  PROVE  HandleOK(WithResults(h), b) /\ HandleOK(WithoutResults(h), b)
<1>1. h \in Handles /\ h.compilation \in Compilations /\ WellTyped(h.compilation)
  BY DEF HandleOK, Typed, Handles
<1>2. h.generation \in 0..MaxChanges /\ MaxChanges \in Nat
  BY <1>1, BoundAssumption DEF Handles
<1> DEFINE r == WithResults(h)
           n == WithoutResults(h)
<1>3. /\ r \in Handles /\ r.compilation = h.compilation /\ r.changed = h.changed
      /\ r.stale = h.stale /\ r.resultsGeneration = r.generation
      /\ r.generation = h.generation /\ r.resultsOf = h.compilation
      /\ r.perFile = [f \in Files |-> h.compilation]
  BY <1>1, <1>2 DEF Handles, WithResults, WithCache
<1>4. /\ n \in Handles /\ n.compilation = h.compilation /\ n.changed = h.changed
      /\ n.stale = h.stale /\ n.resultsGeneration = -1 /\ n.generation = h.generation
      /\ n.perFile = NoPerFile
  BY <1>1, <1>2 DEF Handles, WithoutResults, WithCache, NoPerFile
<1> HIDE DEF r, n
<1>5. HandleOK(r, b)
  <2>1. Typed(r) /\ StaleIsComputed(r) /\ ChangesAreRecorded(r, b)
    BY <1>1, <1>3 DEF HandleOK, Typed, StaleIsComputed, ChangesAreRecorded
  <2>2. ResultsAreCurrent(r) /\ PerFileIsCurrent(r)
    BY <1>2, <1>3 DEF ResultsAreCurrent, PerFileIsCurrent
  <2> QED  BY <2>1, <2>2 DEF HandleOK
<1>6. HandleOK(n, b)
  <2>1. Typed(n) /\ StaleIsComputed(n) /\ ChangesAreRecorded(n, b)
    BY <1>1, <1>4 DEF HandleOK, Typed, StaleIsComputed, ChangesAreRecorded
  <2>2. ResultsAreCurrent(n) /\ PerFileIsCurrent(n)
    BY <1>2, <1>4 DEF ResultsAreCurrent, PerFileIsCurrent, NoPerFile
  <2> QED  BY <2>1, <2>2 DEF HandleOK
<1> QED  BY <1>5, <1>6 DEF r, n
------------------------------------------------------------------------------
(* The initial state satisfies the inductive invariant.                    *)
LEMMA InitIInv == Init => IInv
<1> SUFFICES ASSUME Init PROVE IInv
  OBVIOUS
<1>1. base \in Compilations /\ WellTyped(base)
  BY BasesAssumption DEF Init, WellTyped
<1>2. tracker = [compilation |-> base, changed |-> {}, stale |-> StaleFiles(base, {}),
                 generation |-> 0, resultsGeneration |-> 0, resultsOf |-> None,
                 perFile |-> NoPerFile]
  BY DEF Init, InitialTracker, Derived
<1>3. StaleFiles(base, {}) \in SUBSET Files
  BY <1>1, StaleFilesAreFiles
<1>4. Typed(tracker)
  BY <1>1, <1>2, <1>3, BoundAssumption DEF Typed, Handles, NoPerFile
<1>5. /\ StaleIsComputed(tracker) /\ ChangesAreRecorded(tracker, base)
      /\ ResultsAreCurrent(tracker) /\ PerFileIsCurrent(tracker)
  BY <1>2 DEF StaleIsComputed, ChangesAreRecorded, ResultsAreCurrent, PerFileIsCurrent, NoPerFile
<1>6. held = tracker
  BY DEF Init
<1> QED  BY <1>1, <1>4, <1>5, <1>6 DEF IInv, HandleOK

(* Every step keeps the inductive invariant.                               *)
LEMMA StepIInv == IInv /\ [Next]_vars => IInv'
<1> SUFFICES ASSUME IInv, [Next]_vars PROVE IInv'
  OBVIOUS
<1>1. base \in Compilations /\ HandleOK(tracker, base) /\ HandleOK(held, base)
  BY DEF IInv
<1>2. ASSUME base' = base, HandleOK(tracker', base), HandleOK(held', base) PROVE IInv'
  <2>1. HandleOK(tracker, base)' /\ HandleOK(held, base)'
    BY <1>2 DEF HandleOK, Typed, StaleIsComputed, ChangesAreRecorded, ResultsAreCurrent,
                PerFileIsCurrent
  <2> QED  BY <1>1, <1>2, <2>1 DEF IInv
<1>3. ASSUME NEW t \in Batches, ApplyBatch(t) PROVE IInv'
  <2> DEFINE u == [f \in DOMAIN t |-> Parsed(f, t[f])]
  <2>1. DOMAIN u \in SUBSET Files /\ \A f \in DOMAIN u : u[f] # None => u[f] \in Trees[f]
    BY BatchesAssumption DEF Parsed
  <2>2. /\ tracker.generation < MaxChanges /\ tracker' = Change(tracker, u)
        /\ held' = held /\ base' = base
    BY <1>3 DEF ApplyBatch
  <2> HIDE DEF u
  <2>3. HandleOK(Change(tracker, u), base)
    BY <1>1, <2>1, <2>2, ChangeOK
  <2> QED  BY <1>1, <1>2, <2>2, <2>3
<1>4. ASSUME NEW f \in Files, NEW t \in Trees[f], ApplyChange(f, t) PROVE IInv'
  <2> DEFINE u == [g \in {f} |-> IF f \in Solid THEN None ELSE Parsed(f, t)]
  <2>1. DOMAIN u \in SUBSET Files /\ \A g \in DOMAIN u : u[g] # None => u[g] \in Trees[g]
    BY DEF Parsed
  <2>2. /\ tracker.generation < MaxChanges /\ tracker' = Change(tracker, u)
        /\ held' = held /\ base' = base
    BY <1>4 DEF ApplyChange
  <2> HIDE DEF u
  <2>3. HandleOK(Change(tracker, u), base)
    BY <1>1, <2>1, <2>2, ChangeOK
  <2> QED  BY <1>1, <1>2, <2>2, <2>3
<1>5. ASSUME NEW f \in Files, ApplyDeletion(f) PROVE IInv'
  <2> DEFINE u == [g \in {f} |-> None]
  <2>1. DOMAIN u \in SUBSET Files /\ \A g \in DOMAIN u : u[g] # None => u[g] \in Trees[g]
    OBVIOUS
  <2>2. /\ tracker.generation < MaxChanges /\ tracker' = Change(tracker, u)
        /\ held' = held /\ base' = base
    BY <1>5 DEF ApplyDeletion
  <2> HIDE DEF u
  <2>3. HandleOK(Change(tracker, u), base)
    BY <1>1, <2>1, <2>2, ChangeOK
  <2> QED  BY <1>1, <1>2, <2>2, <2>3
<1>6. CASE ApplyInputChange
  <2>1. HandleOK(tracker', base)
    BY <1>1, <1>6, InputChangeOK
  <2> QED  BY <1>1, <1>2, <1>6, <2>1 DEF ApplyInputChange
<1>7. CASE SetResults
  <2>1. HandleOK(WithResults(tracker), base)
    BY <1>1, MutationOK
  <2> QED  BY <1>1, <1>2, <1>7, <2>1 DEF SetResults, Mutate
<1>8. CASE InvalidateResults
  <2>1. HandleOK(WithoutResults(tracker), base)
    BY <1>1, MutationOK
  <2> QED  BY <1>1, <1>2, <1>8, <2>1 DEF InvalidateResults, Mutate
<1>9. CASE Hold
  BY <1>1, <1>2, <1>9 DEF Hold
<1>10. CASE SetHeldResults
  <2>1. HandleOK(WithResults(held), base)
    BY <1>1, MutationOK
  <2> QED  BY <1>1, <1>2, <1>10, <2>1 DEF SetHeldResults
<1>11. CASE UNCHANGED vars
  BY <1>1, <1>2, <1>11 DEF vars
<1> QED  BY <1>3, <1>4, <1>5, <1>6, <1>7, <1>8, <1>9, <1>10, <1>11 DEF Next

(* The inductive invariant holds throughout.                               *)
LEMMA IInvHolds == Spec => []IInv
BY InitIInv, StepIInv, PTL DEF Spec
------------------------------------------------------------------------------
(* The handles keep their types: every derived compilation has trees its   *)
(* files may have, generations stay below the bound.                       *)
THEOREM TypeCorrect == Spec => []TypeOK
<1>1. IInv => TypeOK
  BY DEF IInv, HandleOK, Typed, TypeOK
<1> QED  BY <1>1, IInvHolds, PTL

(* getCachedCrossFileResults returns results of the handle's own           *)
(* compilation or none, on the current handle and on one kept since.       *)
THEOREM CachesAreOwn == Spec => []ResultsAreOwn
<1>1. IInv => ResultsAreOwn
  BY DEF IInv, HandleOK, ResultsAreCurrent, ResultsAreOwn, CachedResults
<1> QED  BY <1>1, IInvHolds, PTL

(* The diagnostics cached for a file are of the text it has.               *)
THEOREM FileCachesAreOwn == Spec => []PerFileIsOwn
<1>1. IInv => PerFileIsOwn
  BY DEF IInv, HandleOK, PerFileIsCurrent, PerFileIsOwn
<1> QED  BY <1>1, IInvHolds, PTL

(* A semantic model that counts as valid has lost nothing of its own scope.*)
THEOREM ScopesAreStale == Spec => []LocalScopeIsStale
<1>1. ASSUME IInv PROVE LocalScopeIsStale
  <2> DEFINE k == tracker.compilation
  <2> SUFFICES ASSUME NEW s \in Solids(k) \ tracker.stale, NEW f \in {s} \cup LocalScope(k, s)
               PROVE  TreeOf(k, f) = TreeOf(base, f)
    BY DEF LocalScopeIsStale
  <2>1. /\ k \in Compilations /\ tracker.changed \in SUBSET Files
        /\ tracker.stale = StaleFiles(k, tracker.changed)
        /\ \A g \in HasTree(k) \ tracker.changed : TreeOf(k, g) = TreeOf(base, g)
    BY <1>1 DEF IInv, HandleOK, Typed, Handles, StaleIsComputed, ChangesAreRecorded
  <2> HIDE DEF k
  <2>2. Solids(k) \subseteq Solid /\ Sheets(k) \subseteq Css
    BY <2>1, CompilationFiles
  <2>3. CASE f = s
    BY <2>1, <2>3 DEF StaleFiles, HasTree
  <2>4. CASE f \in LocalScope(k, s)
    <3>1. PICK c \in ScopeEntries(k, s) : f \in TransitiveScope(k, c)
      BY <2>4 DEF LocalScope
    <3>2. c \in Sheets(k)
      BY <3>1 DEF ScopeEntries, ColocatedCss, CssImports
    <3>3. f \in HasTree(k)
      BY <2>2, <3>1, <3>2, ScopeHasTrees DEF HasTree
    <3>4. s \in Affected(k, f)
      BY <2>2, <2>4, LocalScopeIsAffected
    <3>5. f \notin tracker.changed
      BY <2>1, <3>4 DEF StaleFiles
    <3> QED  BY <2>1, <3>3, <3>5
  <2> QED  BY <2>3, <2>4
<1> QED  BY <1>1, IInvHolds, PTL
==============================================================================
