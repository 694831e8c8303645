-------------------------- MODULE CompilationTracker --------------------------
(***************************************************************************)
(* The compilation tracker (packages/ganko/src/compilation/incremental/    *)
(* tracker.ts), the immutable handle that the language server replaces on  *)
(* every batch of edits: its compilation, the files changed since it was   *)
(* created, the stale files, and the cross-file results cached in it.      *)
(* A handler keeps the handle it read across an await, so a second one,    *)
(* held, may be older than the current one (tracker).                      *)
(*                                                                         *)
(* Cross-file results are a function of the compilation: they are recorded *)
(* as the compilation they were computed from.                             *)
(***************************************************************************)
EXTENDS DependencyGraph, Integers

CONSTANTS
  Trees,       \* Trees[f]: the trees the texts of f may parse to
  Batches,     \* the batches of edits: functions from files to their new trees
  Bases,       \* the compilations a tracker may be created from
  None,        \* no tree, no cached results
  MaxChanges   \* bound on the tracker's generation

ASSUME BoundAssumption == MaxChanges \in Nat

VARIABLES
  tracker,   \* the current handle
  held,      \* the handle a suspended handler has
  base       \* history: the compilation the tracker was created from

vars == <<tracker, held, base>>

(* The compilations whose files have some tree, and a file's tree.         *)
CompilationsOver(S, C) ==
  [solid: [S -> UNION {Trees[f] : f \in Solid}], css: [C -> UNION {Trees[f] : f \in Css}]]
Compilations ==
  UNION {UNION {CompilationsOver(S, C) : C \in SUBSET Css} : S \in SUBSET Solid}

TreeOf(k, f) == IF f \in Solids(k) THEN k.solid[f]
                ELSE IF f \in Sheets(k) THEN k.css[f] ELSE None

ASSUME TreesAssumption == \A f \in Files : None \notin Trees[f]
ASSUME BasesAssumption ==
  \A k \in Bases : k \in Compilations /\ \A f \in HasTree(k) : TreeOf(k, f) \in Trees[f]
ASSUME BatchesAssumption ==
  \A t \in Batches : /\ DOMAIN t \subseteq Files
                     /\ \A f \in DOMAIN t : t[f] \in Trees[f] \cup {None}
                     /\ \A f \in DOMAIN t \cap Css : t[f] # None

(* TrackerState.  resultsOf and perFile stand for crossFileResults and     *)
(* crossFileDiagnostics.                                                   *)
Handles ==
  [compilation: Compilations, changed: SUBSET Files, stale: SUBSET Files,
   generation: 0..MaxChanges, resultsGeneration: -1..MaxChanges,
   resultsOf: Compilations \cup {None}, perFile: [Files -> Compilations \cup {None}]]
WellTyped(k) == \A f \in HasTree(k) : TreeOf(k, f) \in Trees[f]

TypeOK ==
  /\ \A h \in {tracker, held} : h \in Handles /\ WellTyped(h.compilation)
  /\ base \in Compilations

NoPerFile == [f \in Files |-> None]
------------------------------------------------------------------------------
(* withoutFile, withSolidTree and withCSSTree: the compilation with the    *)
(* trees of the files F replaced by t, without one where t is None.        *)
Replace(k, F, t) ==
  [solid |-> [f \in (Solids(k) \ F) \cup {g \in F \cap Solid : t[g] # None} |->
                IF f \in F THEN t[f] ELSE k.solid[f]],
   css |-> [f \in (Sheets(k) \ F) \cup {g \in F \cap Css : t[g] # None} |->
                IF f \in F THEN t[f] ELSE k.css[f]]]

(* Results cached at generation g are dropped by the next generation.      *)
NextGeneration_Same(h) == h.generation
NextGeneration_Twice(h) == h.generation + 2
NextGeneration(h) == h.generation + 1

(* A changed file stays changed for the tracker's life.                    *)
ChangedWith_Only(h, F) == F
ChangedWith(h, F) == h.changed \cup F

(* The per-file diagnostics of changed files go.                           *)
PerFileWithout_None(h, F) == h.perFile
PerFileWithout(h, F) == [f \in Files |-> IF f \in F THEN None ELSE h.perFile[f]]

(* buildState, for a derived handle.                                       *)
Derived(k, changed, perFile, resultsGeneration, resultsOf, generation) ==
  [compilation |-> k, changed |-> changed, stale |-> StaleFiles(k, changed),
   generation |-> generation, resultsGeneration |-> resultsGeneration,
   resultsOf |-> IF resultsGeneration = generation THEN resultsOf ELSE None,
   perFile |-> perFile]

(* applyChange, applyDeletion and applyBatch differ in the trees they put. *)
Change(h, t) ==
  Derived(Replace(h.compilation, DOMAIN t, t), ChangedWith(h, DOMAIN t),
          PerFileWithout(h, DOMAIN t), h.resultsGeneration, h.resultsOf, NextGeneration(h))

(* getCachedCrossFileResults                                               *)
CachedResults(h) ==
  IF h.resultsGeneration # h.generation THEN None ELSE h.resultsOf

(* setCachedCrossFileResults and invalidateCrossFileResults replace the    *)
(* handle's cache.                                                         *)
WithCache(h, results, resultsGeneration, perFile) ==
  [compilation |-> h.compilation, changed |-> h.changed, stale |-> h.stale,
   generation |-> h.generation, resultsGeneration |-> resultsGeneration,
   resultsOf |-> results, perFile |-> perFile]
WithResults(h) ==
  WithCache(h, h.compilation, h.generation, [f \in Files |-> h.compilation])
WithoutResults(h) == WithCache(h, None, -1, NoPerFile)
------------------------------------------------------------------------------
(* createCompilationTracker                                                *)
InitialTracker(k) == Derived(k, {}, NoPerFile, 0, None, 0)

Init ==
  /\ base \in Bases
  /\ tracker = InitialTracker(base) /\ held = tracker

(* A call on the current handle mutates the object held refers to, too, if *)
(* they are the same one.                                                  *)
Mutate(h) ==
  /\ tracker' = h
  /\ held' = IF held.generation = tracker.generation THEN h ELSE held
  /\ UNCHANGED base

(* The tree an edited CSS file gets: no caller passes a provider for .scss.*)
Parsed(f, t) == IF f \in Scss THEN None ELSE t

(* applyBatch: a solid file gets the tree its caller built, if it could.   *)
ApplyBatch(t) ==
  /\ tracker.generation < MaxChanges
  /\ tracker' = Change(tracker, [f \in DOMAIN t |-> Parsed(f, t[f])])
  /\ UNCHANGED <<held, base>>

(* applyChange: one file; putting a solid file's tree is left to the caller.*)
ApplyChange(f, t) ==
  /\ tracker.generation < MaxChanges
  /\ tracker' = Change(tracker, [g \in {f} |-> IF f \in Solid THEN None ELSE Parsed(f, t)])
  /\ UNCHANGED <<held, base>>

(* applyDeletion                                                           *)
ApplyDeletion(f) ==
  /\ tracker.generation < MaxChanges
  /\ tracker' = Change(tracker, [g \in {f} |-> None])
  /\ UNCHANGED <<held, base>>

(* applyInputChange: everything is changed, nothing cached.                *)
ApplyInputChange ==
  /\ tracker.generation < MaxChanges
  /\ tracker' = Derived(tracker.compilation, HasTree(tracker.compilation), NoPerFile,
                        tracker.generation + 1, None, tracker.generation + 1)
  /\ UNCHANGED <<held, base>>

SetResults == Mutate(WithResults(tracker))
InvalidateResults == Mutate(WithoutResults(tracker))

(* A handler reads the current handle; later it caches what it computed    *)
(* from the handle it has, which may be an old one by then.                *)
Hold == held' = tracker /\ UNCHANGED <<tracker, base>>
SetHeldResults ==
  /\ held.generation # tracker.generation
  /\ held' = WithResults(held)
  /\ UNCHANGED <<tracker, base>>

Next ==
  \/ \E t \in Batches : ApplyBatch(t)
  \/ \E f \in Files : ApplyDeletion(f) \/ \E t \in Trees[f] : ApplyChange(f, t)
  \/ ApplyInputChange \/ SetResults \/ InvalidateResults \/ Hold \/ SetHeldResults

Spec == Init /\ [][Next]_vars

(* What the language server calls: edits come in batches only.             *)
EditSpec == Init /\ [][\E t \in Batches : ApplyBatch(t)]_vars
------------------------------------------------------------------------------
(* Cached cross-file results, of the current handle and of an older one    *)
(* that somebody still has, are those of its own compilation.              *)
ResultsAreOwn ==
  \A h \in {tracker, held} : CachedResults(h) # None => CachedResults(h) = h.compilation

(* A file's cached diagnostics were computed from the text it has, even if *)
(* the results as a whole have been dropped since.                         *)
PerFileIsOwn ==
  \A h \in {tracker, held}, f \in Files :
    h.perFile[f] # None => TreeOf(h.perFile[f], f) = TreeOf(h.compilation, f)

(* A solid file that is not stale, whose semantic model therefore stays    *)
(* valid, is unchanged, and so is every CSS file of its own scope: the     *)
(* reverse edges lead from every one of them back to it, through @imports, *)
(* co-location and the components it imports.  CSS that another file       *)
(* imports for its side effect is in scope of the file too, and has none.  *)
LocalScopeIsStale ==
  \A s \in Solids(tracker.compilation) \ tracker.stale :
    \A f \in {s} \cup LocalScope(tracker.compilation, s) :
      TreeOf(tracker.compilation, f) = TreeOf(base, f)

(* CompilationTracker.applyBatch "CSS files are parsed internally via      *)
(* CSSSourceProvider": editing CSS files takes none out of the compilation.*)
EditsKeepCss == Sheets(base) \subseteq Sheets(tracker.compilation)
==============================================================================
